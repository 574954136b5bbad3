----------------------------- MODULE Ft8Proofs ------------------------------
(***************************************************************************)
(* Proofs about the FT8 results of a frame. First ResultMerge, for lists   *)
(* of any length, any capacity and any tolerance: its invariants are       *)
(* inductive together, as a completed entry keeps its text and its         *)
(* frequency, so what it duplicates stays the same (Completion), and an    *)
(* appended one leaves the entries before it alone. Then the two           *)
(* open-addressed tables of Ft8Decoder, for any sizes and any hashes. Last *)
(* the heap that chooses the candidates (CandidateHeap), for any scores.   *)
(***************************************************************************)
EXTENDS Ft8Decoder, CandidateHeap, FiniteSetTheorems, TLAPS, WellFoundedInduction

MergeInv ==
    /\ MergeTypeOK
    /\ NothingAddedTwice
    /\ NothingMissed
    /\ GivenKept
    /\ CallsAttributed

(***************************************************************************)
(* The code's test of the distance is the reader's.                        *)
(***************************************************************************)
LEMMA SameIsDuplicates ==
    ASSUME NEW a \in Result, NEW b \in Result
    PROVE  Same(a, b) <=> Duplicates(a, b)
  <1>1. a.frequency \in Int /\ b.frequency \in Int
    BY MergeAssumption DEF Result
  <1>2. a.frequency - b.frequency \in -Tolerance .. Tolerance
           <=> /\ a.frequency <= b.frequency + Tolerance
               /\ b.frequency <= a.frequency + Tolerance
    BY <1>1, MergeAssumption
  <1> QED
    BY <1>2 DEF Same, Duplicates

(***************************************************************************)
(* A decode is its own duplicate: the comparison loses none.               *)
(***************************************************************************)
LEMMA DuplicateOfItself ==
    ASSUME NEW a \in Result
    PROVE  Duplicates(a, a)
  <1>1. a.frequency \in Int
    BY MergeAssumption DEF Result
  <1>2. a.frequency <= a.frequency + Tolerance
    BY <1>1, MergeAssumption
  <1> QED
    BY <1>2 DEF Duplicates

(***************************************************************************)
(* Completing a decode changes at most a missing callsign.                 *)
(***************************************************************************)
LEMMA Completion ==
    ASSUME NEW a \in Result, NEW b \in Result
    PROVE  /\ Completed(a, b) \in Result
           /\ Completed(a, b).message = a.message
           /\ Completed(a, b).frequency = a.frequency
           /\ Completed(a, b).call = IF a.call = NoCall THEN b.call ELSE a.call
  BY DEF Completed, Result

(***************************************************************************)
(* Before the first turn the list is ft8_lib's.                            *)
(***************************************************************************)
LEMMA MergeInitially == Init => MergeInv
  <1> SUFFICES ASSUME Init PROVE MergeInv
    OBVIOUS
  <1>1. given \in Seq(Result) /\ Len(given) \in Nat /\ Len(given) <= Capacity
    BY MergeAssumption DEF Init, Lists
  <1>2. additional \in Seq(Result) /\ Len(additional) \in Nat
    BY MergeAssumption DEF Init, Lists
  <1> QED
    BY <1>1, <1>2 DEF Init, MergeInv, MergeTypeOK, NothingAddedTwice, NothingMissed,
                      GivenKept, CallsAttributed

(***************************************************************************)
(* A turn that finds a duplicate.                                          *)
(***************************************************************************)
LEMMA CompletingTurn ==
    ASSUME MergeInv,
           addition < Len(additional),
           NEW k \in 1 .. Len(primary),
           Same(primary[k], additional[addition + 1]),
           primary' = [primary EXCEPT ![k] =
                          Completed(primary[k], additional[addition + 1])],
           addition' = addition + 1,
           additional' = additional, given' = given
    PROVE  MergeInv'
  <1> DEFINE result == additional[addition + 1]
             done   == Completed(primary[k], result)
  <1> USE DEF MergeInv
  <1>1. /\ primary \in Seq(Result) /\ Len(primary) \in Nat
        /\ additional \in Seq(Result) /\ Len(additional) \in Nat
        /\ given \in Seq(Result) /\ Len(given) \in Nat
        /\ addition \in Nat
    BY DEF MergeTypeOK
  <1>2. result \in Result /\ primary[k] \in Result
    BY <1>1
  <1>3. /\ done \in Result
        /\ done.message = primary[k].message
        /\ done.frequency = primary[k].frequency
        /\ done.call = IF primary[k].call = NoCall THEN result.call ELSE primary[k].call
    BY <1>2, Completion
  <1>4. /\ primary' \in Seq(Result)
        /\ Len(primary') = Len(primary)
        /\ primary'[k] = done
        /\ \A i \in 1 .. Len(primary) : i # k => primary'[i] = primary[i]
    BY <1>1, <1>3
  <1>5. \A i \in 1 .. Len(primary) : /\ primary'[i].message = primary[i].message
                                     /\ primary'[i].frequency = primary[i].frequency
    BY <1>3, <1>4
  <1>6. \A i \in 1 .. Len(primary) :
           primary[i].call # NoCall => primary'[i].call = primary[i].call
    BY <1>3, <1>4
  <1>7. Duplicates(primary'[k], result)
    BY <1>2, <1>4, <1>5, SameIsDuplicates DEF Duplicates
  <1>8. MergeTypeOK'
    BY <1>1, <1>4 DEF MergeTypeOK
  <1>9. NothingAddedTwice'
    <2> SUFFICES ASSUME NEW j \in Len(given) + 1 .. Len(primary), NEW i \in 1 .. j - 1
                 PROVE  ~Duplicates(primary'[i], primary'[j])
      BY <1>4 DEF NothingAddedTwice
    <2>1. i \in 1 .. Len(primary) /\ j \in 1 .. Len(primary)
      BY <1>1
    <2>2. ~Duplicates(primary[i], primary[j])
      BY DEF NothingAddedTwice
    <2> QED
      BY <1>5, <2>1, <2>2 DEF Duplicates
  <1>10. NothingMissed'
    <2> SUFFICES ASSUME NEW a \in 1 .. addition + 1
                 PROVE  \E i \in 1 .. Len(primary) :
                           /\ Duplicates(primary'[i], additional[a])
                           /\ additional[a].call # NoCall => primary'[i].call # NoCall
      BY <1>4 DEF NothingMissed
    <2>1. CASE a = addition + 1
      BY <1>3, <1>4, <1>7, <2>1
    <2>2. CASE a # addition + 1
      <3>1. a \in 1 .. addition
        BY <1>1, <2>2
      <3>2. PICK i \in 1 .. Len(primary) :
               /\ Duplicates(primary[i], additional[a])
               /\ additional[a].call # NoCall => primary[i].call # NoCall
        BY <3>1 DEF NothingMissed
      <3>3. Duplicates(primary'[i], additional[a])
        BY <1>5, <3>2 DEF Duplicates
      <3> QED
        BY <1>6, <3>2, <3>3
    <2> QED
      BY <2>1, <2>2
  <1>11. GivenKept'
    BY <1>4, <1>5, <1>6 DEF GivenKept
  <1>12. CallsAttributed'
    <2> SUFFICES ASSUME NEW i \in 1 .. Len(primary), primary'[i].call # NoCall
                 PROVE  \/ i <= Len(given) /\ given[i].call = primary'[i].call
                        \/ \E a \in 1 .. addition + 1 :
                              /\ additional[a].call = primary'[i].call
                              /\ Duplicates(primary'[i], additional[a])
      BY <1>4 DEF CallsAttributed
    <2>1. CASE primary[i].call # NoCall
      <3>1. primary'[i].call = primary[i].call
        BY <1>6, <2>1
      <3>2. CASE i <= Len(given) /\ given[i].call = primary[i].call
        BY <3>1, <3>2
      <3>3. CASE \E a \in 1 .. addition : /\ additional[a].call = primary[i].call
                                          /\ Duplicates(primary[i], additional[a])
        <4>1. PICK a \in 1 .. addition : /\ additional[a].call = primary[i].call
                                         /\ Duplicates(primary[i], additional[a])
          BY <3>3
        <4>2. a \in 1 .. addition + 1
          BY <1>1
        <4>3. Duplicates(primary'[i], additional[a])
          BY <1>5, <4>1 DEF Duplicates
        <4> QED
          BY <3>1, <4>1, <4>2, <4>3
      <3> QED
        BY <2>1, <3>2, <3>3 DEF CallsAttributed
    <2>2. CASE primary[i].call = NoCall
      <3>1. i = k /\ primary'[i].call = result.call
        BY <1>3, <1>4, <2>2
      <3>2. addition + 1 \in 1 .. addition + 1
        BY <1>1
      <3> QED
        BY <1>7, <3>1, <3>2
    <2> QED
      BY <2>1, <2>2
  <1> QED
    BY <1>8, <1>9, <1>10, <1>11, <1>12

(***************************************************************************)
(* A turn that finds none, with room in the array.                         *)
(***************************************************************************)
LEMMA AppendingTurn ==
    ASSUME MergeInv,
           addition < Len(additional), Len(primary) < Capacity,
           \A i \in 1 .. Len(primary) : ~Same(primary[i], additional[addition + 1]),
           primary' = Append(primary, additional[addition + 1]),
           addition' = addition + 1,
           additional' = additional, given' = given
    PROVE  MergeInv'
  <1> DEFINE result == additional[addition + 1]
             last   == Len(primary) + 1
  <1> USE DEF MergeInv
  <1>1. /\ primary \in Seq(Result) /\ Len(primary) \in Nat
        /\ additional \in Seq(Result) /\ Len(additional) \in Nat
        /\ given \in Seq(Result) /\ Len(given) \in Nat
        /\ Len(given) <= Len(primary)
        /\ addition \in Nat
    BY DEF MergeTypeOK
  <1>2. result \in Result
    BY <1>1
  <1>3. /\ primary' \in Seq(Result)
        /\ Len(primary') = last
        /\ primary'[last] = result
        /\ \A i \in 1 .. Len(primary) : primary'[i] = primary[i]
    BY <1>1, <1>2
  <1>4. \A i \in 1 .. Len(primary) : ~Duplicates(primary[i], result)
    BY <1>1, <1>2, SameIsDuplicates
  <1>5. Duplicates(result, result)
    BY <1>2, DuplicateOfItself
  <1>6. MergeTypeOK'
    BY <1>1, <1>3, MergeAssumption DEF MergeTypeOK
  <1>7. NothingAddedTwice'
    <2> SUFFICES ASSUME NEW j \in Len(given) + 1 .. last, NEW i \in 1 .. j - 1
                 PROVE  ~Duplicates(primary'[i], primary'[j])
      BY <1>3 DEF NothingAddedTwice
    <2>1. i \in 1 .. Len(primary) /\ primary'[i] = primary[i]
      BY <1>1, <1>3
    <2>2. CASE j = last
      BY <1>3, <1>4, <2>1, <2>2
    <2>3. CASE j # last
      <3>1. j \in Len(given) + 1 .. Len(primary) /\ j \in 1 .. Len(primary)
        BY <1>1, <2>3
      <3>2. ~Duplicates(primary[i], primary[j])
        BY <3>1 DEF NothingAddedTwice
      <3> QED
        BY <1>3, <2>1, <3>1, <3>2
    <2> QED
      BY <2>2, <2>3
  <1>8. NothingMissed'
    <2> SUFFICES ASSUME NEW a \in 1 .. addition + 1
                 PROVE  \E i \in 1 .. last :
                           /\ Duplicates(primary'[i], additional[a])
                           /\ additional[a].call # NoCall => primary'[i].call # NoCall
      BY <1>3 DEF NothingMissed
    <2>1. CASE a = addition + 1
      <3>1. last \in 1 .. last
        BY <1>1
      <3> QED
        BY <1>3, <1>5, <2>1, <3>1
    <2>2. CASE a # addition + 1
      <3>1. a \in 1 .. addition
        BY <1>1, <2>2
      <3>2. PICK i \in 1 .. Len(primary) :
               /\ Duplicates(primary[i], additional[a])
               /\ additional[a].call # NoCall => primary[i].call # NoCall
        BY <3>1 DEF NothingMissed
      <3>3. i \in 1 .. last
        BY <1>1
      <3> QED
        BY <1>3, <3>2, <3>3
    <2> QED
      BY <2>1, <2>2
  <1>9. GivenKept'
    <2> SUFFICES ASSUME NEW i \in 1 .. Len(given)
                 PROVE  /\ i \in 1 .. last
                        /\ primary'[i].message = given[i].message
                        /\ primary'[i].frequency = given[i].frequency
                        /\ given[i].call # NoCall => primary'[i].call = given[i].call
      BY <1>3 DEF GivenKept
    <2>1. i \in 1 .. Len(primary) /\ i \in 1 .. last
      BY <1>1
    <2> QED
      BY <1>3, <2>1 DEF GivenKept
  <1>10. CallsAttributed'
    <2> SUFFICES ASSUME NEW i \in 1 .. last, primary'[i].call # NoCall
                 PROVE  \/ i <= Len(given) /\ given[i].call = primary'[i].call
                        \/ \E a \in 1 .. addition + 1 :
                              /\ additional[a].call = primary'[i].call
                              /\ Duplicates(primary'[i], additional[a])
      BY <1>3 DEF CallsAttributed
    <2>1. CASE i = last
      <3>1. addition + 1 \in 1 .. addition + 1
        BY <1>1
      <3> QED
        BY <1>3, <1>5, <2>1, <3>1
    <2>2. CASE i # last
      <3>1. i \in 1 .. Len(primary) /\ primary'[i] = primary[i]
        BY <1>1, <1>3, <2>2
      <3>2. \/ i <= Len(given) /\ given[i].call = primary[i].call
            \/ \E a \in 1 .. addition : /\ additional[a].call = primary[i].call
                                        /\ Duplicates(primary[i], additional[a])
        BY <3>1 DEF CallsAttributed
      <3>3. \A a \in 1 .. addition : a \in 1 .. addition + 1
        BY <1>1
      <3> QED
        BY <3>1, <3>2, <3>3
    <2> QED
      BY <2>1, <2>2
  <1> QED
    BY <1>6, <1>7, <1>8, <1>9, <1>10

(***************************************************************************)
(* Every turn of the loop preserves the invariant.                         *)
(***************************************************************************)
LEMMA MergeStep == MergeInv /\ [Turn]_vars => MergeInv'
  <1> SUFFICES ASSUME MergeInv, [Turn]_vars PROVE MergeInv'
    OBVIOUS
  <1>1. CASE Turn
    <2>1. CASE \A i \in 1 .. Len(primary) : ~Same(primary[i], additional[addition + 1])
      BY <1>1, <2>1, AppendingTurn DEF Turn, IsFirst, HasRoom
    <2>2. CASE \E i \in 1 .. Len(primary) : Same(primary[i], additional[addition + 1])
      <3>1. PICK k \in 1 .. Len(primary) :
               /\ IsFirst(k, additional[addition + 1])
               /\ primary' = [primary EXCEPT ![k] =
                                 Completed(primary[k], additional[addition + 1])]
        BY <1>1, <2>2 DEF Turn
      <3>2. Same(primary[k], additional[addition + 1])
        BY <3>1 DEF IsFirst
      <3> QED
        BY <1>1, <3>1, <3>2, CompletingTurn DEF Turn, HasRoom
    <2> QED
      BY <2>1, <2>2
  <1>2. CASE UNCHANGED vars
    BY <1>2 DEF vars, MergeInv, MergeTypeOK, NothingAddedTwice, NothingMissed, GivenKept,
                CallsAttributed
  <1> QED
    BY <1>1, <1>2

(***************************************************************************)
(* The merge does what it promises: at every turn the list is within the   *)
(* array, deduplicated, complete so far, keeps ft8_lib's decodes and       *)
(* credits callsigns rightly.                                              *)
(***************************************************************************)
THEOREM MergeCorrect == Spec => []MergeInv
  BY MergeInitially, MergeStep, PTL DEF Spec

(***************************************************************************)
(* Deduplicated: no decode of jt9 enters the list next to one that it      *)
(* duplicates.                                                             *)
(***************************************************************************)
THEOREM MergeDeduplicates == Spec => []NothingAddedTwice
  <1>1. MergeInv => NothingAddedTwice
    BY DEF MergeInv
  <1> QED
    BY <1>1, MergeCorrect, PTL

(***************************************************************************)
(* A union: no decode of jt9, and no callsign it resolved, is missed while *)
(* there is room.                                                          *)
(***************************************************************************)
THEOREM MergeIsUnion == Spec => []NothingMissed
  <1>1. MergeInv => NothingMissed
    BY DEF MergeInv
  <1> QED
    BY <1>1, MergeCorrect, PTL

(***************************************************************************)
(* A callsign in the list belongs to the decode it stands with.            *)
(***************************************************************************)
THEOREM MergeAttributes == Spec => []CallsAttributed
  <1>1. MergeInv => CallsAttributed
    BY DEF MergeInv
  <1> QED
    BY <1>1, MergeCorrect, PTL

(***************************************************************************)
(* ft8_lib's decodes survive the merge in place, with what they had.       *)
(***************************************************************************)
THEOREM MergeKeeps == Spec => []GivenKept
  <1>1. MergeInv => GivenKept
    BY DEF MergeInv
  <1> QED
    BY <1>1, MergeCorrect, PTL

-----------------------------------------------------------------------------
(***************************************************************************)
(* A table of callsigns whose entries have their own hash.                 *)
(***************************************************************************)
Entry == [call : Calls \union {NoCall}, hash : Nat, age : 0 .. MaxAge + 1]

TableSound(tab) ==
    /\ tab \in [Slots -> Entry]
    /\ \A i \in Slots : tab[i].call # NoCall => tab[i].hash = Hash[tab[i].call]

Full(tab) == \A i \in Slots : tab[i].call # NoCall

(***************************************************************************)
(* The probes from the home of a callsign come to it before an empty slot. *)
(***************************************************************************)
Reached(tab, c) ==
    \E p \in Slots :
        /\ tab[Probed(Home(Hash[c], 1), p)].call = c
        /\ \A q \in 0 .. p - 1 : tab[Probed(Home(Hash[c], 1), q)].call # NoCall

(***************************************************************************)
(* The table follows from tab by saving the callsigns cs and no others.    *)
(***************************************************************************)
Saved(tab, new, cs) ==
    /\ TableSound(new)
    /\ \A i \in Slots : tab[i].call # NoCall => new[i].call = tab[i].call
    /\ \A i \in Slots : new[i].call # NoCall => new[i] = tab[i] \/ new[i].call \in cs
    /\ \A c \in cs : Reached(new, c) \/ Full(new)

(***************************************************************************)
(* No callsign in the table was heard longer ago than its entry says;      *)
(* those heard in this frame can be reached, unless the table is full. h   *)
(* is how long ago each was heard.                                         *)
(***************************************************************************)
TableHeard(tab, h) ==
    /\ \A i \in Slots : tab[i].call # NoCall => h[tab[i].call] <= tab[i].age
    /\ \A c \in Calls : h[c] = 0 => Reached(tab, c) \/ Full(tab)

TableInv ==
    /\ at \in {"decode", "merge"}
    /\ heard \in [Calls -> Nat]
    /\ TableSound(table)
    /\ TableHeard(table, heard)
    /\ at = "merge" => \A c \in Calls : heard[c] > 0

Ft8Result ==
    [message : [to : Printeds, de : Printeds, extra : {m.extra : m \in Payloads}],
     frequency : Frequencies, call : Calls \union {NoCall}]

(***************************************************************************)
(* The probes from the CRC of a payload come to it before a free slot.     *)
(***************************************************************************)
Chained ==
    /\ decoded \in [MessageSlots -> Payloads \union {NoMessage}]
    /\ \A i \in MessageSlots : decoded[i] # NoMessage =>
          \E p \in MessageSlots :
             /\ i = MessageProbe(decoded[i], p)
             /\ \A q \in 0 .. p - 1 : decoded[MessageProbe(decoded[i], q)] # NoMessage

OneEach ==
    \A i, j \in MessageSlots : decoded[i] = decoded[j] => i = j \/ decoded[i] = NoMessage

OneInv == Chained /\ OneEach

-----------------------------------------------------------------------------
(***************************************************************************)
(* A set of numbers has a least one.                                       *)
(***************************************************************************)
LEMMA LeastNatural ==
    ASSUME NEW S \in SUBSET Nat, S # {}
    PROVE  \E n \in S : \A m \in S : n <= m
  <1>1. \E R : IsWellFoundedOn(R, Nat) /\ \A x, y \in Nat : y < x => <<y, x>> \in R
    <2>1. IsWellFoundedOn(OpToRel(<, Nat), Nat)
      BY NatLessThanWellFounded
    <2>2. \A x, y \in Nat : y < x => <<y, x>> \in OpToRel(<, Nat)
      BY DEF OpToRel
    <2> QED
      BY <2>1, <2>2, Zenon
  <1>2. PICK R : IsWellFoundedOn(R, Nat) /\ \A x, y \in Nat : y < x => <<y, x>> \in R
    BY <1>1
  <1>3. PICK x \in S : \A y \in S : ~(<<y, x>> \in R)
    BY <1>2, WFMin
  <1>4. \A y \in S : ~(y < x)
    BY <1>2, <1>3, Zenon
  <1> QED
    BY <1>4

LEMMA RemainderIs ==
    ASSUME NEW q \in Int, NEW n \in Nat, n > 0,
           NEW k \in Int, 0 <= k, k < n
    PROVE  (n * q + k) % n = k
  BY Z3

(***************************************************************************)
(* Probing in turn from any home comes to every slot of a ring.            *)
(***************************************************************************)
LEMMA RingReached ==
    ASSUME NEW n \in Nat \ {0}, NEW home \in Nat
    PROVE  /\ \A p \in 0 .. n - 1 : (home + p) % n \in 0 .. n - 1
           /\ \A i \in 0 .. n - 1 : \E p \in 0 .. n - 1 : (home + p) % n = i
  <1>1. \A p \in 0 .. n - 1 : (home + p) % n \in 0 .. n - 1
    BY Z3
  <1>2. ASSUME NEW i \in 0 .. n - 1
        PROVE  \E p \in 0 .. n - 1 : (home + p) % n = i
    <2> DEFINE r == home % n
               q == home \div n
    <2>1. r \in 0 .. n - 1 /\ q \in Int /\ home = n * q + r
      BY Z3
    <2> HIDE DEF r, q
    <2>2. CASE r <= i
      <3>1. (n * q + i) % n = i
        BY <2>1, RemainderIs
      <3>2. home + (i - r) = n * q + i /\ i - r \in 0 .. n - 1
        BY <2>1, <2>2
      <3> QED
        BY <3>1, <3>2
    <2>3. CASE i < r
      <3>1. (n * (q + 1) + i) % n = i
        BY <2>1, RemainderIs
      <3>2. n * (q + 1) = n * q + n /\ n * q \in Int
        BY <2>1, Z3
      <3>3. home + (i - r + n) = n * (q + 1) + i /\ i - r + n \in 0 .. n - 1
        BY <2>1, <2>3, <3>2
      <3> QED
        BY <3>1, <3>3
    <2> QED
      BY <2>1, <2>2, <2>3
  <1> QED
    BY <1>1, <1>2

(***************************************************************************)
(* The loop stops at the first of its stops, if there is one.              *)
(***************************************************************************)
LEMMA FirstProbeIs ==
    ASSUME NEW home \in Nat, NEW stops \in SUBSET Slots
    PROVE  \/ stops = {} /\ FirstProbe(home, stops) = TableSize
           \/ /\ FirstProbe(home, stops) \in Slots
              /\ Probed(home, FirstProbe(home, stops)) \in stops
              /\ \A q \in 0 .. FirstProbe(home, stops) - 1 : Probed(home, q) \notin stops
  <1> DEFINE S == {p \in Slots : Probed(home, p) \in stops}
  <1>1. CASE stops = {}
    BY <1>1 DEF FirstProbe
  <1>2. CASE stops # {}
    <2>1. PICK i \in Slots : i \in stops
      BY <1>2
    <2>2. \E p \in Slots : Probed(home, p) = i
      <3>1. TableSize \in Nat \ {0}
        BY Ft8Assumption
      <3>2. \A j \in 0 .. TableSize - 1 : \E p \in 0 .. TableSize - 1 :
               (home + p) % TableSize = j
        BY <3>1, RingReached
      <3> QED
        BY <3>2 DEF Slots, Probed
    <2>3. S # {} /\ S \in SUBSET Nat
      BY <2>1, <2>2 DEF Slots
    <2>4. PICK p \in S : \A q \in S : p <= q
      BY <2>3, LeastNatural
    <2>5. \A q \in 0 .. p - 1 : q \in Slots /\ Probed(home, q) \notin stops
      <3> SUFFICES ASSUME NEW q \in 0 .. p - 1
                   PROVE  q \in Slots /\ Probed(home, q) \notin stops
        OBVIOUS
      <3>1. q \in Slots /\ ~(p <= q)
        BY Ft8Assumption DEF Slots
      <3> QED
        BY <3>1, <2>4
    <2>6. \E x \in Slots : /\ Probed(home, x) \in stops
                           /\ \A q \in 0 .. x - 1 : Probed(home, q) \notin stops
      BY <2>4, <2>5
    <2>7. FirstProbe(home, stops) =
             CHOOSE x \in Slots : /\ Probed(home, x) \in stops
                                  /\ \A q \in 0 .. x - 1 : Probed(home, q) \notin stops
      BY <1>2 DEF FirstProbe
    <2> HIDE DEF S
    <2> QED
      BY <2>6, <2>7, Zenon
  <1> QED
    BY <1>1, <1>2

(***************************************************************************)
(* There is only one such probe.                                           *)
(***************************************************************************)
LEMMA FirstProbeUnique ==
    ASSUME NEW home \in Nat, NEW stops \in SUBSET Slots, NEW p \in Slots,
           Probed(home, p) \in stops,
           \A q \in 0 .. p - 1 : Probed(home, q) \notin stops
    PROVE  FirstProbe(home, stops) = p
  <1> DEFINE f == FirstProbe(home, stops)
  <1>1. /\ f \in Slots /\ Probed(home, f) \in stops
        /\ \A q \in 0 .. f - 1 : Probed(home, q) \notin stops
    BY FirstProbeIs
  <1> HIDE DEF f
  <1>2. ~(p < f) /\ ~(f < p)
    BY <1>1 DEF Slots
  <1>3. f = p
    BY <1>1, <1>2 DEF Slots
  <1> QED
    BY <1>3 DEF f

-----------------------------------------------------------------------------
LEMMA QuotientIs ==
    ASSUME NEW q \in Int, NEW n \in Nat, n > 0,
           NEW k \in Int, 0 <= k, k < n
    PROVE  (n * q + k) \div n = q
  BY Z3

(***************************************************************************)
(* A 12-bit hash has the home of the 22-bit hash it was made from: the     *)
(* bits the home is taken from are part of both.                           *)
(***************************************************************************)
LEMMA NestedQuotient ==
    ASSUME NEW h \in Nat, NEW a \in Nat \ {0}, NEW k \in Nat \ {0}
    PROVE  /\ a * k \in Nat \ {0}
           /\ (h \div a) \div k = h \div (a * k)
  <1> DEFINE x == h \div a
             r == h % a
             y == x \div k
             t == x % k
  <1>1. x \in Nat /\ r \in 0 .. a - 1 /\ h = a * x + r
    BY Z3
  <1> HIDE DEF x, r
  <1>2. y \in Nat /\ t \in 0 .. k - 1 /\ x = k * y + t
    BY <1>1, Z3
  <1> HIDE DEF y, t
  <1>3. a * x = (a * k) * y + a * t
    BY <1>1, <1>2, Z3
  <1>4. a * k \in Nat \ {0} /\ a * t \in Nat /\ a * t <= a * k - a
    <2>1. a * k \in Nat /\ a * k > 0
      BY Z3
    <2>2. a * t \in Nat
      BY <1>2, Z3
    <2>3. a * (k - 1) = a * k - a /\ a * t <= a * (k - 1)
      BY <1>2, Z3
    <2> QED
      BY <2>1, <2>2, <2>3
  <1>5. h = (a * k) * y + (a * t + r) /\ a * t + r \in 0 .. (a * k) - 1
    <2>1. (a * k) * y \in Nat
      BY <1>2, <1>4, Z3
    <2> QED
      BY <1>1, <1>3, <1>4, <2>1
  <1>6. h \div (a * k) = y
    BY <1>2, <1>4, <1>5, QuotientIs
  <1> QED
    BY <1>4, <1>6 DEF y, x

LEMMA SameHome ==
    ASSUME NEW h \in Nat
    PROVE  /\ h \div 1 = h
           /\ Home(h, 1) \in Nat
           /\ Home(h \div Divisor12, Divisor12) = Home(h, 1)
  <1> DEFINE k == Divisor10 \div Divisor12
  <1>1. /\ Divisor12 \in Nat \ {0} /\ Divisor10 \in Nat \ {0}
        /\ Divisor10 % Divisor12 = 0 /\ TableSize \in Nat \ {0}
    BY Ft8Assumption
  <1>2. k \in Nat /\ Divisor10 = Divisor12 * k
    BY <1>1, Z3
  <1> HIDE DEF k
  <1>3. k # 0
    BY <1>1, <1>2
  <1>4. (h \div Divisor12) \div k = h \div Divisor10
    BY <1>1, <1>2, <1>3, NestedQuotient
  <1>5. Divisor10 \div 1 = Divisor10 /\ h \div 1 = h
    BY <1>1
  <1>6. h \div Divisor10 \in Nat
    BY <1>1, Z3
  <1>7. Home(h, 1) = ((h \div Divisor10) * 23) % TableSize
    BY <1>5 DEF Home
  <1>8. Home(h \div Divisor12, Divisor12) = ((h \div Divisor10) * 23) % TableSize
    BY <1>4 DEF Home, k
  <1>9. ((h \div Divisor10) * 23) % TableSize \in Nat
    <2> DEFINE z == h \div Divisor10
    <2> HIDE DEF z
    <2>1. z \in Nat => z * 23 \in Nat
      OBVIOUS
    <2>2. \A w \in Nat : w % TableSize \in Nat
      BY <1>1
    <2> QED
      BY <1>6, <2>1, <2>2 DEF z
  <1> QED
    BY <1>5, <1>7, <1>8, <1>9

-----------------------------------------------------------------------------
LEMMA TableFacts ==
    /\ NoCall \notin Calls /\ TableSize \in Nat \ {0} /\ MaxAge \in Nat
    /\ Divisor12 \in Nat \ {0}
    /\ \A c \in Calls : Hash[c] \in Nat /\ Home(Hash[c], 1) \in Nat
    /\ \A home \in Nat, p \in Slots : Probed(home, p) \in Slots
  <1>1. TableSize \in Nat \ {0}
    BY Ft8Assumption
  <1>2. \A c \in Calls : Hash[c] \in Nat
    BY Ft8Assumption
  <1>3. \A c \in Calls : Home(Hash[c], 1) \in Nat
    BY <1>2, SameHome
  <1>4. \A home \in Nat, p \in Slots : Probed(home, p) \in Slots
    <2> TAKE home \in Nat, p \in Slots
    <2> QED
      BY <1>1, RingReached DEF Slots, Probed
  <1> QED
    BY <1>1, <1>2, <1>3, <1>4, MergeAssumption, Ft8Assumption

(***************************************************************************)
(* What saving a callsign does: nothing to a full table that does not have *)
(* it; otherwise it writes the entry where the probes stop.                *)
(***************************************************************************)
Stops(tab, c) ==
    {i \in Slots : tab[i].call = NoCall \/ (tab[i].hash = Hash[c] /\ tab[i].call = c)}

LEMMA SaveIs ==
    ASSUME NEW tab, TableSound(tab), NEW c \in Calls
    PROVE  \/ /\ Full(tab) /\ save_callsign(tab, c) = tab
              /\ Stops(tab, c) = {}
           \/ \E p \in Slots :
                /\ FirstProbe(Home(Hash[c], 1), Stops(tab, c)) = p
                /\ Probed(Home(Hash[c], 1), p) \in Stops(tab, c)
                /\ \A q \in 0 .. p - 1 :
                      Probed(Home(Hash[c], 1), q) \notin Stops(tab, c)
                /\ save_callsign(tab, c) =
                      [tab EXCEPT ![Probed(Home(Hash[c], 1), p)] =
                          [call |-> c, hash |-> Hash[c], age |-> 0]]
  <1> DEFINE home == Home(Hash[c], 1)
             p == FirstProbe(home, Stops(tab, c))
  <1>1. home \in Nat /\ Stops(tab, c) \in SUBSET Slots
    BY TableFacts DEF Stops
  <1>2. save_callsign(tab, c) =
           IF p = TableSize THEN tab
           ELSE [tab EXCEPT ![Probed(home, p)] =
                    [call |-> c, hash |-> Hash[c], age |-> 0]]
    BY DEF save_callsign, Stops
  <1>3. CASE Stops(tab, c) = {} /\ p = TableSize
    BY <1>2, <1>3 DEF Stops, Full
  <1>4. CASE /\ p \in Slots /\ Probed(home, p) \in Stops(tab, c)
             /\ \A q \in 0 .. p - 1 : Probed(home, q) \notin Stops(tab, c)
    <2>1. p # TableSize
      BY <1>4, TableFacts DEF Slots
    <2> QED
      BY <1>2, <1>4, <2>1
  <1> QED
    BY <1>1, <1>3, <1>4, FirstProbeIs

LEMMA SaveSaves ==
    ASSUME NEW tab, TableSound(tab), NEW c \in Calls
    PROVE  Saved(tab, save_callsign(tab, c), {c})
  <1> DEFINE home == Home(Hash[c], 1)
             new  == save_callsign(tab, c)
             entry == [call |-> c, hash |-> Hash[c], age |-> 0]
  <1>1. tab \in [Slots -> Entry] /\ c # NoCall
    BY TableFacts DEF TableSound
  <1>2. CASE Full(tab) /\ new = tab
    BY <1>2 DEF Saved, TableSound
  <1>3. ASSUME NEW p \in Slots,
               Probed(home, p) \in Stops(tab, c),
               \A q \in 0 .. p - 1 : Probed(home, q) \notin Stops(tab, c),
               new = [tab EXCEPT ![Probed(home, p)] = entry]
        PROVE  Saved(tab, new, {c})
    <2> DEFINE j == Probed(home, p)
    <2>1. entry \in Entry
      BY TableFacts DEF Entry
    <2>2. /\ j \in Slots
          /\ tab[j].call = NoCall \/ tab[j].call = c
      BY <1>3 DEF Stops
    <2> HIDE DEF new, j
    <2>3. /\ new \in [Slots -> Entry]
          /\ new[j] = entry
          /\ \A i \in Slots : i # j => new[i] = tab[i]
      BY <1>1, <1>3, <2>1, <2>2 DEF j
    <2>4. TableSound(new)
      BY <2>3 DEF TableSound
    <2>5. \A i \in Slots : tab[i].call # NoCall => new[i].call = tab[i].call
      BY <2>2, <2>3
    <2>6. \A i \in Slots : new[i].call # NoCall => new[i] = tab[i] \/ new[i].call \in {c}
      BY <2>3
    <2>7. Reached(new, c)
      <3>1. new[Probed(home, p)].call = c
        BY <2>3 DEF j
      <3>2. ASSUME NEW q \in 0 .. p - 1
            PROVE  new[Probed(home, q)].call # NoCall
        <4>1. q \in Slots
          BY TableFacts DEF Slots
        <4>2. Probed(home, q) \in Slots
          BY <4>1, TableFacts
        <4>3. tab[Probed(home, q)].call # NoCall
          BY <1>3, <4>2 DEF Stops
        <4> QED
          BY <2>5, <4>2, <4>3
      <3> QED
        BY <3>1, <3>2 DEF Reached
    <2> QED
      BY <2>4, <2>5, <2>6, <2>7 DEF Saved
  <1>4. CASE \E p \in Slots :
              /\ Probed(home, p) \in Stops(tab, c)
              /\ \A q \in 0 .. p - 1 : Probed(home, q) \notin Stops(tab, c)
              /\ new = [tab EXCEPT ![Probed(home, p)] = entry]
    <2>1. PICK p \in Slots :
              /\ Probed(home, p) \in Stops(tab, c)
              /\ \A q \in 0 .. p - 1 : Probed(home, q) \notin Stops(tab, c)
              /\ new = [tab EXCEPT ![Probed(home, p)] = entry]
      BY <1>4
    <2> HIDE DEF new, entry
    <2>2. Saved(tab, new, {c})
      BY <1>3, <2>1
    <2> QED
      BY <2>2 DEF new
  <1> QED
    BY <1>2, <1>4, SaveIs

(***************************************************************************)
(* Saving a callsign again changes nothing.                                *)
(***************************************************************************)
LEMMA SaveTwice ==
    ASSUME NEW tab, TableSound(tab), NEW c \in Calls
    PROVE  save_callsign(save_callsign(tab, c), c) = save_callsign(tab, c)
  <1> DEFINE home == Home(Hash[c], 1)
             new  == save_callsign(tab, c)
             entry == [call |-> c, hash |-> Hash[c], age |-> 0]
  <1>1. CASE new = tab
    BY <1>1
  <1>2. CASE \E p \in Slots :
              /\ Probed(home, p) \in Stops(tab, c)
              /\ \A q \in 0 .. p - 1 : Probed(home, q) \notin Stops(tab, c)
              /\ new = [tab EXCEPT ![Probed(home, p)] = entry]
    <2>1. PICK p \in Slots :
              /\ Probed(home, p) \in Stops(tab, c)
              /\ \A q \in 0 .. p - 1 : Probed(home, q) \notin Stops(tab, c)
              /\ new = [tab EXCEPT ![Probed(home, p)] = entry]
      BY <1>2
    <2> DEFINE j == Probed(home, p)
    <2>2. j \in Slots /\ tab \in [Slots -> Entry] /\ home \in Nat
      BY <2>1, TableFacts DEF TableSound
    <2> HIDE DEF new, entry
    <2>3. new[j] = entry /\ (\A i \in Slots : i # j => new[i] = tab[i])
      BY <2>1, <2>2
    <2>4. j \in Stops(new, c)
      BY <2>2, <2>3 DEF Stops, entry
    <2>5. \A q \in 0 .. p - 1 : Probed(home, q) \notin Stops(new, c)
      <3> SUFFICES ASSUME NEW q \in 0 .. p - 1, Probed(home, q) \in Stops(new, c)
                   PROVE  FALSE
        OBVIOUS
      <3>1. Probed(home, q) \in Slots /\ Probed(home, q) # j
        BY <2>1 DEF Stops
      <3>2. new[Probed(home, q)] = tab[Probed(home, q)]
        BY <2>3, <3>1
      <3>3. Probed(home, q) \in Stops(tab, c)
        BY <3>2 DEF Stops
      <3> QED
        BY <2>1, <3>3
    <2>6. FirstProbe(home, Stops(new, c)) = p
      BY <2>2, <2>4, <2>5, FirstProbeUnique DEF Stops
    <2>7. p # TableSize
      BY TableFacts DEF Slots
    <2>8. save_callsign(new, c) = [new EXCEPT ![j] = entry]
      BY <2>6, <2>7 DEF save_callsign, Stops, entry
    <2>9. new \in [Slots -> Entry]
      <3>1. Saved(tab, new, {c})
        BY SaveSaves DEF new
      <3> QED
        BY <3>1 DEF Saved, TableSound
    <2>10. [new EXCEPT ![j] = entry] = new
      BY <2>2, <2>3, <2>9
    <2> QED
      BY <2>8, <2>10 DEF new
  <1> QED
    BY <1>1, <1>2, SaveIs

(***************************************************************************)
(* A lookup gives a callsign of the table with the hash it is asked for,   *)
(* or none.                                                                *)
(***************************************************************************)
LEMMA LookupHonest ==
    ASSUME NEW tab, TableSound(tab), NEW hash \in Nat, NEW divisor \in Nat,
           NEW home \in Nat, home = Home(hash, divisor),
           lookup_callsign(tab, hash, divisor) # NoCall
    PROVE  \E i \in Slots : /\ tab[i].call = lookup_callsign(tab, hash, divisor)
                            /\ tab[i].call \in Calls
                            /\ Hash[tab[i].call] \div divisor = hash
  <1> DEFINE stops == {i \in Slots : tab[i].call = NoCall
                                        \/ tab[i].hash \div divisor = hash}
             p == FirstProbe(home, stops)
             j == Probed(home, p)
  <1>1. /\ p # TableSize
        /\ lookup_callsign(tab, hash, divisor) = tab[j].call
    BY DEF lookup_callsign
  <1>2. p \in Slots /\ j \in stops
    BY <1>1, FirstProbeIs
  <1> HIDE DEF p, j
  <1>3. j \in Slots /\ tab[j].call # NoCall /\ tab[j].hash \div divisor = hash
    BY <1>1, <1>2
  <1>4. tab[j].call \in Calls /\ tab[j].hash = Hash[tab[j].call]
    BY <1>3 DEF TableSound, Entry
  <1> QED
    BY <1>1, <1>3, <1>4

(***************************************************************************)
(* It gives one, by either hash, if a callsign with that hash is reached.  *)
(***************************************************************************)
LEMMA LookupFinds ==
    ASSUME NEW tab, TableSound(tab), NEW c \in Calls, Reached(tab, c),
           NEW hash \in Nat, NEW divisor \in Nat,
           hash = Hash[c] \div divisor,
           Home(hash, divisor) = Home(Hash[c], 1)
    PROVE  lookup_callsign(tab, hash, divisor) # NoCall
  <1> DEFINE home == Home(Hash[c], 1)
             stops == {i \in Slots : tab[i].call = NoCall
                                        \/ tab[i].hash \div divisor = hash}
             p == FirstProbe(home, stops)
  <1>1. home \in Nat /\ c # NoCall
    BY TableFacts
  <1>2. PICK r \in Slots :
           /\ tab[Probed(home, r)].call = c
           /\ \A q \in 0 .. r - 1 : tab[Probed(home, q)].call # NoCall
    BY DEF Reached
  <1>3. Probed(home, r) \in Slots
    BY <1>1, TableFacts
  <1>4. tab[Probed(home, r)].hash = Hash[c]
    BY <1>1, <1>2, <1>3 DEF TableSound
  <1>5. Probed(home, r) \in stops
    BY <1>3, <1>4
  <1>6. /\ p \in Slots
        /\ \A q \in 0 .. p - 1 : Probed(home, q) \notin stops
    BY <1>1, <1>5, FirstProbeIs
  <1>7. lookup_callsign(tab, hash, divisor) =
           IF p = TableSize THEN NoCall ELSE tab[Probed(home, p)].call
    BY DEF lookup_callsign
  <1> HIDE DEF p, stops
  <1>8. p # TableSize
    BY <1>6, TableFacts DEF Slots
  <1>9. p <= r
    <2> SUFFICES ASSUME ~(p <= r) PROVE FALSE
      OBVIOUS
    <2>1. r \in 0 .. p - 1
      BY <1>6 DEF Slots
    <2> QED
      BY <1>5, <1>6, <2>1
  <1>10. CASE p = r
    BY <1>1, <1>2, <1>7, <1>8, <1>10
  <1>11. CASE p # r
    <2>1. p \in 0 .. r - 1
      BY <1>6, <1>9, <1>11 DEF Slots
    <2> QED
      BY <1>2, <1>7, <1>8, <2>1
  <1> QED
    BY <1>10, <1>11

-----------------------------------------------------------------------------
LEMMA SavedNone ==
    ASSUME NEW tab, TableSound(tab)
    PROVE  Saved(tab, tab, {})
  BY DEF Saved

(***************************************************************************)
(* A table that keeps its callsigns keeps what can be reached in it.       *)
(***************************************************************************)
LEMMA ReachedKept ==
    ASSUME NEW tab, NEW new,
           \A i \in Slots : tab[i].call # NoCall => new[i].call = tab[i].call
    PROVE  /\ Full(tab) => Full(new)
           /\ \A c \in Calls : Reached(tab, c) => Reached(new, c)
  <1>1. Full(tab) => Full(new)
    BY DEF Full
  <1>2. ASSUME NEW c \in Calls, Reached(tab, c)
        PROVE  Reached(new, c)
    <2> DEFINE home == Home(Hash[c], 1)
    <2>1. home \in Nat /\ c # NoCall
      BY TableFacts
    <2>2. PICK p \in Slots : /\ tab[Probed(home, p)].call = c
                             /\ \A q \in 0 .. p - 1 : tab[Probed(home, q)].call # NoCall
      BY <1>2 DEF Reached
    <2>3. new[Probed(home, p)].call = c
      BY <2>1, <2>2, TableFacts
    <2>4. ASSUME NEW q \in 0 .. p - 1
          PROVE  new[Probed(home, q)].call # NoCall
      <3>1. q \in Slots
        BY TableFacts DEF Slots
      <3> QED
        BY <2>1, <2>2, <3>1, TableFacts
    <2> QED
      BY <2>3, <2>4 DEF Reached
  <1> QED
    BY <1>1, <1>2

LEMMA SavedThen ==
    ASSUME NEW tab, NEW new, NEW newer, NEW cs \in SUBSET Calls, NEW ds \in SUBSET Calls,
           Saved(tab, new, cs), Saved(new, newer, ds)
    PROVE  Saved(tab, newer, cs \union ds)
  <1>1. TableSound(newer)
    BY DEF Saved
  <1>2. \A i \in Slots : tab[i].call # NoCall => newer[i].call = tab[i].call
    BY DEF Saved
  <1>3. \A i \in Slots :
           newer[i].call # NoCall => newer[i] = tab[i] \/ newer[i].call \in cs \union ds
    BY DEF Saved
  <1>4. \A i \in Slots : new[i].call # NoCall => newer[i].call = new[i].call
    BY DEF Saved
  <1>5. \A c \in cs : Reached(newer, c) \/ Full(newer)
    BY <1>4, ReachedKept DEF Saved
  <1>6. \A c \in ds : Reached(newer, c) \/ Full(newer)
    BY DEF Saved
  <1> QED
    BY <1>1, <1>2, <1>3, <1>5, <1>6 DEF Saved

(***************************************************************************)
(* What unpacking one field saves.                                         *)
(***************************************************************************)
FieldCalls(field) == {f.call : f \in {g \in {field} : g.kind = "clear"}}

LEMMA FieldIs ==
    ASSUME NEW field \in Fields
    PROVE  /\ field.kind = "clear" => field.call \in Calls
           /\ field.kind # "clear" => field.call = NoCall
           /\ field.kind \in {"hash22", "hash12"} => field.hash \in Nat
           /\ field.kind = "bad" => field = NotACall
           /\ FieldCalls(field) \in SUBSET Calls
           /\ field.kind = "clear" => FieldCalls(field) = {field.call}
           /\ field.kind # "clear" => FieldCalls(field) = {}
  <1>1. CASE field \in {Token, NotACall}
    BY <1>1 DEF Token, NotACall, FieldCalls
  <1>2. CASE \E c \in Calls : field = Clear(c)
    BY <1>2 DEF Clear, FieldCalls
  <1>3. CASE field \in [kind : {"hash22", "hash12"}, call : {NoCall}, hash : Nat]
    BY <1>3 DEF FieldCalls
  <1> QED
    BY <1>1, <1>2, <1>3 DEF Fields

LEMMA SavedBySaves ==
    ASSUME NEW tab, TableSound(tab), NEW field \in Fields
    PROVE  /\ Saved(tab, SavedBy(field, tab), FieldCalls(field))
           /\ SavedBy(field, SavedBy(field, tab)) = SavedBy(field, tab)
           /\ TableSound(SavedBy(field, tab))
  <1>1. CASE field.kind = "clear"
    <2>1. field.call \in Calls /\ FieldCalls(field) = {field.call}
      BY <1>1, FieldIs
    <2>2. /\ SavedBy(field, tab) = save_callsign(tab, field.call)
          /\ SavedBy(field, SavedBy(field, tab)) =
                save_callsign(save_callsign(tab, field.call), field.call)
      BY <1>1 DEF SavedBy
    <2>3. Saved(tab, SavedBy(field, tab), FieldCalls(field))
      BY <2>1, <2>2, SaveSaves
    <2> QED
      BY <2>1, <2>2, <2>3, SaveTwice DEF Saved
  <1>2. CASE field.kind # "clear"
    <2>1. SavedBy(field, tab) = tab /\ FieldCalls(field) = {}
      BY <1>2, FieldIs DEF SavedBy
    <2> QED
      BY <2>1, SavedNone
  <1> QED
    BY <1>1, <1>2

(***************************************************************************)
(* A payload saves the callsigns it has in clear: a standard message also  *)
(* when it fails, the others only when they do not.                        *)
(***************************************************************************)
Saves(m, tab) ==
    IF ftx_message_decode(m, tab).ok \/ m.type = "std" THEN ClearCalls(m) ELSE {}

LEMMA ClearCallsIs ==
    ASSUME NEW m \in Payloads
    PROVE  /\ m.to.kind = "bad" => ClearCalls(m) = {}
           /\ m.to.kind # "bad" => ClearCalls(m) = FieldCalls(m.to) \union FieldCalls(m.de)
           /\ ClearCalls(m) \in SUBSET Calls
  <1>1. m.to \in Fields /\ m.de \in Fields
    BY PayloadAssumption
  <1>2. m.to.kind = "bad" => ClearCalls(m) = {}
    BY DEF ClearCalls
  <1>3. ASSUME m.to.kind # "bad"
        PROVE  ClearCalls(m) = FieldCalls(m.to) \union FieldCalls(m.de)
    BY <1>3 DEF ClearCalls, FieldCalls
  <1> QED
    BY <1>1, <1>2, <1>3, FieldIs

LEMMA DecodeSaves ==
    ASSUME NEW tab, TableSound(tab), NEW m \in Payloads
    PROVE  Saved(tab, ftx_message_decode(m, tab).table, Saves(m, tab))
  <1> DEFINE d == ftx_message_decode(m, tab)
             after_to == SavedBy(m.to, tab)
             after_de == SavedBy(m.de, after_to)
  <1>1. m.to \in Fields /\ m.de \in Fields
    BY PayloadAssumption
  <1>2. /\ Saved(tab, after_to, FieldCalls(m.to)) /\ TableSound(after_to)
        /\ FieldCalls(m.to) \in SUBSET Calls /\ FieldCalls(m.de) \in SUBSET Calls
    BY <1>1, SavedBySaves, FieldIs
  <1>3. Saved(after_to, after_de, FieldCalls(m.de))
    BY <1>1, <1>2, SavedBySaves
  <1>4. Saved(tab, after_de, FieldCalls(m.to) \union FieldCalls(m.de))
    BY <1>2, <1>3, SavedThen
  <1>5. CASE m.type = "std"
    <2>1. d = ftx_message_decode_std(m, tab) /\ Saves(m, tab) = ClearCalls(m)
      BY <1>5 DEF ftx_message_decode, Saves
    <2>2. CASE m.to.kind = "bad"
      <3>1. d.table = tab /\ ClearCalls(m) = {}
        BY <2>1, <2>2, ClearCallsIs DEF ftx_message_decode_std
      <3> QED
        BY <2>1, <3>1, SavedNone
    <2>3. CASE m.to.kind # "bad" /\ m.de.kind = "bad"
      <3>1. d.table = after_to
        BY <2>1, <2>3 DEF ftx_message_decode_std
      <3>2. ClearCalls(m) = FieldCalls(m.to)
        <4>1. FieldCalls(m.de) = {}
          BY <1>1, <2>3, FieldIs
        <4> QED
          BY <2>3, <4>1, ClearCallsIs
      <3> QED
        BY <1>2, <2>1, <3>1, <3>2
    <2>4. CASE m.to.kind # "bad" /\ m.de.kind # "bad"
      <3>1. d.table = after_de
        BY <2>1, <2>4 DEF ftx_message_decode_std
      <3> QED
        BY <1>4, <2>1, <2>4, <3>1, ClearCallsIs
    <2> QED
      BY <2>2, <2>3, <2>4
  <1>6. CASE m.type = "nonstd"
    <2>1. d = ftx_message_decode_nonstd(m, tab)
      BY <1>6 DEF ftx_message_decode
    <2>2. d.ok /\ d.table = after_de
      BY <2>1 DEF ftx_message_decode_nonstd
    <2>3. m.to.kind # "bad"
      BY <1>1, <1>6, PayloadAssumption, FieldIs
    <2>4. Saves(m, tab) = FieldCalls(m.to) \union FieldCalls(m.de)
      BY <2>2, <2>3, ClearCallsIs DEF Saves
    <2> QED
      BY <1>4, <2>2, <2>4
  <1>7. CASE m.type = "free"
    <2>1. d.table = tab
      BY <1>7 DEF ftx_message_decode
    <2>2. m.to = Token /\ m.de = Token
      BY <1>7, PayloadAssumption
    <2>3. FieldCalls(Token) = {} /\ Token.kind # "bad"
      BY DEF Token, FieldCalls
    <2>4. Saves(m, tab) = {}
      BY <2>2, <2>3, ClearCallsIs DEF Saves
    <2> QED
      BY <2>1, <2>4, SavedNone
  <1>8. CASE m.type \notin {"std", "nonstd", "free"}
    <2>1. d = [ok |-> FALSE, table |-> tab]
      BY <1>8 DEF ftx_message_decode
    <2>2. Saves(m, tab) = {} /\ d.table = tab
      BY <1>8, <2>1 DEF Saves
    <2> QED
      BY <2>2, SavedNone
  <1> QED
    BY <1>5, <1>6, <1>7, <1>8

(***************************************************************************)
(* A second decode of a payload that decodes finds the same transmitter:   *)
(* what it looks up was in the table already, and saving the callsign of   *)
(* the other field again changes nothing.                                  *)
(***************************************************************************)
LEMMA TextOfClear ==
    ASSUME NEW field, field.kind \notin {"hash22", "hash12"}, NEW tab
    PROVE  TextOf(field, tab) = Printed(field.call, FALSE)
  BY DEF TextOf

LEMMA Redecode ==
    ASSUME NEW tab, TableSound(tab), NEW m \in Payloads,
           ftx_message_decode(m, tab).ok
    PROVE  LET d == ftx_message_decode(m, tab)
               again == ftx_message_decode(m, d.table)
           IN  /\ again.ok
               /\ m.type = "free" => d.de.call = NoCall
               /\ m.type # "free" => again.de = d.de
  <1> DEFINE d == ftx_message_decode(m, tab)
             again == ftx_message_decode(m, d.table)
             after_to == SavedBy(m.to, tab)
             after_de == SavedBy(m.de, after_to)
  <1>1. m.to \in Fields /\ m.de \in Fields
    BY PayloadAssumption
  <1>2. /\ SavedBy(m.to, after_to) = after_to
        /\ m.de.kind \in {"hash22", "hash12"} => after_de = after_to
    BY <1>1, SavedBySaves DEF SavedBy
  <1>3. CASE m.type = "std"
    <2>1. \A t : ftx_message_decode(m, t) = ftx_message_decode_std(m, t)
      BY <1>3 DEF ftx_message_decode
    <2>2. m.to.kind # "bad" /\ m.de.kind # "bad"
      BY <2>1 DEF ftx_message_decode_std
    <2>3. /\ d.table = after_de
          /\ d.de = TextOf(m.de, after_to)
          /\ again.ok
          /\ again.de = TextOf(m.de, SavedBy(m.to, after_de))
      BY <2>1, <2>2 DEF ftx_message_decode_std
    <2>4. TextOf(m.de, SavedBy(m.to, after_de)) = TextOf(m.de, after_to)
      BY <1>2, TextOfClear
    <2> QED
      BY <1>3, <2>3, <2>4
  <1>4. CASE m.type = "nonstd"
    <2>1. \A t : ftx_message_decode(m, t) = ftx_message_decode_nonstd(m, t)
      BY <1>4 DEF ftx_message_decode
    <2>2. /\ d.table = after_de
          /\ d.de = TextOf(m.de, after_de)
          /\ again.ok
          /\ again.de = TextOf(m.de, SavedBy(m.de, SavedBy(m.to, after_de)))
      BY <2>1 DEF ftx_message_decode_nonstd
    <2>3. TextOf(m.de, SavedBy(m.de, SavedBy(m.to, after_de))) = TextOf(m.de, after_de)
      <3>1. CASE m.de.kind \in {"hash22", "hash12"}
        BY <1>2, <3>1
      <3>2. CASE m.de.kind \notin {"hash22", "hash12"}
        BY <3>2, TextOfClear
      <3> QED
        BY <3>1, <3>2
    <2> QED
      BY <1>4, <2>2, <2>3
  <1>5. CASE m.type = "free"
    <2>1. \A t : /\ ftx_message_decode(m, t).ok
                 /\ ftx_message_decode(m, t).de = TextOf(Token, t)
      BY <1>5 DEF ftx_message_decode
    <2>2. \A t : TextOf(Token, t).call = NoCall
      BY DEF TextOf, Token, Printed
    <2> QED
      BY <1>5, <2>1, <2>2
  <1>6. CASE m.type \notin {"std", "nonstd", "free"}
    BY <1>6 DEF ftx_message_decode
  <1> QED
    BY <1>3, <1>4, <1>5, <1>6

(***************************************************************************)
(* What saving callsigns does to the ages: the saved ones are heard now.   *)
(***************************************************************************)
LEMMA SavedHeard ==
    ASSUME NEW tab, NEW new, NEW cs \in SUBSET Calls, NEW h \in [Calls -> Nat], NEW h2,
           TableSound(tab), TableHeard(tab, h), Saved(tab, new, cs),
           h2 = [c \in Calls |-> IF c \in cs THEN 0 ELSE h[c]]
    PROVE  /\ TableSound(new) /\ TableHeard(new, h2) /\ h2 \in [Calls -> Nat]
           /\ \A c \in Calls : h2[c] <= h[c]
  <1>1. h2 \in [Calls -> Nat] /\ \A c \in Calls : h2[c] <= h[c]
    OBVIOUS
  <1>2. TableSound(new)
    BY DEF Saved
  <1>3. ASSUME NEW i \in Slots, new[i].call # NoCall
        PROVE  h2[new[i].call] <= new[i].age
    <2>1. new[i].call \in Calls /\ new[i].age \in Nat
      BY <1>2, <1>3, TableFacts DEF TableSound, Entry
    <2>2. CASE new[i].call \in cs
      BY <2>1, <2>2
    <2>3. CASE new[i] = tab[i]
      <3>1. h[new[i].call] <= new[i].age
        BY <1>3, <2>3 DEF TableHeard
      <3>2. h2[new[i].call] <= h[new[i].call] /\ h2[new[i].call] \in Nat
            /\ h[new[i].call] \in Nat
        BY <1>1, <2>1
      <3> QED
        BY <2>1, <3>1, <3>2
    <2> QED
      BY <1>3, <2>2, <2>3 DEF Saved
  <1>4. ASSUME NEW c \in Calls, h2[c] = 0
        PROVE  Reached(new, c) \/ Full(new)
    <2>1. CASE c \in cs
      BY <2>1 DEF Saved
    <2>2. CASE c \notin cs
      <3>1. h[c] = 0
        BY <1>4, <2>2
      <3>2. Reached(tab, c) \/ Full(tab)
        BY <3>1 DEF TableHeard
      <3> QED
        BY <3>2, ReachedKept DEF Saved
    <2> QED
      BY <2>1, <2>2
  <1> QED
    BY <1>1, <1>2, <1>3, <1>4 DEF TableHeard

(***************************************************************************)
(* So is every callsign of a table, lately.                                *)
(***************************************************************************)
Lately(tab, h) ==
    \A i \in Slots : tab[i].call # NoCall => h[tab[i].call] <= MaxAge + 1

LEMMA HeardLately ==
    ASSUME NEW tab, NEW h \in [Calls -> Nat], TableSound(tab), TableHeard(tab, h)
    PROVE  Lately(tab, h)
  <1> SUFFICES ASSUME NEW i \in Slots, tab[i].call # NoCall
               PROVE  h[tab[i].call] <= MaxAge + 1
    BY DEF Lately
  <1>1. tab[i].call \in Calls /\ tab[i].age \in 0 .. MaxAge + 1
    BY DEF TableSound, Entry
  <1>2. h[tab[i].call] \in Nat /\ h[tab[i].call] <= tab[i].age
    BY <1>1 DEF TableHeard
  <1> QED
    BY <1>1, <1>2, TableFacts

LEMMA SavedLately ==
    ASSUME NEW tab, NEW new, NEW cs, NEW ds \in SUBSET Calls, cs \subseteq ds,
           NEW h \in [Calls -> Nat], NEW h2,
           Lately(tab, h), Saved(tab, new, cs),
           h2 = [c \in Calls |-> IF c \in ds THEN 0 ELSE h[c]]
    PROVE  Lately(new, h2)
  <1> SUFFICES ASSUME NEW i \in Slots, new[i].call # NoCall
               PROVE  h2[new[i].call] <= MaxAge + 1
    BY DEF Lately
  <1>1. new[i].call \in Calls
    BY DEF Saved, TableSound, Entry
  <1>2. CASE new[i].call \in ds
    BY <1>1, <1>2, TableFacts
  <1>3. CASE new[i].call \notin ds
    <2>1. new[i] = tab[i]
      BY <1>3 DEF Saved
    <2>2. h[new[i].call] <= MaxAge + 1
      BY <2>1 DEF Lately
    <2> QED
      BY <1>1, <1>3, <2>2
  <1> QED
    BY <1>2, <1>3

(***************************************************************************)
(* Says, by any account h of when a callsign was heard.                    *)
(***************************************************************************)
SaysBy(h, printed, field) ==
    CASE field.kind = "hash22" ->
            /\ printed.brackets
            /\ printed.call # NoCall =>
                  /\ Hash[printed.call] = field.hash
                  /\ h[printed.call] <= MaxAge + 1
      [] field.kind = "hash12" ->
            /\ printed.brackets
            /\ printed.call # NoCall =>
                  /\ Hash[printed.call] \div Divisor12 = field.hash
                  /\ h[printed.call] <= MaxAge + 1
      [] OTHER -> printed = Printed(field.call, FALSE)

LEMMA HomeNat ==
    ASSUME NEW hash \in Nat
    PROVE  Home(hash, 1) \in Nat /\ Home(hash, Divisor12) \in Nat
  <1> DEFINE k == Divisor10 \div Divisor12
  <1>1. /\ Divisor12 \in Nat \ {0} /\ Divisor10 \in Nat \ {0}
        /\ Divisor10 % Divisor12 = 0 /\ TableSize \in Nat \ {0}
    BY Ft8Assumption
  <1>2. k \in Nat /\ Divisor10 = Divisor12 * k
    BY <1>1, Z3
  <1> HIDE DEF k
  <1>3. k \in Nat \ {0}
    BY <1>1, <1>2
  <1>4. hash \div k \in Nat
    BY <1>3, Z3
  <1> DEFINE z == hash \div k
  <1> HIDE DEF z
  <1>5. (z * 23) % TableSize \in Nat
    <2>1. z * 23 \in Nat
      BY <1>4 DEF z
    <2>2. \A w \in Nat : w % TableSize \in Nat
      BY <1>1
    <2> QED
      BY <2>1, <2>2
  <1> QED
    BY <1>5, SameHome DEF Home, z, k

LEMMA TextSays ==
    ASSUME NEW tab, TableSound(tab), NEW h, Lately(tab, h), NEW field \in Fields
    PROVE  SaysBy(h, TextOf(field, tab), field) /\ TextOf(field, tab) \in Printeds
  <1> DEFINE text == TextOf(field, tab)
  <1>1. CASE field.kind = "hash22"
    <2> DEFINE found == lookup_callsign(tab, field.hash, 1)
    <2>1. text = Printed(found, TRUE)
      BY <1>1 DEF TextOf
    <2>2. field.hash \in Nat /\ Home(field.hash, 1) \in Nat
      BY <1>1, FieldIs, HomeNat
    <2>3. ASSUME found # NoCall
          PROVE  /\ found \in Calls /\ h[found] <= MaxAge + 1
                 /\ Hash[found] = field.hash
      <3>1. PICK i \in Slots : /\ tab[i].call = found
                               /\ tab[i].call \in Calls
                               /\ Hash[tab[i].call] \div 1 = field.hash
        BY <2>2, <2>3, LookupHonest
      <3> HIDE DEF found
      <3>2. found \in Calls /\ Hash[found] \div 1 = field.hash
        BY <3>1
      <3>3. Hash[found] \div 1 = Hash[found]
        BY <3>2, TableFacts, SameHome
      <3> QED
        BY <2>3, <3>1, <3>2, <3>3 DEF Lately
    <2> HIDE DEF found
    <2> QED
      BY <1>1, <2>1, <2>3 DEF SaysBy, Printed, Printeds
  <1>2. CASE field.kind = "hash12"
    <2> DEFINE found == lookup_callsign(tab, field.hash, Divisor12)
    <2>1. text = Printed(found, TRUE)
      BY <1>2 DEF TextOf
    <2>2. field.hash \in Nat /\ Home(field.hash, Divisor12) \in Nat
      BY <1>2, FieldIs, HomeNat
    <2>3. ASSUME found # NoCall
          PROVE  /\ found \in Calls /\ h[found] <= MaxAge + 1
                 /\ Hash[found] \div Divisor12 = field.hash
      <3>1. PICK i \in Slots : /\ tab[i].call = found
                               /\ tab[i].call \in Calls
                               /\ Hash[tab[i].call] \div Divisor12 = field.hash
        BY <2>2, <2>3, LookupHonest, TableFacts
      <3> HIDE DEF found
      <3> QED
        BY <2>3, <3>1 DEF Lately
    <2> HIDE DEF found
    <2> QED
      BY <1>2, <2>1, <2>3 DEF SaysBy, Printed, Printeds
  <1>3. CASE field.kind \notin {"hash22", "hash12"}
    <2>1. text = Printed(field.call, FALSE)
      BY <1>3, TextOfClear
    <2>2. field.call \in Calls \union {NoCall}
      BY FieldIs
    <2> QED
      BY <1>3, <2>1, <2>2 DEF SaysBy, Printed, Printeds
  <1> QED
    BY <1>1, <1>2, <1>3

(***************************************************************************)
(* What a payload that decodes is printed as is what it says.              *)
(***************************************************************************)
LEMMA DecodeSays ==
    ASSUME NEW tab, TableSound(tab), NEW h \in [Calls -> Nat], TableHeard(tab, h),
           NEW m \in Payloads, ftx_message_decode(m, tab).ok,
           NEW h2, h2 = [c \in Calls |-> IF c \in ClearCalls(m) THEN 0 ELSE h[c]]
    PROVE  LET d == ftx_message_decode(m, tab)
           IN  /\ SaysBy(h2, d.de, m.de)
               /\ (m.type = "nonstd" /\ m.cq) \/ SaysBy(h2, d.to, m.to)
               /\ d.de \in Printeds /\ d.to \in Printeds
  <1> DEFINE d == ftx_message_decode(m, tab)
             after_to == SavedBy(m.to, tab)
             after_de == SavedBy(m.de, after_to)
  <1>1. /\ m.to \in Fields /\ m.de \in Fields /\ ClearCalls(m) \in SUBSET Calls
        /\ FieldCalls(m.to) \in SUBSET Calls /\ FieldCalls(m.de) \in SUBSET Calls
    BY PayloadAssumption, ClearCallsIs, FieldIs
  <1>2. /\ Saved(tab, after_to, FieldCalls(m.to)) /\ TableSound(after_to)
    BY <1>1, SavedBySaves
  <1>3. /\ Saved(after_to, after_de, FieldCalls(m.de)) /\ TableSound(after_de)
    BY <1>1, <1>2, SavedBySaves
  <1>4. Saved(tab, after_de, FieldCalls(m.to) \union FieldCalls(m.de))
    BY <1>1, <1>2, <1>3, SavedThen
  <1>5. Lately(tab, h)
    BY HeardLately
  <1>6. Lately(tab, h2)
    <2>1. Saved(tab, tab, {}) /\ {} \subseteq ClearCalls(m)
      BY SavedNone
    <2> QED
      BY <1>1, <1>5, <2>1, SavedLately
  <1>7. CASE m.to.kind # "bad"
    <2>1. ClearCalls(m) = FieldCalls(m.to) \union FieldCalls(m.de)
      BY <1>7, ClearCallsIs
    <2>2. Lately(after_to, h2)
      <3>1. FieldCalls(m.to) \subseteq ClearCalls(m)
        BY <2>1
      <3> QED
        BY <1>1, <1>2, <1>5, <3>1, SavedLately
    <2>3. Lately(after_de, h2)
      <3>1. FieldCalls(m.to) \union FieldCalls(m.de) \subseteq ClearCalls(m)
        BY <2>1
      <3> QED
        BY <1>1, <1>4, <1>5, <3>1, SavedLately
    <2>4. \A f \in Fields :
             /\ SaysBy(h2, TextOf(f, tab), f) /\ TextOf(f, tab) \in Printeds
             /\ SaysBy(h2, TextOf(f, after_to), f) /\ TextOf(f, after_to) \in Printeds
             /\ SaysBy(h2, TextOf(f, after_de), f) /\ TextOf(f, after_de) \in Printeds
      <3> TAKE f \in Fields
      <3>1. SaysBy(h2, TextOf(f, tab), f) /\ TextOf(f, tab) \in Printeds
        BY <1>6, TextSays
      <3>2. SaysBy(h2, TextOf(f, after_to), f) /\ TextOf(f, after_to) \in Printeds
        BY <1>2, <2>2, TextSays
      <3>3. SaysBy(h2, TextOf(f, after_de), f) /\ TextOf(f, after_de) \in Printeds
        BY <1>3, <2>3, TextSays
      <3> QED
        BY <3>1, <3>2, <3>3
    <2>5. Token \in Fields
      BY DEF Fields
    <2>6. CASE m.type = "std"
      <3>1. d = ftx_message_decode_std(m, tab)
        BY <2>6 DEF ftx_message_decode
      <3>2. m.de.kind # "bad"
        BY <3>1 DEF ftx_message_decode_std
      <3>3. d.to = TextOf(m.to, tab) /\ d.de = TextOf(m.de, after_to)
        BY <1>7, <3>1, <3>2 DEF ftx_message_decode_std
      <3> QED
        BY <1>1, <2>4, <3>3
    <2>7. CASE m.type = "nonstd"
      <3>1. d = ftx_message_decode_nonstd(m, tab)
        BY <2>7 DEF ftx_message_decode
      <3>2. d.de = TextOf(m.de, after_de)
        BY <3>1 DEF ftx_message_decode_nonstd
      <3>3. CASE m.cq
        <4>1. d.to = TextOf(Token, tab)
          BY <3>1, <3>3 DEF ftx_message_decode_nonstd
        <4> QED
          BY <1>1, <2>4, <2>5, <2>7, <3>2, <3>3, <4>1
      <3>4. CASE ~m.cq
        <4>1. d.to = TextOf(m.to, after_de)
          BY <3>1, <3>4 DEF ftx_message_decode_nonstd
        <4> QED
          BY <1>1, <2>4, <3>2, <4>1
      <3> QED
        BY <3>3, <3>4
    <2>8. CASE m.type = "free"
      <3>1. d.to = TextOf(Token, tab) /\ d.de = TextOf(Token, tab)
        BY <2>8 DEF ftx_message_decode
      <3>2. m.to = Token /\ m.de = Token
        BY <2>8, PayloadAssumption
      <3> QED
        BY <2>4, <2>5, <3>1, <3>2
    <2>9. CASE m.type \notin {"std", "nonstd", "free"}
      BY <2>9 DEF ftx_message_decode
    <2> QED
      BY <2>6, <2>7, <2>8, <2>9
  <1>8. CASE m.to.kind = "bad"
    <2>1. m.to = NotACall
      BY <1>1, <1>8, FieldIs
    <2>2. m.type # "std"
      BY <1>8 DEF ftx_message_decode, ftx_message_decode_std
    <2>3. m.type # "nonstd"
      BY <2>1, PayloadAssumption
    <2>4. m.type # "free"
      <3>1. Token.kind # "bad"
        BY DEF Token
      <3> QED
        BY <1>8, <3>1, PayloadAssumption
    <2> QED
      BY <2>2, <2>3, <2>4 DEF ftx_message_decode
  <1> QED
    BY <1>7, <1>8

-----------------------------------------------------------------------------
LEMMA TableInitially == Ft8Init => TableInv
  <1> SUFFICES ASSUME Ft8Init PROVE TableInv
    OBVIOUS
  <1>1. at = "decode" /\ heard = [c \in Calls |-> MaxAge + 2]
        /\ table = [i \in Slots |-> Empty]
    BY DEF Ft8Init
  <1>2. Empty \in Entry /\ Empty.call = NoCall
    BY TableFacts DEF Empty, Entry
  <1>3. TableSound(table)
    BY <1>1, <1>2 DEF TableSound
  <1>4. heard \in [Calls -> Nat] /\ \A c \in Calls : heard[c] # 0
    BY <1>1, TableFacts
  <1>5. TableHeard(table, heard)
    BY <1>1, <1>2, <1>4 DEF TableHeard
  <1> QED
    BY <1>1, <1>3, <1>4, <1>5 DEF TableInv

(***************************************************************************)
(* A candidate: what it leaves in the table is what it is said to be.      *)
(***************************************************************************)
LEMMA TableAtCandidate ==
    ASSUME TableInv, NEW frequency \in Frequencies, NEW m \in Payloads,
           DecodeCandidate(frequency, m)
    PROVE  TableInv' /\ \A c \in Calls : heard'[c] <= heard[c]
  <1> DEFINE text == ftx_message_decode(m, table)
             report == decode_report_fields(m, text.table)
             again == ftx_message_decode(m, text.table)
  <1>1. /\ at = "decode" /\ at' = "decode"
        /\ TableSound(table) /\ TableHeard(table, heard) /\ heard \in [Calls -> Nat]
        /\ ClearCalls(m) \in SUBSET Calls /\ Saves(m, table) \in SUBSET Calls
    BY ClearCallsIs DEF DecodeCandidate, TableInv, Saves
  <1>2. Saved(table, text.table, Saves(m, table)) /\ TableSound(text.table)
    BY <1>1, DecodeSaves DEF Saved
  <1>3. CASE UNCHANGED <<table, heard>>
    BY <1>1, <1>3 DEF TableInv
  <1>4. CASE /\ ~text.ok
             /\ table' = text.table
             /\ heard' = [c \in Calls |->
                             IF m.type = "std" /\ c \in ClearCalls(m) THEN 0 ELSE heard[c]]
    <2>1. \A c : c \in Saves(m, table) <=> (m.type = "std" /\ c \in ClearCalls(m))
      BY <1>4 DEF Saves
    <2>2. heard' = [c \in Calls |-> IF c \in Saves(m, table) THEN 0 ELSE heard[c]]
      BY <1>4, <2>1
    <2>3. /\ TableSound(table') /\ TableHeard(table', heard') /\ heard' \in [Calls -> Nat]
          /\ \A c \in Calls : heard'[c] <= heard[c]
      BY <1>1, <1>2, <1>4, <2>2, SavedHeard
    <2> QED
      BY <1>1, <2>3 DEF TableInv
  <1>5. CASE /\ text.ok
             /\ table' = report.table
             /\ heard' = [c \in Calls |-> IF c \in ClearCalls(m) THEN 0 ELSE heard[c]]
    <2>1. again.ok
      BY <1>1, <1>5, Redecode
    <2>2. Saves(m, table) = ClearCalls(m) /\ Saves(m, text.table) = ClearCalls(m)
      BY <1>5, <2>1 DEF Saves
    <2>3. table' = again.table
      BY <1>5 DEF decode_report_fields
    <2>4. Saved(text.table, again.table, ClearCalls(m))
      BY <1>2, <2>2, DecodeSaves
    <2>5. Saved(table, again.table, ClearCalls(m) \union ClearCalls(m))
      BY <1>1, <1>2, <2>2, <2>4, SavedThen
    <2>6. Saved(table, table', ClearCalls(m))
      <3>1. ClearCalls(m) \union ClearCalls(m) = ClearCalls(m)
        OBVIOUS
      <3> QED
        BY <2>3, <2>5, <3>1
    <2>7. /\ TableSound(table') /\ TableHeard(table', heard') /\ heard' \in [Calls -> Nat]
          /\ \A c \in Calls : heard'[c] <= heard[c]
      BY <1>1, <1>5, <2>6, SavedHeard
    <2> QED
      BY <1>1, <2>7 DEF TableInv
  <1>6. \/ UNCHANGED <<table, heard>>
        \/ /\ ~text.ok
           /\ table' = text.table
           /\ heard' = [c \in Calls |->
                             IF m.type = "std" /\ c \in ClearCalls(m) THEN 0 ELSE heard[c]]
        \/ /\ text.ok
           /\ table' = report.table
           /\ heard' = [c \in Calls |-> IF c \in ClearCalls(m) THEN 0 ELSE heard[c]]
    BY DEF DecodeCandidate
  <1> QED
    BY <1>3, <1>4, <1>5, <1>6

LEMMA TableAtEndFrame ==
    ASSUME TableInv, EndFrame
    PROVE  TableInv'
  <1>1. /\ TableSound(table) /\ TableHeard(table, heard) /\ heard \in [Calls -> Nat]
        /\ table' = callsign_table_age(table)
        /\ heard' = [c \in Calls |-> IF heard[c] > MaxAge + 1 THEN heard[c] ELSE heard[c] + 1]
        /\ at' = "merge" /\ MaxAge \in Nat
    BY TableFacts DEF TableInv, EndFrame
  <1>2. /\ heard' \in [Calls -> Nat]
        /\ \A c \in Calls : heard'[c] > 0
    BY <1>1
  <1>3. ASSUME NEW i \in Slots
        PROVE  /\ table'[i] \in Entry
               /\ table'[i].call # NoCall =>
                     /\ table'[i].hash = Hash[table'[i].call]
                     /\ heard'[table'[i].call] <= table'[i].age
    <2>1. table'[i] = IF table[i].call = NoCall \/ table[i].age > MaxAge THEN Empty
                      ELSE [table[i] EXCEPT !.age = @ + 1]
      BY <1>1 DEF callsign_table_age
    <2>2. /\ table[i] \in Entry
          /\ table[i].call # NoCall => table[i].hash = Hash[table[i].call]
      BY <1>1 DEF TableSound
    <2>3. CASE table[i].call = NoCall \/ table[i].age > MaxAge
      BY <1>1, <2>1, <2>3 DEF Empty, Entry
    <2>4. CASE ~(table[i].call = NoCall \/ table[i].age > MaxAge)
      <3>1. PICK e \in Entry : e = table[i]
        BY <2>2
      <3>2. table'[i] = [e EXCEPT !.age = @ + 1]
        BY <2>1, <2>4, <3>1
      <3>3. e.age \in 0 .. MaxAge /\ e.call \in Calls
        BY <2>4, <3>1, <1>1 DEF Entry
      <3>4. /\ table'[i].call = e.call /\ table'[i].hash = e.hash
            /\ table'[i].age = e.age + 1 /\ table'[i] \in Entry
        BY <3>2, <3>3, <1>1 DEF Entry
      <3>5. heard[e.call] <= e.age /\ heard[e.call] \in Nat
        BY <1>1, <2>4, <3>1, <3>3 DEF TableHeard
      <3>6. heard'[e.call] <= e.age + 1
        BY <1>1, <3>3, <3>5
      <3> QED
        BY <2>2, <2>4, <3>1, <3>4, <3>6
    <2> QED
      BY <2>3, <2>4
  <1>4. TableSound(table')
    <2>1. table' = [i \in Slots |-> table'[i]]
      BY <1>1 DEF callsign_table_age
    <2> QED
      BY <1>3, <2>1 DEF TableSound
  <1>5. TableHeard(table', heard')
    BY <1>2, <1>3 DEF TableHeard
  <1> QED
    BY <1>1, <1>2, <1>4, <1>5 DEF TableInv

LEMMA TableStep == TableInv /\ [Ft8Next]_ft8Vars => TableInv'
  <1> SUFFICES ASSUME TableInv, [Ft8Next]_ft8Vars PROVE TableInv'
    OBVIOUS
  <1>1. ASSUME NEW frequency \in Frequencies, NEW m \in Payloads,
               DecodeCandidate(frequency, m)
        PROVE  TableInv'
    BY <1>1, TableAtCandidate
  <1>2. CASE NextPass
    BY <1>2 DEF NextPass, TableInv
  <1>3. CASE EndFrame
    BY <1>3, TableAtEndFrame
  <1>4. CASE Merge
    BY <1>4 DEF Merge, TableInv
  <1>5. CASE NextFrame
    BY <1>5 DEF NextFrame, TableInv
  <1>6. CASE UNCHANGED ft8Vars
    BY <1>6 DEF ft8Vars, TableInv
  <1> QED
    BY <1>1, <1>2, <1>3, <1>4, <1>5, <1>6 DEF Ft8Next

(***************************************************************************)
(* callsign_table is sound whatever the sizes and the hashes are: an entry *)
(* has the hash of its callsign, is no older than its age says, and what   *)
(* was heard in this frame is reached by its probes, however the clearing  *)
(* of old entries has cut the chains of others.                            *)
(***************************************************************************)
THEOREM TableCorrect == Ft8Spec => []TableInv
  BY TableInitially, TableStep, PTL DEF Ft8Spec

(***************************************************************************)
(* A callsign heard in clear in this frame can be looked up by either hash *)
(* until the frame ends, unless the table is full.                         *)
(***************************************************************************)
THEOREM HeardIsResolvable == Ft8Spec => []HeardResolvable
  <1>1. TableInv => HeardResolvable
    <2> SUFFICES ASSUME TableInv, NEW e \in Slots, table[e].call = NoCall,
                        NEW c \in Calls, heard[c] = 0
                 PROVE  /\ LET found == lookup_callsign(table, Hash[c], 1)
                           IN  found # NoCall /\ Hash[found] = Hash[c]
                        /\ LET found == lookup_callsign(table, Hash[c] \div Divisor12,
                                                        Divisor12)
                           IN  /\ found # NoCall
                               /\ Hash[found] \div Divisor12 = Hash[c] \div Divisor12
      BY DEF HeardResolvable
    <2>1. Reached(table, c) /\ TableSound(table)
      BY DEF TableInv, TableHeard, Full
    <2>2. /\ Hash[c] \in Nat /\ Home(Hash[c], 1) \in Nat
          /\ Hash[c] \div 1 = Hash[c]
          /\ Home(Hash[c] \div Divisor12, Divisor12) = Home(Hash[c], 1)
          /\ Divisor12 \in Nat \ {0}
      BY TableFacts, SameHome
    <2>3. Hash[c] \div Divisor12 \in Nat
      BY <2>2, Z3
    <2>4. lookup_callsign(table, Hash[c], 1) # NoCall
      BY <2>1, <2>2, LookupFinds
    <2>5. lookup_callsign(table, Hash[c] \div Divisor12, Divisor12) # NoCall
      BY <2>1, <2>2, <2>3, LookupFinds
    <2>6. Hash[lookup_callsign(table, Hash[c], 1)] = Hash[c]
      <3> DEFINE found == lookup_callsign(table, Hash[c], 1)
      <3>1. found \in Calls /\ Hash[found] \div 1 = Hash[c]
        BY <2>1, <2>2, <2>4, LookupHonest
      <3>2. Hash[found] \div 1 = Hash[found]
        BY <3>1, TableFacts, SameHome
      <3> QED
        BY <3>1, <3>2
    <2>7. Hash[lookup_callsign(table, Hash[c] \div Divisor12, Divisor12)] \div Divisor12
             = Hash[c] \div Divisor12
      BY <2>1, <2>2, <2>3, <2>5, LookupHonest
    <2> QED
      BY <2>4, <2>5, <2>6, <2>7
  <1> QED
    BY <1>1, TableCorrect, PTL

-----------------------------------------------------------------------------
LEMMA MessageFacts ==
    /\ Capacity \in Nat \ {0} /\ NoMessage \notin Payloads
    /\ \A m \in Payloads, p \in MessageSlots : MessageProbe(m, p) \in MessageSlots
    /\ \A m \in Payloads, i \in MessageSlots : \E p \in MessageSlots : MessageProbe(m, p) = i
  <1>1. Capacity \in Nat \ {0} /\ NoMessage \notin Payloads
    BY MergeAssumption, Ft8Assumption, PayloadAssumption
  <1>2. ASSUME NEW m \in Payloads
        PROVE  /\ \A p \in MessageSlots : MessageProbe(m, p) \in MessageSlots
               /\ \A i \in MessageSlots : \E p \in MessageSlots : MessageProbe(m, p) = i
    <2>1. m.crc \in Nat
      BY PayloadAssumption
    <2>2. /\ \A p \in 0 .. Capacity - 1 : (m.crc + p) % Capacity \in 0 .. Capacity - 1
          /\ \A i \in 0 .. Capacity - 1 :
                \E p \in 0 .. Capacity - 1 : (m.crc + p) % Capacity = i
      BY <1>1, <2>1, RingReached
    <2> QED
      BY <2>2 DEF MessageSlots, MessageProbe
  <1> QED
    BY <1>1, <1>2

(***************************************************************************)
(* With a free slot, the probes of a payload stop at the first they come   *)
(* to.                                                                     *)
(***************************************************************************)
LEMMA FirstFreeIs ==
    ASSUME HasFree, NEW m \in Payloads
    PROVE  /\ FirstFree(m) \in MessageSlots
           /\ decoded[MessageProbe(m, FirstFree(m))] = NoMessage
           /\ \A q \in 0 .. FirstFree(m) - 1 : decoded[MessageProbe(m, q)] # NoMessage
  <1> DEFINE S == {p \in MessageSlots : decoded[MessageProbe(m, p)] = NoMessage}
  <1>1. PICK i \in MessageSlots : decoded[i] = NoMessage
    BY DEF HasFree
  <1>2. S # {} /\ S \in SUBSET Nat
    BY <1>1, MessageFacts DEF MessageSlots
  <1>3. PICK p \in S : \A q \in S : p <= q
    BY <1>2, LeastNatural
  <1>4. \A q \in 0 .. p - 1 : decoded[MessageProbe(m, q)] # NoMessage
    <2> SUFFICES ASSUME NEW q \in 0 .. p - 1
                 PROVE  decoded[MessageProbe(m, q)] # NoMessage
      OBVIOUS
    <2>1. q \in MessageSlots /\ ~(p <= q)
      BY MessageFacts DEF MessageSlots
    <2> QED
      BY <1>3, <2>1
  <1>5. \E x \in MessageSlots :
           /\ decoded[MessageProbe(m, x)] = NoMessage
           /\ \A q \in 0 .. x - 1 : decoded[MessageProbe(m, q)] # NoMessage
    BY <1>3, <1>4
  <1> HIDE DEF S
  <1> QED
    BY <1>5, Zenon DEF FirstFree

LEMMA OneInitially == Ft8Init => OneInv
  <1> SUFFICES ASSUME Ft8Init PROVE OneInv
    OBVIOUS
  <1>1. decoded = [i \in MessageSlots |-> NoMessage]
    BY DEF Ft8Init
  <1> QED
    BY <1>1 DEF OneInv, Chained, OneEach

(***************************************************************************)
(* A new payload goes to the first free slot of its chain, so what is      *)
(* before it there is taken, and a payload equal to it would have been     *)
(* found before that slot.                                                 *)
(***************************************************************************)
LEMMA OneAtRetain ==
    ASSUME OneInv, NEW m \in Payloads,
           ~already_decoded(m), decoded' = retain_message(m)
    PROVE  OneInv' /\ \E i \in MessageSlots : /\ decoded[i] = NoMessage
                                              /\ decoded' = [decoded EXCEPT ![i] = m]
  <1> DEFINE p == FirstFree(m)
             new == MessageProbe(m, p)
  <1>1. HasFree /\ \A q \in 0 .. p : decoded[MessageProbe(m, q)] # m
    BY DEF already_decoded
  <1>2. /\ p \in MessageSlots
        /\ decoded[new] = NoMessage
        /\ \A q \in 0 .. p - 1 : decoded[MessageProbe(m, q)] # NoMessage
    BY <1>1, FirstFreeIs
  <1>3. new \in MessageSlots /\ m # NoMessage
    BY <1>2, MessageFacts
  <1>4. decoded' = [decoded EXCEPT ![new] = m]
    BY DEF retain_message
  <1> HIDE DEF new, p
  <1>5. /\ decoded \in [MessageSlots -> Payloads \union {NoMessage}]
        /\ \A i \in MessageSlots : decoded[i] # NoMessage =>
              \E x \in MessageSlots :
                 /\ i = MessageProbe(decoded[i], x)
                 /\ \A q \in 0 .. x - 1 : decoded[MessageProbe(decoded[i], q)] # NoMessage
        /\ \A i, j \in MessageSlots : decoded[i] = decoded[j] => i = j \/ decoded[i] = NoMessage
    BY DEF OneInv, Chained, OneEach
  <1>6. /\ decoded' \in [MessageSlots -> Payloads \union {NoMessage}]
        /\ decoded'[new] = m
        /\ \A i \in MessageSlots : i # new => decoded'[i] = decoded[i]
    BY <1>3, <1>4, <1>5
  <1>7. \A i \in MessageSlots : decoded[i] # NoMessage => decoded'[i] # NoMessage
    BY <1>2, <1>6
  <1>8. \A i \in MessageSlots : decoded[i] # m
    <2> SUFFICES ASSUME NEW i \in MessageSlots, decoded[i] = m
                 PROVE  FALSE
      OBVIOUS
    <2>1. PICK x \in MessageSlots :
             /\ i = MessageProbe(m, x)
             /\ \A q \in 0 .. x - 1 : decoded[MessageProbe(m, q)] # NoMessage
      BY <1>3, <1>5
    <2>2. ~(p < x)
      <3> SUFFICES ASSUME p < x PROVE FALSE
        OBVIOUS
      <3>1. p \in 0 .. x - 1
        BY <1>2 DEF MessageSlots
      <3> QED
        BY <1>2, <2>1, <3>1 DEF new
    <2>3. x \in 0 .. p
      BY <1>2, <2>2 DEF MessageSlots
    <2> QED
      BY <1>1, <2>1, <2>3
  <1>9. OneEach'
    BY <1>5, <1>6, <1>8 DEF OneEach
  <1>10. ASSUME NEW i \in MessageSlots, decoded'[i] # NoMessage
         PROVE  \E x \in MessageSlots :
                   /\ i = MessageProbe(decoded'[i], x)
                   /\ \A q \in 0 .. x - 1 :
                         decoded'[MessageProbe(decoded'[i], q)] # NoMessage
    <2>1. PICK e \in Payloads : e = decoded'[i]
      BY <1>6, <1>10
    <2>2. PICK x \in MessageSlots :
             /\ i = MessageProbe(e, x)
             /\ \A q \in 0 .. x - 1 : decoded[MessageProbe(e, q)] # NoMessage
      <3>1. CASE i = new
        BY <1>2, <1>6, <2>1, <3>1 DEF new
      <3>2. CASE i # new
        BY <1>5, <1>6, <1>10, <2>1, <3>2
      <3> QED
        BY <3>1, <3>2
    <2>3. ASSUME NEW q \in 0 .. x - 1
          PROVE  decoded'[MessageProbe(e, q)] # NoMessage
      <3>1. q \in MessageSlots
        BY MessageFacts DEF MessageSlots
      <3> QED
        BY <1>7, <2>2, <3>1, MessageFacts
    <2> QED
      BY <2>1, <2>2, <2>3
  <1>11. Chained'
    BY <1>6, <1>10 DEF Chained, MessageProbe
  <1> QED
    BY <1>2, <1>3, <1>4, <1>9, <1>11 DEF OneInv

LEMMA OneStep == OneInv /\ [Ft8Next]_ft8Vars => OneInv'
  <1> SUFFICES ASSUME OneInv, [Ft8Next]_ft8Vars PROVE OneInv'
    OBVIOUS
  <1>1. CASE decoded' = decoded
    BY <1>1 DEF OneInv, Chained, OneEach, MessageProbe
  <1>2. ASSUME NEW frequency \in Frequencies, NEW m \in Payloads,
               DecodeCandidate(frequency, m)
        PROVE  OneInv'
    <2>1. CASE ~already_decoded(m) /\ decoded' = retain_message(m)
      BY <2>1, OneAtRetain
    <2> QED
      BY <1>1, <1>2, <2>1 DEF DecodeCandidate
  <1>3. CASE EndFrame
    BY <1>3 DEF EndFrame, OneInv, Chained, OneEach
  <1>4. CASE NextPass \/ Merge \/ NextFrame \/ UNCHANGED ft8Vars
    BY <1>1, <1>4 DEF NextPass, Merge, NextFrame, ft8Vars
  <1> QED
    BY <1>2, <1>3, <1>4 DEF Ft8Next

(***************************************************************************)
(* A payload is one result of its frame: decoded[] holds it once, however  *)
(* many payloads have its CRC and however full the table is. The chains    *)
(* are what makes the search, which stops at the first free slot, find it. *)
(***************************************************************************)
THEOREM DecodesAreUnique == Ft8Spec => []OneResultEach
  <1>1. OneInv => OneResultEach
    BY DEF OneInv, OneEach, OneResultEach
  <1> QED
    BY <1>1, OneInitially, OneStep, PTL DEF Ft8Spec

-----------------------------------------------------------------------------
(***************************************************************************)
(* A result that says what one of the payloads seen says, by the account h *)
(* of what was heard.                                                      *)
(***************************************************************************)
Faithful(h, seen, r) ==
    /\ \E m \in seen :
          /\ r.message.extra = m.extra
          /\ SaysBy(h, r.message.de, m.de)
          /\ (m.type = "nonstd" /\ m.cq) \/ SaysBy(h, r.message.to, m.to)
    /\ r.call = IF r.message.de.call \in Reportable THEN r.message.de.call ELSE NoCall

FaithfulInv ==
    /\ TableInv
    /\ OneInv
    /\ at = "decode" =>
          /\ primary \in Seq(Ft8Result)
          /\ \A i \in 1 .. Len(primary) : Faithful(heard, Retained, primary[i])

LEMMA SaysByKept ==
    ASSUME NEW h \in [Calls -> Nat], NEW h2 \in [Calls -> Nat],
           \A c \in Calls : h2[c] <= h[c],
           NEW printed \in Printeds, NEW field, SaysBy(h, printed, field)
    PROVE  SaysBy(h2, printed, field)
  <1>1. printed.call # NoCall =>
           /\ printed.call \in Calls
           /\ h[printed.call] \in Nat /\ h2[printed.call] \in Nat
           /\ h2[printed.call] <= h[printed.call]
    BY DEF Printeds
  <1>2. printed.call # NoCall /\ h[printed.call] <= MaxAge + 1
           => h2[printed.call] <= MaxAge + 1
    BY <1>1, TableFacts
  <1>3. CASE field.kind = "hash22"
    BY <1>2, <1>3 DEF SaysBy
  <1>4. CASE field.kind = "hash12"
    BY <1>2, <1>4 DEF SaysBy
  <1>5. CASE field.kind \notin {"hash22", "hash12"}
    BY <1>5 DEF SaysBy
  <1> QED
    BY <1>3, <1>4, <1>5

LEMMA FaithfulKept ==
    ASSUME NEW h \in [Calls -> Nat], NEW h2 \in [Calls -> Nat],
           \A c \in Calls : h2[c] <= h[c],
           NEW seen, NEW seen2, seen \subseteq seen2,
           NEW r \in Ft8Result, Faithful(h, seen, r)
    PROVE  Faithful(h2, seen2, r)
  <1>1. r.message.de \in Printeds /\ r.message.to \in Printeds
    BY DEF Ft8Result
  <1>2. PICK m \in seen :
           /\ r.message.extra = m.extra
           /\ SaysBy(h, r.message.de, m.de)
           /\ (m.type = "nonstd" /\ m.cq) \/ SaysBy(h, r.message.to, m.to)
    BY DEF Faithful
  <1>3. /\ SaysBy(h2, r.message.de, m.de)
        /\ (m.type = "nonstd" /\ m.cq) \/ SaysBy(h2, r.message.to, m.to)
    BY <1>1, <1>2, SaysByKept
  <1>4. m \in seen2
    OBVIOUS
  <1> QED
    BY <1>2, <1>3, <1>4 DEF Faithful

(***************************************************************************)
(* The result made of a payload that decodes.                              *)
(***************************************************************************)
LEMMA ResultFaithful ==
    ASSUME NEW tab, TableSound(tab), NEW h \in [Calls -> Nat], TableHeard(tab, h),
           NEW frequency \in Frequencies, NEW m \in Payloads,
           ftx_message_decode(m, tab).ok,
           NEW h2, h2 = [c \in Calls |-> IF c \in ClearCalls(m) THEN 0 ELSE h[c]],
           NEW seen, m \in seen
    PROVE  LET text == ftx_message_decode(m, tab)
               result == [message |-> [to |-> text.to, de |-> text.de, extra |-> m.extra],
                          frequency |-> frequency,
                          call |-> decode_report_fields(m, text.table).call]
           IN  result \in Ft8Result /\ Faithful(h2, seen, result)
  <1> DEFINE text == ftx_message_decode(m, tab)
             again == ftx_message_decode(m, text.table)
             call == decode_report_fields(m, text.table).call
  <1>1. /\ SaysBy(h2, text.de, m.de)
        /\ (m.type = "nonstd" /\ m.cq) \/ SaysBy(h2, text.to, m.to)
        /\ text.de \in Printeds /\ text.to \in Printeds
    BY DecodeSays
  <1>2. /\ again.ok
        /\ m.type = "free" => text.de.call = NoCall
        /\ m.type # "free" => again.de = text.de
    BY Redecode
  <1>3. NoCall \notin Reportable /\ Reportable \subseteq Calls
    BY MergeAssumption, Ft8Assumption
  <1>4. call = IF m.type # "free" /\ again.ok /\ again.de.call \in Reportable
               THEN again.de.call ELSE NoCall
    BY DEF decode_report_fields
  <1> HIDE DEF text, again, call
  <1>5. call = IF text.de.call \in Reportable THEN text.de.call ELSE NoCall
    BY <1>2, <1>3, <1>4
  <1>6. call \in Calls \union {NoCall}
    BY <1>3, <1>5
  <1> DEFINE result == [message |-> [to |-> text.to, de |-> text.de, extra |-> m.extra],
                        frequency |-> frequency, call |-> call]
  <1>7. result \in Ft8Result
    BY <1>1, <1>6 DEF Ft8Result
  <1>8. Faithful(h2, seen, result)
    BY <1>1, <1>5 DEF Faithful
  <1> QED
    BY <1>7, <1>8 DEF text, call

LEMMA FaithfulInitially == Ft8Init => FaithfulInv
  <1> SUFFICES ASSUME Ft8Init PROVE FaithfulInv
    OBVIOUS
  <1>1. primary = <<>>
    BY DEF Ft8Init
  <1>2. primary \in Seq(Ft8Result) /\ Len(primary) = 0
    BY <1>1
  <1> QED
    BY <1>2, TableInitially, OneInitially DEF FaithfulInv

LEMMA FaithfulAtCandidate ==
    ASSUME FaithfulInv, NEW frequency \in Frequencies, NEW m \in Payloads,
           DecodeCandidate(frequency, m)
    PROVE  FaithfulInv'
  <1> DEFINE text == ftx_message_decode(m, table)
             result == [message |-> [to |-> text.to, de |-> text.de, extra |-> m.extra],
                        frequency |-> frequency,
                        call |-> decode_report_fields(m, text.table).call]
  <1>1. /\ at = "decode" /\ at' = "decode" /\ TableInv /\ OneInv
        /\ primary \in Seq(Ft8Result)
        /\ \A i \in 1 .. Len(primary) : Faithful(heard, Retained, primary[i])
    BY DEF FaithfulInv, DecodeCandidate
  <1>2. /\ TableInv' /\ \A c \in Calls : heard'[c] <= heard[c]
        /\ heard \in [Calls -> Nat] /\ heard' \in [Calls -> Nat]
        /\ TableSound(table) /\ TableHeard(table, heard)
    BY <1>1, TableAtCandidate DEF TableInv
  <1>3. CASE decoded' = decoded /\ primary' = primary
    <2>1. Retained' = Retained
      BY <1>3 DEF Retained
    <2>2. OneInv'
      BY <1>1, <1>3 DEF OneInv, Chained, OneEach, MessageProbe
    <2>3. \A i \in 1 .. Len(primary) : Faithful(heard', Retained', primary[i])
      <3> TAKE i \in 1 .. Len(primary)
      <3>1. primary[i] \in Ft8Result
        BY <1>1
      <3> QED
        BY <1>1, <1>2, <2>1, <3>1, FaithfulKept
    <2> QED
      BY <1>1, <1>2, <1>3, <2>2, <2>3 DEF FaithfulInv
  <1>4. CASE /\ ~already_decoded(m) /\ text.ok
             /\ decoded' = retain_message(m)
             /\ primary' = Append(primary, result)
             /\ heard' = [c \in Calls |-> IF c \in ClearCalls(m) THEN 0 ELSE heard[c]]
    <2>1. PICK new \in MessageSlots : /\ decoded[new] = NoMessage
                                      /\ decoded' = [decoded EXCEPT ![new] = m]
      BY <1>1, <1>4, OneAtRetain
    <2>2. OneInv'
      BY <1>1, <1>4, OneAtRetain
    <2>3. Retained \subseteq Retained' /\ m \in Retained'
      <3>1. m # NoMessage
        BY MessageFacts
      <3>2. decoded'[new] = m /\ \A i \in MessageSlots : i # new => decoded'[i] = decoded[i]
        BY <1>1, <2>1 DEF OneInv, Chained
      <3> QED
        BY <2>1, <3>1, <3>2 DEF Retained
    <2>4. result \in Ft8Result /\ Faithful(heard', Retained', result)
      BY <1>2, <1>4, <2>3, ResultFaithful
    <2> HIDE DEF result
    <2>5. /\ primary' \in Seq(Ft8Result) /\ Len(primary') = Len(primary) + 1
          /\ primary'[Len(primary) + 1] = result
          /\ \A i \in 1 .. Len(primary) : primary'[i] = primary[i]
          /\ Len(primary) \in Nat
      BY <1>1, <1>4, <2>4
    <2>6. ASSUME NEW i \in 1 .. Len(primary')
          PROVE  Faithful(heard', Retained', primary'[i])
      <3>1. CASE i \in 1 .. Len(primary)
        <4>1. primary[i] \in Ft8Result /\ primary'[i] = primary[i]
          BY <1>1, <2>5, <3>1
        <4>2. Faithful(heard, Retained, primary[i])
          BY <1>1, <3>1
        <4>3. Faithful(heard', Retained', primary[i])
          BY <1>2, <2>3, <4>1, <4>2, FaithfulKept
        <4> QED
          BY <4>1, <4>3
      <3>2. CASE i = Len(primary) + 1
        BY <2>4, <2>5, <3>2
      <3> QED
        BY <2>5, <3>1, <3>2
    <2> QED
      BY <1>2, <2>2, <2>5, <2>6 DEF FaithfulInv
  <1> QED
    BY <1>3, <1>4 DEF DecodeCandidate

LEMMA FaithfulStep == FaithfulInv /\ [Ft8Next]_ft8Vars => FaithfulInv'
  <1> SUFFICES ASSUME FaithfulInv, [Ft8Next]_ft8Vars PROVE FaithfulInv'
    OBVIOUS
  <1>1. TableInv' /\ OneInv'
    BY TableStep, OneStep DEF FaithfulInv
  <1>2. ASSUME NEW frequency \in Frequencies, NEW m \in Payloads,
               DecodeCandidate(frequency, m)
        PROVE  FaithfulInv'
    BY <1>2, FaithfulAtCandidate
  <1>3. CASE NextPass
    BY <1>1, <1>3 DEF NextPass, vars, FaithfulInv, Retained
  <1>4. CASE EndFrame
    BY <1>1, <1>4 DEF EndFrame, FaithfulInv
  <1>5. CASE Merge
    BY <1>1, <1>5 DEF Merge, FaithfulInv
  <1>6. CASE NextFrame
    <2>1. primary' = <<>>
      BY <1>6 DEF NextFrame
    <2>2. primary' \in Seq(Ft8Result) /\ Len(primary') = 0
      BY <2>1
    <2> QED
      BY <1>1, <2>2 DEF FaithfulInv
  <1>7. CASE UNCHANGED ft8Vars
    BY <1>1, <1>7 DEF ft8Vars, FaithfulInv, Retained
  <1> QED
    BY <1>2, <1>3, <1>4, <1>5, <1>6, <1>7 DEF Ft8Next

(***************************************************************************)
(* Every result of a frame is that of a payload of the frame. A hash in it *)
(* is resolved only to a callsign with that hash, heard in clear at most   *)
(* MaxAge + 1 frames ago, and the transmitter credited with it is the one  *)
(* in its text, though the two come from two decodes of the payload with   *)
(* the table changed in between.                                           *)
(***************************************************************************)
THEOREM ResultsAreFaithful == Ft8Spec => []ResultsFaithful
  <1>1. FaithfulInv => ResultsFaithful
    BY DEF FaithfulInv, Faithful, SaysBy, ResultsFaithful, Says
  <1> QED
    BY <1>1, FaithfulInitially, FaithfulStep, PTL DEF Ft8Spec

-----------------------------------------------------------------------------
(***************************************************************************)
(* The merge within the frames: until jt9's decodes are there the list is  *)
(* ft8_lib's alone, so that each frame starts the merge as ResultMerge     *)
(* does.                                                                   *)
(***************************************************************************)
FrameInv ==
    /\ FaithfulInv
    /\ MergeInv
    /\ at = "decode" => given = primary /\ additional = <<>> /\ addition = 0

LEMMA PrintedIsResult == Ft8Result \subseteq Result
  BY TextAssumption DEF Ft8Result, Result

LEMMA ListsOfResults ==
    ASSUME NEW list \in Seq(Ft8Result)
    PROVE  list \in Seq(Result)
  <1>1. \A i \in 1 .. Len(list) : list[i] \in Result
    BY PrintedIsResult
  <1>2. list = [i \in 1 .. Len(list) |-> list[i]] /\ Len(list) \in Nat
    OBVIOUS
  <1> QED
    BY <1>1, <1>2

LEMMA MergeStarts ==
    ASSUME primary' \in Seq(Result), Len(primary') <= Capacity, given' = primary',
           additional' \in Seq(Result), addition' = 0
    PROVE  MergeInv'
  <1>1. Len(primary') \in Nat /\ Len(additional') \in Nat
    OBVIOUS
  <1> QED
    BY <1>1 DEF MergeInv, MergeTypeOK, NothingAddedTwice, NothingMissed, GivenKept,
                CallsAttributed

LEMMA FrameInitially == Ft8Init => FrameInv
  <1> SUFFICES ASSUME Ft8Init PROVE FrameInv
    OBVIOUS
  <1>1. primary = <<>> /\ given = <<>> /\ additional = <<>> /\ addition = 0
    BY DEF Ft8Init
  <1>2. <<>> \in Seq(Result) /\ Len(<<>>) = 0 /\ 0 <= Capacity
    BY MessageFacts
  <1>3. MergeInv
    BY <1>1, <1>2 DEF MergeInv, MergeTypeOK, NothingAddedTwice, NothingMissed, GivenKept,
                      CallsAttributed
  <1> QED
    BY <1>1, <1>3, FaithfulInitially DEF FrameInv

LEMMA FrameStep == FrameInv /\ [Ft8Next]_ft8Vars => FrameInv'
  <1> SUFFICES ASSUME FrameInv, [Ft8Next]_ft8Vars PROVE FrameInv'
    OBVIOUS
  <1>1. FaithfulInv' /\ FaithfulInv /\ MergeInv
    BY FaithfulStep DEF FrameInv
  <1>2. ASSUME NEW frequency \in Frequencies, NEW m \in Payloads,
               DecodeCandidate(frequency, m)
        PROVE  FrameInv'
    <2>1. /\ at = "decode" /\ at' = "decode" /\ given' = primary'
          /\ additional' = <<>> /\ addition' = 0
          /\ Len(primary) < Capacity
      BY <1>2 DEF DecodeCandidate, FrameInv
    <2>2. primary' \in Seq(Ft8Result) /\ primary \in Seq(Ft8Result)
      BY <1>1, <2>1 DEF FaithfulInv
    <2>3. primary' \in Seq(Result)
      BY <2>2, ListsOfResults
    <2>4. Len(primary') <= Capacity
      <3>1. Len(primary) \in Nat /\ Capacity \in Nat
        BY <2>2, MessageFacts
      <3>2. CASE primary' = primary
        BY <2>1, <3>1, <3>2
      <3>3. CASE \E r : primary' = Append(primary, r)
        <4>1. PICK r : primary' = Append(primary, r)
          BY <3>3
        <4>2. Len(primary') = Len(primary) + 1
          BY <2>2, <4>1
        <4> QED
          BY <2>1, <3>1, <4>2
      <3> QED
        BY <1>2, <3>2, <3>3 DEF DecodeCandidate
    <2>5. additional' \in Seq(Result)
      BY <2>1
    <2> QED
      BY <1>1, <2>1, <2>3, <2>4, <2>5, MergeStarts DEF FrameInv
  <1>3. CASE NextPass
    <2>1. MergeInv'
      BY <1>1, <1>3, MergeStep DEF NextPass
    <2> QED
      BY <1>1, <1>3, <2>1 DEF NextPass, vars, FrameInv
  <1>4. CASE EndFrame
    <2>1. /\ at' = "merge" /\ primary' = primary /\ given' = primary'
          /\ additional' \in Jt9Lists /\ addition' = 0
      BY <1>4 DEF EndFrame, FrameInv
    <2>2. additional' \in Seq(Result)
      BY <2>1, TextAssumption
    <2>3. primary \in Seq(Result) /\ Len(primary) <= Capacity
      BY <1>1 DEF MergeInv, MergeTypeOK
    <2> QED
      BY <1>1, <2>1, <2>2, <2>3, MergeStarts DEF FrameInv
  <1>5. CASE Merge
    <2>1. MergeInv' /\ at' = "merge"
      BY <1>1, <1>5, MergeStep DEF Merge
    <2> QED
      BY <1>1, <2>1 DEF FrameInv
  <1>6. CASE NextFrame
    <2>1. /\ primary' = <<>> /\ given' = <<>> /\ additional' = <<>> /\ addition' = 0
      BY <1>6 DEF NextFrame
    <2>2. <<>> \in Seq(Result) /\ Len(<<>>) = 0 /\ 0 <= Capacity
      BY MessageFacts
    <2> QED
      BY <1>1, <2>1, <2>2, MergeStarts DEF FrameInv
  <1>7. CASE UNCHANGED ft8Vars
    <2>1. MergeInv'
      BY <1>1, <1>7, MergeStep DEF ft8Vars, vars
    <2> QED
      BY <1>1, <1>7, <2>1 DEF ft8Vars, FrameInv
  <1> QED
    BY <1>2, <1>3, <1>4, <1>5, <1>6, <1>7 DEF Ft8Next

(***************************************************************************)
(* Frame after frame, whatever ft8_lib and jt9 print: a decode of jt9 that *)
(* was looked at is in the list, with its callsign, while there is room.   *)
(***************************************************************************)
THEOREM FramesMissNothing == Ft8Spec => []NothingMissed
  <1>1. FrameInv => NothingMissed
    BY DEF FrameInv, MergeInv
  <1> QED
    BY <1>1, FrameInitially, FrameStep, PTL DEF Ft8Spec

-----------------------------------------------------------------------------
(***************************************************************************)
(* What holds at 0 and passes from each number to the next holds up to n.  *)
(***************************************************************************)
LEMMA UpTo ==
    ASSUME NEW n \in Nat, NEW S, 0 \in S,
           \A m \in 0 .. n - 1 : m \in S => m + 1 \in S
    PROVE  0 .. n \subseteq S
  <1> DEFINE Bad == {m \in 0 .. n : m \notin S}
  <1> SUFFICES ASSUME Bad # {}
               PROVE  FALSE
    OBVIOUS
  <1>1. Bad \in SUBSET Nat
    OBVIOUS
  <1>2. PICK m \in Bad : \A k \in Bad : m <= k
    BY <1>1, LeastNatural
  <1>3. m # 0 /\ m - 1 \in 0 .. n - 1
    BY <1>2
  <1>4. m - 1 \in S
    BY <1>2, <1>3
  <1>5. (m - 1) + 1 = m
    BY <1>2
  <1> QED
    BY <1>2, <1>3, <1>4, <1>5

-----------------------------------------------------------------------------
(***************************************************************************)
(* f holds the states of a loop of n rounds; after m of them the state is  *)
(* in D[m]. There is such a function if each round leads from one of these *)
(* sets to the next.                                                       *)
(***************************************************************************)
Runs(f, n, D, begin, round) ==
    /\ f = [m \in 0 .. n |-> f[m]]
    /\ f[0] = begin
    /\ \A m \in 0 .. n : f[m] \in D[m]
    /\ \A m \in 1 .. n : f[m] = round[m][f[m - 1]]

LEMMA LoopRuns ==
    ASSUME NEW n \in Nat, NEW D, NEW begin \in D[0], NEW round,
           \A m \in 1 .. n : \A state \in D[m - 1] : round[m][state] \in D[m]
    PROVE  \E f : Runs(f, n, D, begin, round)
  <1> DEFINE Good == {k \in 0 .. n : \E f : Runs(f, k, D, begin, round)}
  <1>1. 0 \in Good
    <2> DEFINE f == [m \in 0 .. 0 |-> begin]
    <2>1. f = [m \in 0 .. 0 |-> f[m]] /\ f[0] = begin /\ \A m \in 0 .. 0 : m = 0
      OBVIOUS
    <2> HIDE DEF f
    <2>2. Runs(f, 0, D, begin, round)
      BY <2>1 DEF Runs
    <2> QED
      BY <2>2
  <1>2. ASSUME NEW k \in 0 .. n - 1, k \in Good
        PROVE  k + 1 \in Good
    <2>1. PICK f : Runs(f, k, D, begin, round)
      BY <1>2
    <2>2. PICK next : next = round[k + 1][f[k]]
      OBVIOUS
    <2>3. k \in 0 .. k /\ k + 1 \in 1 .. n /\ (k + 1) - 1 = k
      OBVIOUS
    <2>4. next \in D[k + 1]
      BY <2>1, <2>2, <2>3 DEF Runs
    <2> DEFINE g == [m \in 0 .. k + 1 |-> IF m \in 0 .. k THEN f[m] ELSE next]
    <2>5. \A m \in 0 .. k : g[m] = f[m] /\ f[m] \in D[m]
      BY <2>1 DEF Runs
    <2>6. g[k + 1] = next /\ 0 \in 0 .. k
      BY <2>3
    <2>7. g = [m \in 0 .. k + 1 |-> g[m]]
      OBVIOUS
    <2> HIDE DEF g
    <2>8. ASSUME NEW m \in 1 .. k + 1
          PROVE  g[m] = round[m][g[m - 1]]
      <3>1. m - 1 \in 0 .. k /\ g[m - 1] = f[m - 1]
        BY <2>5
      <3>2. CASE m \in 1 .. k
        <4>1. f[m] = round[m][f[m - 1]]
          BY <2>1, <3>2 DEF Runs
        <4>2. g[m] = f[m]
          BY <2>5, <3>2
        <4> QED
          BY <3>1, <4>1, <4>2
      <3>3. CASE m = k + 1
        BY <2>2, <2>3, <2>6, <3>1, <3>3
      <3> QED
        BY <3>2, <3>3
    <2>9. \A m \in 0 .. k + 1 : g[m] \in D[m]
      <3>1. \A m \in 0 .. k + 1 : m \in 0 .. k \/ m = k + 1
        OBVIOUS
      <3> QED
        BY <2>4, <2>5, <2>6, <3>1
    <2>10. g[0] = begin
      BY <2>1, <2>5, <2>6 DEF Runs
    <2>11. Runs(g, k + 1, D, begin, round)
      BY <2>7, <2>8, <2>9, <2>10 DEF Runs
    <2> QED
      BY <2>3, <2>11
  <1> HIDE DEF Good
  <1>3. 0 .. n \subseteq Good
    BY <1>1, <1>2, UpTo
  <1>4. n \in Good
    BY <1>3
  <1> QED
    BY <1>4 DEF Good

(***************************************************************************)
(* The last state of any run is in the last of the sets.                   *)
(***************************************************************************)
LEMMA LoopEnds ==
    ASSUME NEW n \in Nat, NEW D, NEW f, f[0] \in D[0],
           \A m \in 1 .. n : f[m - 1] \in D[m - 1] => f[m] \in D[m]
    PROVE  f[n] \in D[n]
  <1> DEFINE Good == {m \in 0 .. n : f[m] \in D[m]}
  <1>1. 0 \in Good
    OBVIOUS
  <1>2. \A m \in 0 .. n - 1 : m \in Good => m + 1 \in Good
    <2> TAKE m \in 0 .. n - 1
    <2>1. m + 1 \in 1 .. n /\ (m + 1) - 1 = m /\ m + 1 \in 0 .. n
      OBVIOUS
    <2> QED
      BY <2>1
  <1> HIDE DEF Good
  <1>3. 0 .. n \subseteq Good
    BY <1>1, <1>2, UpTo
  <1>4. n \in Good
    BY <1>3
  <1> QED
    BY <1>4 DEF Good

-----------------------------------------------------------------------------
(***************************************************************************)
(* A list of candidates, each place once; a heap: no candidate of the      *)
(* first n is weaker than its parent.                                      *)
(***************************************************************************)
Place == [at : Nat, score : Int]

Places(list) ==
    /\ list \in Seq(Place)
    /\ \A i, j \in 1 .. Len(list) : list[i].at = list[j].at => i = j

First(list, n) == {list[i] : i \in 1 .. n}

Ordered(heap, n) == \A i \in 2 .. n : heap[i \div 2].score <= heap[i].score

(* The first n of list, in another order, and the others as they were.     *)
Shuffled(new, list, n) ==
    /\ Places(new) /\ Len(new) = Len(list)
    /\ First(new, n) = First(list, n)
    /\ \A i \in n + 1 .. Len(list) : new[i] = list[i]

LEMMA PlaceFacts ==
    ASSUME NEW list, Places(list)
    PROVE  /\ Len(list) \in Nat /\ DOMAIN list = 1 .. Len(list)
           /\ \A i \in 1 .. Len(list) :
                 list[i] \in Place /\ list[i].at \in Nat /\ list[i].score \in Int
  <1>1. list \in Seq(Place)
    BY DEF Places
  <1>2. Len(list) \in Nat /\ DOMAIN list = 1 .. Len(list)
    BY <1>1
  <1>3. \A i \in 1 .. Len(list) : list[i] \in Place
    BY <1>1
  <1> QED
    BY <1>2, <1>3 DEF Place

LEMMA SwapIs ==
    ASSUME NEW list, Places(list), NEW i \in 1 .. Len(list), NEW j \in 1 .. Len(list)
    PROVE  /\ Swap(list, i, j) \in Seq(Place) /\ Len(Swap(list, i, j)) = Len(list)
           /\ Swap(list, i, j)[i] = list[j] /\ Swap(list, i, j)[j] = list[i]
           /\ \A k \in 1 .. Len(list) : k # i /\ k # j => Swap(list, i, j)[k] = list[k]
  <1> DEFINE new(k) == IF k = j THEN list[i] ELSE IF k = i THEN list[j] ELSE list[k]
  <1>1. Len(list) \in Nat /\ DOMAIN list = 1 .. Len(list) /\ list \in Seq(Place)
    BY PlaceFacts DEF Places
  <1>2. Swap(list, i, j) = [k \in 1 .. Len(list) |-> new(k)]
    BY <1>1 DEF Swap
  <1>3. \A k \in 1 .. Len(list) : new(k) \in Place
    BY PlaceFacts
  <1>4. new(j) = list[i] /\ new(i) = list[j]
        /\ \A k \in 1 .. Len(list) : k # i /\ k # j => new(k) = list[k]
    OBVIOUS
  <1> HIDE DEF new
  <1>5. Swap(list, i, j) \in Seq(Place) /\ Len(Swap(list, i, j)) = Len(list)
    BY <1>1, <1>2, <1>3
  <1> QED
    BY <1>2, <1>4, <1>5

LEMMA SwapShuffles ==
    ASSUME NEW list, Places(list), NEW n \in 0 .. Len(list),
           NEW i \in 1 .. n, NEW j \in 1 .. n
    PROVE  Shuffled(Swap(list, i, j), list, n)
  <1>0. Len(list) \in Nat /\ i \in 1 .. Len(list) /\ j \in 1 .. Len(list)
        /\ \A k \in 1 .. n : k \in 1 .. Len(list)
    BY PlaceFacts
  <1>1. PICK new : new = Swap(list, i, j)
    OBVIOUS
  <1>2. /\ new \in Seq(Place) /\ Len(new) = Len(list)
        /\ new[i] = list[j] /\ new[j] = list[i]
        /\ \A k \in 1 .. Len(list) : k # i /\ k # j => new[k] = list[k]
    BY <1>0, <1>1, SwapIs
  <1>3. \A k, l \in 1 .. Len(list) : new[k].at = new[l].at => k = l
    BY <1>0, <1>2 DEF Places
  <1>4. First(new, n) = First(list, n)
    <2>1. \A k \in 1 .. n : new[k] \in First(list, n)
      BY <1>0, <1>2 DEF First
    <2>2. \A k \in 1 .. n : list[k] \in First(new, n)
      BY <1>0, <1>2 DEF First
    <2> QED
      BY <2>1, <2>2 DEF First
  <1>5. \A k \in n + 1 .. Len(list) : new[k] = list[k]
    BY <1>0, <1>2
  <1> QED
    BY <1>1, <1>2, <1>3, <1>4, <1>5 DEF Shuffled, Places

LEMMA ShuffledAgain ==
    ASSUME NEW a, NEW b, NEW c, NEW n, Shuffled(b, a, n), Shuffled(c, b, n)
    PROVE  Shuffled(c, a, n)
BY DEF Shuffled

LEMMA NotShuffled ==
    ASSUME NEW list, Places(list), NEW n
    PROVE  Shuffled(list, list, n)
BY DEF Shuffled

-----------------------------------------------------------------------------
(***************************************************************************)
(* What is known while a node sifts down: only it may be stronger than its *)
(* children, and its parent is not stronger than those.                    *)
(***************************************************************************)
SiftsDown(heap, current, n) ==
    /\ current \in 1 .. n
    /\ \A i \in 2 .. n : i \div 2 # current => heap[i \div 2].score <= heap[i].score
    /\ \A i \in 2 .. n : i \div 2 = current /\ current > 1 =>
           heap[current \div 2].score <= heap[i].score

LEMMA Halves ==
    ASSUME NEW i \in Nat, i > 1
    PROVE  /\ i \div 2 \in Nat /\ i \div 2 >= 1 /\ i \div 2 < i
           /\ \A k \in Nat : i \div 2 = k => i = 2 * k \/ i = 2 * k + 1
           /\ \A k \in Nat : i = 2 * k \/ i = 2 * k + 1 => i \div 2 = k
  <1>1. i \div 2 \in Nat /\ i \div 2 >= 1 /\ i \div 2 < i
    BY Z3
  <1>2. \A k \in Nat : i \div 2 = k => i = 2 * k \/ i = 2 * k + 1
    BY Z3
  <1>3. \A k \in Nat : i = 2 * k \/ i = 2 * k + 1 => i \div 2 = k
    BY Z3
  <1> QED
    BY <1>1, <1>2, <1>3

LEMMA SmallestIs ==
    ASSUME NEW heap, Places(heap), NEW n \in 1 .. Len(heap), NEW c \in 1 .. n
    PROVE  LET m == Smallest(heap, n, c)
           IN  /\ m \in 1 .. n
               /\ m = c \/ (m \div 2 = c /\ m > c /\ heap[m].score < heap[c].score)
               /\ \A i \in 2 .. n : i \div 2 = c => heap[m].score <= heap[i].score
               /\ heap[m].score <= heap[c].score
  <1> DEFINE left == 2 * c
             right == 2 * c + 1
             a == IF left <= n /\ heap[left].score < heap[c].score THEN left ELSE c
             m == IF right <= n /\ heap[right].score < heap[a].score THEN right ELSE a
  <1>0. Len(heap) \in Nat /\ n \in Nat /\ c \in Nat
        /\ \A i \in 1 .. n : heap[i].score \in Int
    BY PlaceFacts
  <1>1. left \div 2 = c /\ right \div 2 = c
    BY <1>0, Halves
  <1>2. \A i \in 2 .. n : i \div 2 = c => i = left \/ i = right
    BY <1>0, Halves
  <1>3. left \in Nat /\ right \in Nat /\ left > c /\ right > c /\ left >= 2
    BY <1>0
  <1> HIDE DEF left, right
  <1>4. /\ a \in 1 .. n /\ (a = c \/ (a = left /\ heap[a].score < heap[c].score))
        /\ heap[a].score <= heap[c].score
        /\ left <= n => heap[a].score <= heap[left].score
    BY <1>0, <1>3
  <1>5. PICK aa : aa = a
    OBVIOUS
  <1> HIDE DEF a
  <1>6. /\ m \in 1 .. n /\ (m = a \/ (m = right /\ heap[m].score < heap[a].score))
        /\ heap[m].score <= heap[a].score
        /\ right <= n => heap[m].score <= heap[right].score
    BY <1>0, <1>3, <1>4
  <1>7. m = Smallest(heap, n, c)
    BY DEF Smallest, left, right, a
  <1> HIDE DEF m
  <1>8. m = c \/ (m \div 2 = c /\ m > c /\ heap[m].score < heap[c].score)
    <2>1. CASE m = right /\ heap[m].score < heap[a].score
      BY <1>0, <1>1, <1>3, <1>4, <1>6, <2>1
    <2>2. CASE m = a
      BY <1>0, <1>1, <1>3, <1>4, <2>2
    <2> QED
      BY <1>6, <2>1, <2>2
  <1>9. \A i \in 2 .. n : i \div 2 = c => heap[m].score <= heap[i].score
    <2> SUFFICES ASSUME NEW i \in 2 .. n, i \div 2 = c
                 PROVE  heap[m].score <= heap[i].score
      OBVIOUS
    <2>1. CASE i = left
      BY <1>0, <1>4, <1>6, <2>1
    <2>2. CASE i = right
      BY <1>6, <2>2
    <2> QED
      BY <1>2, <2>1, <2>2
  <1>10. heap[m].score <= heap[c].score
    BY <1>0, <1>4, <1>6
  <1> QED
    BY <1>6, <1>7, <1>8, <1>9, <1>10

(***************************************************************************)
(* One round: the node that is exchanged with its weakest child goes on    *)
(* sifting; one that stays leaves a heap behind, and in a heap it stays.   *)
(***************************************************************************)
LEMMA SiftDownRound ==
    ASSUME NEW heap, Places(heap), NEW n \in 1 .. Len(heap), NEW c \in 1 .. n,
           SiftsDown(heap, c, n)
    PROVE  LET m   == Smallest(heap, n, c)
               new == Swap(heap, c, m)
           IN  /\ Shuffled(new, heap, n) /\ SiftsDown(new, m, n)
               /\ m = c => new = heap /\ Ordered(heap, n)
               /\ Ordered(heap, n) => m = c
               /\ m # c => m > c
  <1>0. Len(heap) \in Nat /\ n \in Nat /\ c \in Nat /\ DOMAIN heap = 1 .. Len(heap)
        /\ (\A i \in 1 .. n : i \in 1 .. Len(heap) /\ heap[i].score \in Int)
        /\ n \in 0 .. Len(heap)
    BY PlaceFacts
  <1>1. PICK m : m = Smallest(heap, n, c)
    OBVIOUS
  <1>2. PICK new : new = Swap(heap, c, m)
    OBVIOUS
  <1>3. /\ m \in 1 .. n
        /\ m = c \/ (m \div 2 = c /\ m > c /\ heap[m].score < heap[c].score)
        /\ \A i \in 2 .. n : i \div 2 = c => heap[m].score <= heap[i].score
        /\ heap[m].score <= heap[c].score
    BY <1>1, SmallestIs
  <1>4. Shuffled(new, heap, n)
    BY <1>0, <1>2, <1>3, SwapShuffles
  <1>5. /\ new[c] = heap[m] /\ new[m] = heap[c]
        /\ \A k \in 1 .. n : k # c /\ k # m => new[k] = heap[k]
    BY <1>0, <1>2, <1>3, SwapIs
  <1>6. \A i \in 2 .. n : i \in 1 .. n /\ i \div 2 \in 1 .. n /\ i \div 2 < i
    BY <1>0, Halves
  <1>7. CASE m = c
    <2>1. new = heap
      <3>1. new \in Seq(Place) /\ Len(new) = Len(heap) /\ heap \in Seq(Place)
        BY <1>4 DEF Shuffled, Places
      <3>2. \A k \in 1 .. Len(heap) : new[k] = heap[k]
        BY <1>0, <1>2, <1>3, <1>7, SwapIs
      <3> QED
        BY <3>1, <3>2
    <2>2. Ordered(heap, n)
      BY <1>3, <1>7 DEF Ordered, SiftsDown
    <2> QED
      BY <1>1, <1>2, <1>4, <1>7, <2>1, <2>2
  <1>8. CASE m # c
    <2>1. m \div 2 = c /\ m > c /\ heap[m].score < heap[c].score /\ m > 1 /\ m \in 2 .. n
      BY <1>0, <1>3, <1>8
    <2>2. ~Ordered(heap, n)
      <3>1. heap[m \div 2].score \in Int /\ heap[m].score \in Int
        BY <1>0, <2>1
      <3> QED
        BY <2>1, <3>1 DEF Ordered
    <2>3. ASSUME NEW i \in 2 .. n, i \div 2 # m
          PROVE  new[i \div 2].score <= new[i].score
      <3>0. i \in 1 .. n /\ i \div 2 \in 1 .. n
        BY <1>6
      <3>1. CASE i = m
        <4>1. new[i \div 2] = heap[m] /\ new[i] = heap[c]
          BY <1>5, <2>1, <3>1
        <4>2. heap[m].score \in Int /\ heap[c].score \in Int
          BY <1>0, <1>3
        <4>3. heap[m].score <= heap[c].score
          BY <1>3
        <4> QED
          BY <4>1, <4>3
      <3>2. CASE i # m /\ i \div 2 = c
        <4>1. i # c
          BY <1>0, <1>6, <3>2
        <4> QED
          BY <1>3, <1>5, <3>0, <3>2, <4>1
      <3>3. CASE i = c
        <4>1. new[i] = heap[m] /\ c > 1 /\ i \div 2 # c
          BY <1>5, <1>6, <3>3
        <4>2. new[i \div 2] = heap[i \div 2]
          BY <1>5, <2>3, <3>0, <4>1
        <4>3. heap[c \div 2].score <= heap[m].score
          BY <2>1, <4>1 DEF SiftsDown
        <4> QED
          BY <3>3, <4>1, <4>2, <4>3
      <3>4. CASE i # m /\ i # c /\ i \div 2 # c
        <4>1. new[i] = heap[i] /\ new[i \div 2] = heap[i \div 2]
          BY <1>5, <2>3, <3>0, <3>4
        <4> QED
          BY <3>4, <4>1 DEF SiftsDown
      <3> QED
        BY <3>1, <3>2, <3>3, <3>4
    <2>4. ASSUME NEW i \in 2 .. n, i \div 2 = m
          PROVE  new[m \div 2].score <= new[i].score
      <3>1. i # m /\ i # c /\ i \in 1 .. n /\ i \div 2 # c
        BY <1>0, <1>6, <1>8, <2>1, <2>4
      <3>2. new[i] = heap[i] /\ new[m \div 2] = heap[m]
        BY <1>5, <2>1, <3>1
      <3>3. heap[i \div 2].score <= heap[i].score
        BY <3>1 DEF SiftsDown
      <3> QED
        BY <2>4, <3>2, <3>3
    <2>5. SiftsDown(new, m, n)
      BY <1>3, <2>3, <2>4 DEF SiftsDown
    <2> QED
      BY <1>1, <1>2, <1>4, <1>8, <2>1, <2>2, <2>5
  <1> QED
    BY <1>7, <1>8

(***************************************************************************)
(* heapify_down makes a heap of one whose root alone may be too strong: a  *)
(* round either leaves a heap or moves on by at least a slot, and there    *)
(* are as many rounds as slots.                                            *)
(***************************************************************************)
LEMMA HeapifiedDown ==
    ASSUME NEW heap, Places(heap), NEW n \in 0 .. Len(heap),
           \A i \in 2 .. n : i \div 2 # 1 => heap[i \div 2].score <= heap[i].score
    PROVE  Shuffled(heapify_down(heap, n), heap, n) /\ Ordered(heapify_down(heap, n), n)
  <1> DEFINE State   == [heap : Seq(Place), current : Nat]
             Good(s) == Shuffled(s.heap, heap, n) /\ (n > 0 => SiftsDown(s.heap, s.current, n))
             Far(s, m) == Ordered(s.heap, n) \/ s.current > m
             D       == [m \in 0 .. n |-> {s \in State : Good(s) /\ Far(s, m)}]
             begin   == [heap |-> heap, current |-> 1]
             round   == [m \in 1 .. n |-> [s \in D[m - 1] |-> SiftDown(s, n)]]
             Sifts(f) == f = [m \in 0 .. n |-> IF m = 0 THEN begin ELSE SiftDown(f[m - 1], n)]
             sift    == CHOOSE f : Sifts(f)
  <1>0. Len(heap) \in Nat /\ n \in Nat /\ 0 \in 0 .. n /\ n \in 0 .. n
        /\ \A m \in 1 .. n : m - 1 \in 0 .. n /\ m \in 0 .. n /\ m # 0
    BY PlaceFacts
  <1>1. begin \in D[0]
    <2>1. n > 0 => SiftsDown(heap, 1, n)
      BY <1>0 DEF SiftsDown
    <2>2. begin \in State
      BY DEF Places
    <2>3. Shuffled(heap, heap, n)
      BY NotShuffled
    <2> QED
      BY <1>0, <2>1, <2>2, <2>3
  <1>2. ASSUME NEW m \in 1 .. n, NEW s \in D[m - 1]
        PROVE  SiftDown(s, n) \in D[m]
    <2>0. s \in State /\ Good(s) /\ Far(s, m - 1)
      BY <1>0
    <2>1. PICK h, c : s = [heap |-> h, current |-> c] /\ h \in Seq(Place) /\ c \in Nat
      BY <2>0
    <2>2. s.heap = h /\ s.current = c
      BY <2>1
    <2>3. Shuffled(h, heap, n) /\ SiftsDown(h, c, n) /\ (Ordered(h, n) \/ c > m - 1)
      BY <1>0, <2>0, <2>2
    <2>4. Places(h) /\ n \in 1 .. Len(h) /\ c \in 1 .. n
      BY <1>0, <2>3 DEF Shuffled, SiftsDown
    <2>5. PICK k : k = Smallest(h, n, c)
      OBVIOUS
    <2>6. PICK new : new = Swap(h, c, k)
      OBVIOUS
    <2>7. /\ Shuffled(new, h, n) /\ SiftsDown(new, k, n)
          /\ k = c => new = h /\ Ordered(h, n)
          /\ Ordered(h, n) => k = c
          /\ k # c => k > c
      BY <2>3, <2>4, <2>5, <2>6, SiftDownRound
    <2>8. SiftDown(s, n) = [heap |-> new, current |-> k]
      BY <2>2, <2>5, <2>6 DEF SiftDown
    <2>9. Shuffled(new, heap, n) /\ new \in Seq(Place) /\ k \in Nat
      BY <1>0, <2>3, <2>7, ShuffledAgain DEF Shuffled, Places, SiftsDown
    <2>10. Ordered(new, n) \/ k > m
      BY <1>0, <2>1, <2>3, <2>7, <2>9
    <2> QED
      BY <1>0, <2>7, <2>8, <2>9, <2>10
  <1>3. \A m \in 1 .. n : \A s \in D[m - 1] : round[m][s] = SiftDown(s, n)
    OBVIOUS
  <1> HIDE DEF D, begin, round
  <1>4. PICK f : Runs(f, n, D, begin, round)
    BY <1>0, <1>1, <1>2, <1>3, LoopRuns
  <1>5. Sifts(f)
    <2> DEFINE g == [m \in 0 .. n |-> IF m = 0 THEN begin ELSE SiftDown(f[m - 1], n)]
    <2>1. f[0] = begin
      BY <1>4 DEF Runs
    <2>2. \A m \in 1 .. n : f[m] = round[m][f[m - 1]] /\ f[m - 1] \in D[m - 1]
      BY <1>0, <1>4 DEF Runs
    <2>3. \A m \in 1 .. n : f[m] = SiftDown(f[m - 1], n)
      BY <1>3, <2>2
    <2>4. \A m \in 0 .. n : f[m] = g[m]
      <3>1. \A m \in 0 .. n : m = 0 \/ m \in 1 .. n
        BY <1>0
      <3> QED
        BY <1>0, <2>1, <2>3, <3>1
    <2> QED
      BY <1>4, <2>4 DEF Runs
  <1>6. Sifts(sift)
    BY <1>5, Zenon
  <1> HIDE DEF sift
  <1>7. sift[0] = begin /\ \A m \in 1 .. n : sift[m] = SiftDown(sift[m - 1], n)
    <2>1. sift = [m \in 0 .. n |-> IF m = 0 THEN begin ELSE SiftDown(sift[m - 1], n)]
      BY <1>6
    <2> QED
      BY <1>0, <2>1
  <1>8. sift[n] \in D[n]
    <2>1. sift[0] \in D[0] /\ \A m \in 1 .. n : sift[m - 1] \in D[m - 1] => sift[m] \in D[m]
      BY <1>1, <1>2, <1>7
    <2> QED
      BY <1>0, <2>1, LoopEnds
  <1>9. PICK s : s = sift[n]
    OBVIOUS
  <1>10. s \in State /\ Good(s) /\ Far(s, n)
    BY <1>0, <1>8, <1>9 DEF D
  <1>11. Ordered(s.heap, n)
    BY <1>0, <1>10 DEF SiftsDown, Ordered
  <1>12. heapify_down(heap, n) = sift[n].heap
    BY DEF heapify_down, sift, begin
  <1> QED
    BY <1>9, <1>10, <1>11, <1>12

-----------------------------------------------------------------------------
(***************************************************************************)
(* What is known while a node sifts up: only it may be weaker than its     *)
(* parent, which is not stronger than the children of the node.            *)
(***************************************************************************)
SiftsUp(heap, current, n) ==
    /\ current \in 1 .. n
    /\ \A i \in 2 .. n : i # current => heap[i \div 2].score <= heap[i].score
    /\ \A i \in 2 .. n : i \div 2 = current /\ current > 1 =>
           heap[current \div 2].score <= heap[i].score

LEMMA SiftUpRound ==
    ASSUME NEW heap, Places(heap), NEW n \in 1 .. Len(heap), NEW c \in 1 .. n,
           SiftsUp(heap, c, n)
    PROVE  LET p   == c \div 2
               new == Swap(heap, c, p)
           IN  /\ c > 1 /\ heap[c].score < heap[p].score =>
                     p < c /\ Shuffled(new, heap, n) /\ SiftsUp(new, p, n)
               /\ Ordered(heap, n) <=> ~(c > 1 /\ heap[c].score < heap[p].score)
  <1>0. Len(heap) \in Nat /\ n \in Nat /\ c \in Nat /\ DOMAIN heap = 1 .. Len(heap)
        /\ (\A i \in 1 .. n : i \in 1 .. Len(heap) /\ heap[i].score \in Int)
        /\ n \in 0 .. Len(heap)
    BY PlaceFacts
  <1>1. \A i \in 2 .. n : i \in 1 .. n /\ i \div 2 \in 1 .. n /\ i \div 2 < i
    BY <1>0, Halves
  <1>2. Ordered(heap, n) <=> ~(c > 1 /\ heap[c].score < heap[c \div 2].score)
    <2>1. ASSUME c > 1
          PROVE  c \in 2 .. n /\ heap[c].score \in Int /\ heap[c \div 2].score \in Int
      BY <1>0, <1>1, <2>1
    <2>2. ASSUME Ordered(heap, n), c > 1, heap[c].score < heap[c \div 2].score
          PROVE  FALSE
      BY <2>1, <2>2 DEF Ordered
    <2>3. ASSUME ~(c > 1 /\ heap[c].score < heap[c \div 2].score)
          PROVE  Ordered(heap, n)
      <3> SUFFICES ASSUME NEW i \in 2 .. n
                   PROVE  heap[i \div 2].score <= heap[i].score
        BY DEF Ordered
      <3>1. CASE i = c
        BY <1>0, <2>1, <2>3, <3>1
      <3>2. CASE i # c
        BY <3>2 DEF SiftsUp
      <3> QED
        BY <3>1, <3>2
    <2> QED
      BY <2>2, <2>3
  <1>3. ASSUME c > 1, heap[c].score < heap[c \div 2].score
        PROVE  /\ c \div 2 < c
               /\ Shuffled(Swap(heap, c, c \div 2), heap, n)
               /\ SiftsUp(Swap(heap, c, c \div 2), c \div 2, n)
    <2>1. PICK p : p = c \div 2
      OBVIOUS
    <2>2. PICK new : new = Swap(heap, c, p)
      OBVIOUS
    <2>3. /\ c \in 2 .. n /\ p \in 1 .. n /\ p < c
          /\ heap[c].score \in Int /\ heap[p].score \in Int
          /\ heap[c].score <= heap[p].score
      BY <1>0, <1>1, <1>3, <2>1
    <2>4. Shuffled(new, heap, n)
      BY <1>0, <2>2, <2>3, SwapShuffles
    <2>5. /\ new[c] = heap[p] /\ new[p] = heap[c]
          /\ \A k \in 1 .. n : k # c /\ k # p => new[k] = heap[k]
      BY <1>0, <2>2, <2>3, SwapIs
    <2>6. ASSUME NEW i \in 2 .. n, i # c
          PROVE  heap[i \div 2].score <= heap[i].score
      BY <2>6 DEF SiftsUp
    <2>7. ASSUME NEW i \in 2 .. n, i # p
          PROVE  new[i \div 2].score <= new[i].score
      <3>0. i \in 1 .. n /\ i \div 2 \in 1 .. n /\ i \div 2 < i
            /\ heap[i].score \in Int
        BY <1>0, <1>1
      <3>1. CASE i = c
        BY <2>1, <2>3, <2>5, <3>1
      <3>2. CASE i # c /\ i \div 2 = p
        <4>1. new[i] = heap[i] /\ new[i \div 2] = heap[c]
          BY <2>5, <2>7, <3>0, <3>2
        <4>2. heap[p].score <= heap[i].score
          BY <2>6, <3>2
        <4> QED
          BY <2>3, <3>0, <4>1, <4>2
      <3>3. CASE i # c /\ i \div 2 = c
        <4>1. new[i] = heap[i] /\ new[i \div 2] = heap[p]
          BY <2>5, <2>7, <3>0, <3>3
        <4>2. heap[p].score <= heap[i].score
          BY <1>3, <2>1, <3>3 DEF SiftsUp
        <4> QED
          BY <4>1, <4>2
      <3>4. CASE i # c /\ i \div 2 # p /\ i \div 2 # c
        BY <2>5, <2>6, <2>7, <3>0, <3>4
      <3> QED
        BY <3>1, <3>2, <3>3, <3>4
    <2>8. ASSUME NEW i \in 2 .. n, i \div 2 = p, p > 1
          PROVE  new[p \div 2].score <= new[i].score
      <3>0. p \in 2 .. n /\ p \div 2 \in 1 .. n /\ p \div 2 < p /\ i \in 1 .. n /\ i # p
            /\ heap[p \div 2].score \in Int /\ heap[i].score \in Int
        BY <1>0, <1>1, <2>3, <2>8
      <3>1. new[p \div 2] = heap[p \div 2]
        BY <1>0, <2>3, <2>5, <3>0
      <3>2. heap[p \div 2].score <= heap[p].score
        BY <1>0, <2>3, <2>6, <3>0
      <3>3. CASE i = c
        BY <2>5, <3>1, <3>2, <3>3
      <3>4. CASE i # c
        <4>1. new[i] = heap[i] /\ heap[p].score <= heap[i].score
          BY <2>5, <2>6, <2>8, <3>0, <3>4
        <4> QED
          BY <2>3, <3>0, <3>1, <3>2, <4>1
      <3> QED
        BY <3>3, <3>4
    <2>9. SiftsUp(new, p, n)
      BY <2>3, <2>7, <2>8 DEF SiftsUp
    <2> QED
      BY <2>1, <2>2, <2>3, <2>4, <2>9
  <1> QED
    BY <1>2, <1>3

(***************************************************************************)
(* heapify_up makes a heap of one whose last node alone may be too weak.   *)
(***************************************************************************)
LEMMA HeapifiedUp ==
    ASSUME NEW heap, Places(heap), Len(heap) > 0, Ordered(heap, Len(heap) - 1)
    PROVE  Shuffled(heapify_up(heap), heap, Len(heap)) /\ Ordered(heapify_up(heap), Len(heap))
  <1>1. PICK n : n = Len(heap)
    OBVIOUS
  <1> DEFINE State   == [heap : Seq(Place), current : Nat]
             Good(s) == Shuffled(s.heap, heap, n) /\ SiftsUp(s.heap, s.current, n)
             Far(s, m) == Ordered(s.heap, n) \/ s.current <= n - m
             D       == [m \in 0 .. n |-> {s \in State : Good(s) /\ Far(s, m)}]
             begin   == [heap |-> heap, current |-> n]
             round   == [m \in 1 .. n |-> [s \in D[m - 1] |-> SiftUp(s)]]
             Sifts(f) == f = [m \in 0 .. n |-> IF m = 0 THEN begin ELSE SiftUp(f[m - 1])]
             sift    == CHOOSE f : Sifts(f)
  <1>0. n \in Nat /\ n \in 1 .. n /\ 0 \in 0 .. n /\ n \in 0 .. n
        /\ \A m \in 1 .. n : m - 1 \in 0 .. n /\ m \in 0 .. n /\ m # 0
    BY <1>1, PlaceFacts
  <1>2. begin \in D[0]
    <2>1. SiftsUp(heap, n, n)
      <3>1. \A i \in 2 .. n : i # n => i \in 2 .. n - 1
        BY <1>0
      <3>2. \A i \in 2 .. n : i \div 2 # n
        BY <1>0, Halves
      <3> QED
        BY <1>0, <1>1, <3>1, <3>2 DEF SiftsUp, Ordered
    <2>2. begin \in State /\ n <= n - 0
      BY <1>0 DEF Places
    <2>3. Shuffled(heap, heap, n)
      BY NotShuffled
    <2> QED
      BY <1>0, <2>1, <2>2, <2>3
  <1>3. ASSUME NEW m \in 1 .. n, NEW s \in D[m - 1]
        PROVE  SiftUp(s) \in D[m]
    <2>0. s \in State /\ Good(s) /\ Far(s, m - 1)
      BY <1>0
    <2>1. PICK h, c : s = [heap |-> h, current |-> c] /\ h \in Seq(Place) /\ c \in Nat
      BY <2>0
    <2>2. s.heap = h /\ s.current = c
      BY <2>1
    <2>3. Shuffled(h, heap, n) /\ SiftsUp(h, c, n) /\ (Ordered(h, n) \/ c <= n - (m - 1))
      BY <2>0, <2>2
    <2>4. Places(h) /\ n \in 1 .. Len(h) /\ c \in 1 .. n
      BY <1>0, <1>1, <2>3 DEF Shuffled, SiftsUp
    <2>5. PICK p : p = c \div 2
      OBVIOUS
    <2>6. PICK new : new = Swap(h, c, p)
      OBVIOUS
    <2>7. /\ c > 1 /\ h[c].score < h[p].score =>
                p < c /\ Shuffled(new, h, n) /\ SiftsUp(new, p, n)
          /\ Ordered(h, n) <=> ~(c > 1 /\ h[c].score < h[p].score)
      BY <2>3, <2>4, <2>5, <2>6, SiftUpRound
    <2>8. CASE c > 1 /\ h[c].score < h[p].score
      <3>1. SiftUp(s) = [heap |-> new, current |-> p]
        BY <2>2, <2>5, <2>6, <2>8 DEF SiftUp
      <3>2. Shuffled(new, heap, n) /\ new \in Seq(Place) /\ p \in Nat /\ p < c
        BY <1>0, <2>3, <2>7, <2>8, ShuffledAgain DEF Shuffled, Places, SiftsUp
      <3>3. p <= n - m
        BY <1>0, <2>1, <2>3, <2>7, <2>8, <3>2
      <3> QED
        BY <1>0, <2>7, <2>8, <3>1, <3>2, <3>3
    <2>9. CASE ~(c > 1 /\ h[c].score < h[p].score)
      <3>1. SiftUp(s) = s
        BY <2>2, <2>5, <2>9 DEF SiftUp
      <3>2. Ordered(s.heap, n)
        BY <2>2, <2>7, <2>9
      <3> QED
        BY <1>0, <2>0, <3>1, <3>2
    <2> QED
      BY <2>8, <2>9
  <1>4. \A m \in 1 .. n : \A s \in D[m - 1] : round[m][s] = SiftUp(s)
    OBVIOUS
  <1> HIDE DEF D, begin, round
  <1>5. PICK f : Runs(f, n, D, begin, round)
    BY <1>0, <1>2, <1>3, <1>4, LoopRuns
  <1>6. Sifts(f)
    <2> DEFINE g == [m \in 0 .. n |-> IF m = 0 THEN begin ELSE SiftUp(f[m - 1])]
    <2>1. f[0] = begin
      BY <1>5 DEF Runs
    <2>2. \A m \in 1 .. n : f[m] = round[m][f[m - 1]] /\ f[m - 1] \in D[m - 1]
      BY <1>0, <1>5 DEF Runs
    <2>3. \A m \in 1 .. n : f[m] = SiftUp(f[m - 1])
      BY <1>4, <2>2
    <2>4. \A m \in 0 .. n : f[m] = g[m]
      <3>1. \A m \in 0 .. n : m = 0 \/ m \in 1 .. n
        BY <1>0
      <3> QED
        BY <1>0, <2>1, <2>3, <3>1
    <2> QED
      BY <1>5, <2>4 DEF Runs
  <1>7. Sifts(sift)
    BY <1>6, Zenon
  <1> HIDE DEF sift
  <1>8. sift[0] = begin /\ \A m \in 1 .. n : sift[m] = SiftUp(sift[m - 1])
    <2>1. sift = [m \in 0 .. n |-> IF m = 0 THEN begin ELSE SiftUp(sift[m - 1])]
      BY <1>7
    <2> QED
      BY <1>0, <2>1
  <1>9. sift[n] \in D[n]
    <2>1. sift[0] \in D[0] /\ \A m \in 1 .. n : sift[m - 1] \in D[m - 1] => sift[m] \in D[m]
      BY <1>2, <1>3, <1>8
    <2> QED
      BY <1>0, <2>1, LoopEnds
  <1>10. PICK s : s = sift[n]
    OBVIOUS
  <1>11. s \in State /\ Good(s) /\ Far(s, n)
    BY <1>0, <1>9, <1>10 DEF D
  <1>12. Ordered(s.heap, n)
    BY <1>0, <1>11 DEF SiftsUp
  <1>13. heapify_up(heap) = sift[n].heap
    BY <1>1 DEF heapify_up, sift, begin
  <1> QED
    BY <1>1, <1>10, <1>11, <1>12, <1>13

-----------------------------------------------------------------------------
Elements(list) == First(list, Len(list))

LEMMA RootWeakest ==
    ASSUME NEW heap, Places(heap), NEW n \in 0 .. Len(heap), Ordered(heap, n)
    PROVE  \A i \in 1 .. n : heap[1].score <= heap[i].score
  <1> DEFINE Weaker == {i \in 1 .. n : ~(heap[1].score <= heap[i].score)}
  <1>0. Len(heap) \in Nat /\ n \in Nat /\ \A i \in 1 .. n : heap[i].score \in Int
    BY PlaceFacts
  <1> SUFFICES ASSUME Weaker # {}
               PROVE  FALSE
    OBVIOUS
  <1>1. Weaker \in SUBSET Nat
    BY <1>0
  <1>2. PICK i \in Weaker : \A j \in Weaker : i <= j
    BY <1>1, LeastNatural
  <1>3. i \in 2 .. n /\ 1 \in 1 .. n
    BY <1>0, <1>2
  <1>4. i \div 2 \in 1 .. n /\ i \div 2 < i
    BY <1>0, <1>3, Halves
  <1>5. i \div 2 \notin Weaker
    BY <1>0, <1>2, <1>4
  <1>6. heap[1].score <= heap[i \div 2].score /\ heap[i \div 2].score <= heap[i].score
    BY <1>3, <1>4, <1>5 DEF Ordered
  <1> QED
    BY <1>0, <1>2, <1>3, <1>4, <1>6

(***************************************************************************)
(* A candidate is added to a heap.                                         *)
(***************************************************************************)
LEMMA Added ==
    ASSUME NEW heap, Places(heap), Ordered(heap, Len(heap)), NEW candidate \in Place,
           \A e \in Elements(heap) : e.at # candidate.at
    PROVE  LET new == heapify_up(Append(heap, candidate))
           IN  /\ Places(new) /\ Ordered(new, Len(new)) /\ Len(new) = Len(heap) + 1
               /\ Elements(new) = Elements(heap) \cup {candidate}
  <1>1. PICK long : long = Append(heap, candidate)
    OBVIOUS
  <1>2. Len(heap) \in Nat /\ heap \in Seq(Place)
    BY PlaceFacts DEF Places
  <1>3. /\ long \in Seq(Place) /\ Len(long) = Len(heap) + 1
        /\ long[Len(heap) + 1] = candidate
        /\ \A i \in 1 .. Len(heap) : long[i] = heap[i]
    BY <1>1, <1>2
  <1>4. \A i \in 1 .. Len(heap) : heap[i].at # candidate.at
    BY DEF Elements, First
  <1>5. Places(long)
    <2>1. ASSUME NEW i \in 1 .. Len(long), NEW j \in 1 .. Len(long), long[i].at = long[j].at
          PROVE  i = j
      <3>1. CASE i # Len(heap) + 1 /\ j # Len(heap) + 1
        BY <1>2, <1>3, <2>1, <3>1 DEF Places
      <3>2. CASE i = Len(heap) + 1
        BY <1>2, <1>3, <1>4, <2>1, <3>2
      <3>3. CASE j = Len(heap) + 1
        BY <1>2, <1>3, <1>4, <2>1, <3>3
      <3> QED
        BY <3>1, <3>2, <3>3
    <2> QED
      BY <1>3, <2>1 DEF Places
  <1>6. Ordered(long, Len(long) - 1)
    <2>1. \A i \in 2 .. Len(heap) : i \in 1 .. Len(heap) /\ i \div 2 \in 1 .. Len(heap)
      BY <1>2, Halves
    <2>2. Len(long) - 1 = Len(heap)
      BY <1>2, <1>3
    <2> QED
      BY <1>3, <2>1, <2>2 DEF Ordered
  <1>7. PICK new : new = heapify_up(long)
    OBVIOUS
  <1>8. Shuffled(new, long, Len(long)) /\ Ordered(new, Len(long))
    BY <1>2, <1>3, <1>5, <1>6, <1>7, HeapifiedUp
  <1>9. Elements(long) = Elements(heap) \cup {candidate}
    <2>1. Elements(long) \subseteq Elements(heap) \cup {candidate}
      BY <1>2, <1>3 DEF Elements, First
    <2>2. \A i \in 1 .. Len(heap) : i \in 1 .. Len(long) /\ long[i] = heap[i]
      BY <1>2, <1>3
    <2>3. Elements(heap) \subseteq Elements(long)
      BY <2>2 DEF Elements, First
    <2>4. candidate \in Elements(long)
      BY <1>2, <1>3 DEF Elements, First
    <2> QED
      BY <2>1, <2>3, <2>4
  <1> QED
    BY <1>1, <1>3, <1>7, <1>8, <1>9 DEF Shuffled, Elements

(***************************************************************************)
(* The root is taken from a heap: the last node takes its place and sifts  *)
(* down.                                                                   *)
(***************************************************************************)
LEMMA RootRemoved ==
    ASSUME NEW heap, Places(heap), Ordered(heap, Len(heap)), Len(heap) > 0
    PROVE  LET new == WithoutRoot(heap)
           IN  /\ Places(new) /\ Ordered(new, Len(new)) /\ Len(new) = Len(heap) - 1
               /\ Elements(new) = Elements(heap) \ {heap[1]}
  <1>1. PICK n : n = Len(heap)
    OBVIOUS
  <1>2. n \in Nat /\ n > 0 /\ heap \in Seq(Place) /\ 1 \in 1 .. n /\ n \in 1 .. n
        /\ DOMAIN heap = 1 .. n
    BY <1>1, PlaceFacts DEF Places
  <1> DEFINE moved == [heap EXCEPT ![1] = heap[n]]
  <1>3. moved \in Seq(Place) /\ Len(moved) = n /\ moved[1] = heap[n]
        /\ \A i \in 2 .. n : moved[i] = heap[i]
    <2>1. heap[n] \in Place
      BY <1>1, <1>2
    <2> QED
      BY <1>1, <1>2, <2>1
  <1> HIDE DEF moved
  <1>4. PICK short : short = SubSeq(moved, 1, n - 1)
    OBVIOUS
  <1>5. /\ short \in Seq(Place) /\ Len(short) = n - 1
        /\ n > 1 => short[1] = heap[n]
        /\ \A i \in 2 .. n - 1 : short[i] = heap[i]
    BY <1>2, <1>3, <1>4
  <1>6. \A i, j \in 1 .. n : heap[i].at = heap[j].at => i = j
    BY <1>1 DEF Places
  <1>7. Places(short)
    <2>1. ASSUME NEW i \in 1 .. n - 1, NEW j \in 1 .. n - 1, short[i].at = short[j].at
          PROVE  i = j
      <3>1. CASE i = 1 /\ j # 1
        <4>1. short[i] = heap[n] /\ short[j] = heap[j] /\ j \in 1 .. n /\ j # n
          BY <1>2, <1>5, <3>1
        <4> QED
          BY <1>2, <1>6, <2>1, <4>1
      <3>2. CASE i # 1 /\ j = 1
        <4>1. short[j] = heap[n] /\ short[i] = heap[i] /\ i \in 1 .. n /\ i # n
          BY <1>2, <1>5, <3>2
        <4> QED
          BY <1>2, <1>6, <2>1, <4>1
      <3>3. CASE i # 1 /\ j # 1
        <4>1. short[j] = heap[j] /\ short[i] = heap[i] /\ i \in 1 .. n /\ j \in 1 .. n
          BY <1>2, <1>5, <3>3
        <4> QED
          BY <1>6, <2>1, <4>1
      <3> QED
        BY <3>1, <3>2, <3>3
    <2> QED
      BY <1>5, <2>1 DEF Places
  <1>8. Elements(short) = Elements(heap) \ {heap[1]}
    <2>1. \A i \in 1 .. n - 1 : \E j \in 2 .. n : short[i] = heap[j]
      <3> TAKE i \in 1 .. n - 1
      <3>1. CASE i = 1
        BY <1>2, <1>5, <3>1
      <3>2. CASE i # 1
        BY <1>2, <1>5, <3>2
      <3> QED
        BY <3>1, <3>2
    <2>2. \A j \in 2 .. n : \E i \in 1 .. n - 1 : short[i] = heap[j]
      <3> TAKE j \in 2 .. n
      <3>1. CASE j = n
        BY <1>2, <1>5, <3>1
      <3>2. CASE j # n
        BY <1>2, <1>5, <3>2
      <3> QED
        BY <3>1, <3>2
    <2>3. \A j \in 2 .. n : heap[j] # heap[1]
      BY <1>2, <1>6
    <2>4. Elements(heap) = {heap[i] : i \in 1 .. n} /\ Elements(short) = {short[i] : i \in 1 .. n - 1}
      BY <1>1, <1>5 DEF Elements, First
    <2>5. \A i \in 1 .. n : i = 1 \/ i \in 2 .. n
      BY <1>2
    <2>6. \A i \in 2 .. n : i \in 1 .. n
      BY <1>2
    <2>7. Elements(short) \subseteq Elements(heap) \ {heap[1]}
      BY <2>1, <2>3, <2>4, <2>6
    <2>8. Elements(heap) \ {heap[1]} \subseteq Elements(short)
      BY <2>2, <2>4, <2>5
    <2> QED
      BY <2>7, <2>8
  <1>9. \A i \in 2 .. n - 1 : i \div 2 # 1 => short[i \div 2].score <= short[i].score
    <2> SUFFICES ASSUME NEW i \in 2 .. n - 1, i \div 2 # 1
                 PROVE  short[i \div 2].score <= short[i].score
      OBVIOUS
    <2>1. i \div 2 \in 2 .. n - 1 /\ i \in 2 .. n
      BY <1>2, Halves
    <2> QED
      BY <1>1, <1>5, <2>1 DEF Ordered
  <1>10. PICK new : new = heapify_down(short, n - 1)
    OBVIOUS
  <1>11. Shuffled(new, short, n - 1) /\ Ordered(new, n - 1)
    <2>1. n - 1 \in 0 .. Len(short)
      BY <1>2, <1>5
    <2> QED
      BY <1>7, <1>9, <1>10, <2>1, HeapifiedDown
  <1>12. new = WithoutRoot(heap)
    BY <1>1, <1>4, <1>10 DEF WithoutRoot, moved
  <1> QED
    BY <1>1, <1>5, <1>8, <1>11, <1>12 DEF Shuffled, Elements

-----------------------------------------------------------------------------
(***************************************************************************)
(* The heap after m places: the strongest of them, as many as there is     *)
(* room for.                                                               *)
(***************************************************************************)
Seen(scores, i) == [at |-> i, score |-> scores[i]]

Strongest(heap, scores, num_candidates, min_score, m) ==
    /\ Places(heap) /\ Ordered(heap, Len(heap)) /\ Len(heap) <= num_candidates
    /\ \A e \in Elements(heap) :
          e.at \in 1 .. m /\ e.score = scores[e.at] /\ e.score >= min_score
    /\ \A j \in 1 .. m : scores[j] >= min_score =>
          \/ Seen(scores, j) \in Elements(heap)
          \/ Len(heap) = num_candidates /\ \A e \in Elements(heap) : e.score >= scores[j]

LEMMA Considered ==
    ASSUME NEW scores \in Seq(Int), NEW num_candidates \in Nat \ {0}, NEW min_score \in Int,
           NEW m \in 0 .. Len(scores) - 1, NEW heap,
           Strongest(heap, scores, num_candidates, min_score, m)
    PROVE  Strongest(Consider(heap, Seen(scores, m + 1), num_candidates, min_score),
                     scores, num_candidates, min_score, m + 1)
  <1>1. PICK candidate : candidate = Seen(scores, m + 1)
    OBVIOUS
  <1>2. PICK new : new = Consider(heap, candidate, num_candidates, min_score)
    OBVIOUS
  <1>0. /\ Len(scores) \in Nat /\ m + 1 \in 1 .. Len(scores)
        /\ \A j \in 1 .. Len(scores) : scores[j] \in Int
        /\ Places(heap) /\ Ordered(heap, Len(heap)) /\ Len(heap) <= num_candidates
        /\ Len(heap) \in Nat
    BY PlaceFacts DEF Strongest
  <1>3. candidate \in Place /\ candidate.at = m + 1 /\ candidate.score = scores[m + 1]
        /\ candidate.score \in Int
    BY <1>0, <1>1 DEF Seen, Place
  <1>4. \A e \in Elements(heap) : /\ e.at \in 1 .. m /\ e.score = scores[e.at]
                                  /\ e.score >= min_score
                                  /\ e.score \in Int /\ e.at # candidate.at
    BY <1>0, <1>3 DEF Strongest
  <1>5. ASSUME NEW j \in 1 .. m, scores[j] >= min_score
        PROVE  \/ Seen(scores, j) \in Elements(heap)
               \/ Len(heap) = num_candidates /\ \A e \in Elements(heap) : e.score >= scores[j]
    BY <1>5 DEF Strongest
  <1>6. CASE candidate.score < min_score
    <2>1. new = heap
      BY <1>2, <1>6 DEF Consider
    <2>2. \A j \in 1 .. m + 1 : scores[j] >= min_score => j \in 1 .. m
      BY <1>0, <1>3, <1>6
    <2>3. \A e \in Elements(heap) : e.at \in 1 .. m + 1
      BY <1>4
    <2> QED
      BY <1>0, <1>1, <1>2, <1>4, <1>5, <2>1, <2>2, <2>3 DEF Strongest
  <1>7. CASE candidate.score >= min_score /\ Len(heap) # num_candidates
    <2>1. new = heapify_up(Append(heap, candidate))
      BY <1>2, <1>3, <1>7 DEF Consider
    <2>2. /\ Places(new) /\ Ordered(new, Len(new)) /\ Len(new) = Len(heap) + 1
          /\ Elements(new) = Elements(heap) \cup {candidate}
      BY <1>0, <1>3, <1>4, <2>1, Added
    <2>3. Len(new) <= num_candidates
      BY <1>0, <1>7, <2>2
    <2>4. \A e \in Elements(new) :
             e.at \in 1 .. m + 1 /\ e.score = scores[e.at] /\ e.score >= min_score
      BY <1>3, <1>4, <1>7, <2>2
    <2>5. ASSUME NEW j \in 1 .. m + 1, scores[j] >= min_score
          PROVE  Seen(scores, j) \in Elements(new)
      <3>1. CASE j = m + 1
        BY <1>1, <2>2, <3>1
      <3>2. CASE j # m + 1
        <4>1. j \in 1 .. m
          BY <3>2
        <4> QED
          BY <1>5, <1>7, <2>2, <2>5, <4>1
      <3> QED
        BY <3>1, <3>2
    <2> QED
      BY <1>1, <1>2, <2>2, <2>3, <2>4, <2>5 DEF Strongest
  <1>8. CASE candidate.score >= min_score /\ Len(heap) = num_candidates
    <2>0. Len(heap) > 0 /\ 1 \in 1 .. Len(heap) /\ heap[1] \in Elements(heap)
      BY <1>0, <1>8 DEF Elements, First
    <2>1. \A e \in Elements(heap) : heap[1].score <= e.score
      <3>1. \A i \in 1 .. Len(heap) : heap[1].score <= heap[i].score
        <4>1. Len(heap) \in 0 .. Len(heap)
          BY <1>0
        <4> QED
          BY <1>0, <4>1, RootWeakest
      <3> QED
        BY <3>1 DEF Elements, First
    <2>2. heap[1].score \in Int
      BY <1>4, <2>0
    <2>3. CASE candidate.score > heap[1].score
      <3>1. PICK room : room = WithoutRoot(heap)
        OBVIOUS
      <3>2. /\ Places(room) /\ Ordered(room, Len(room)) /\ Len(room) = Len(heap) - 1
            /\ Elements(room) = Elements(heap) \ {heap[1]}
        BY <1>0, <2>0, <3>1, RootRemoved
      <3>3. new = heapify_up(Append(room, candidate))
        <4>1. Len(room) # num_candidates /\ ~(candidate.score < min_score)
          BY <1>0, <1>3, <1>8, <3>2
        <4> QED
          BY <1>2, <1>8, <2>3, <3>1, <4>1 DEF Consider
      <3>4. \A e \in Elements(room) : e.at # candidate.at
        BY <1>4, <3>2
      <3>5. /\ Places(new) /\ Ordered(new, Len(new)) /\ Len(new) = Len(room) + 1
            /\ Elements(new) = Elements(room) \cup {candidate}
        BY <1>3, <3>2, <3>3, <3>4, Added
      <3>6. Len(new) = num_candidates
        BY <1>0, <1>8, <3>2, <3>5
      <3>7. \A e \in Elements(new) :
               e.at \in 1 .. m + 1 /\ e.score = scores[e.at] /\ e.score >= min_score
        BY <1>3, <1>4, <1>8, <3>2, <3>5
      <3>8. \A e \in Elements(new) : e.score >= heap[1].score
        BY <1>3, <2>1, <2>2, <2>3, <3>2, <3>5
      <3>9. ASSUME NEW j \in 1 .. m + 1, scores[j] >= min_score
            PROVE  \/ Seen(scores, j) \in Elements(new)
                   \/ \A e \in Elements(new) : e.score >= scores[j]
        <4>0. scores[j] \in Int /\ \A e \in Elements(new) : e.score \in Int
          BY <1>0, <1>3, <1>4, <3>2, <3>5
        <4>1. CASE j = m + 1
          BY <1>1, <3>5, <4>1
        <4>2. CASE j # m + 1
          <5>0. j \in 1 .. m
            BY <4>2
          <5>1. CASE Seen(scores, j) = heap[1]
            <6>1. heap[1].score = scores[j]
              BY <5>1 DEF Seen
            <6> QED
              BY <3>8, <6>1
          <5>2. CASE Seen(scores, j) \in Elements(heap) /\ Seen(scores, j) # heap[1]
            BY <3>2, <3>5, <5>2
          <5>3. CASE \A e \in Elements(heap) : e.score >= scores[j]
            <6>1. heap[1].score >= scores[j]
              BY <2>0, <5>3
            <6> QED
              BY <2>2, <3>8, <4>0, <6>1
          <5> QED
            BY <1>5, <3>9, <5>0, <5>1, <5>2, <5>3
        <4> QED
          BY <4>1, <4>2
      <3> QED
        BY <1>0, <1>1, <1>2, <3>5, <3>6, <3>7, <3>9 DEF Strongest
    <2>4. CASE ~(candidate.score > heap[1].score)
      <3>1. new = heap
        BY <1>2, <1>3, <1>8, <2>4 DEF Consider
      <3>2. \A e \in Elements(heap) : e.score >= candidate.score
        BY <1>3, <1>4, <2>1, <2>2, <2>4
      <3>3. ASSUME NEW j \in 1 .. m + 1, scores[j] >= min_score
            PROVE  \/ Seen(scores, j) \in Elements(heap)
                   \/ Len(heap) = num_candidates /\ \A e \in Elements(heap) : e.score >= scores[j]
        <4>1. CASE j = m + 1
          BY <1>3, <1>8, <3>2, <4>1
        <4>2. CASE j # m + 1
          <5>1. j \in 1 .. m
            BY <4>2
          <5> QED
            BY <1>5, <3>3, <5>1
        <4> QED
          BY <4>1, <4>2
      <3>4. \A e \in Elements(heap) : e.at \in 1 .. m + 1
        BY <1>4
      <3> QED
        BY <1>0, <1>1, <1>2, <1>4, <3>1, <3>3, <3>4 DEF Strongest
    <2> QED
      BY <2>3, <2>4
  <1> QED
    BY <1>0, <1>3, <1>6, <1>7, <1>8

-----------------------------------------------------------------------------
(***************************************************************************)
(* While the list is sorted: the first u are still a heap, none of them is *)
(* weaker than one of the others, and those are in order.                  *)
(***************************************************************************)
Sorting(list, heap, u) ==
    /\ Shuffled(list, heap, Len(heap)) /\ Ordered(list, u)
    /\ \A i \in 1 .. u, j \in u + 1 .. Len(heap) : list[i].score >= list[j].score
    /\ \A j \in u + 2 .. Len(heap) : list[j - 1].score >= list[j].score

LEMMA SortRound ==
    ASSUME NEW heap, Places(heap), NEW list, NEW u \in 2 .. Len(heap), Sorting(list, heap, u)
    PROVE  Sorting(heapify_down(Swap(list, 1, u), u - 1), heap, u - 1)
  <1>1. PICK n : n = Len(heap)
    OBVIOUS
  <1>2. PICK swapped : swapped = Swap(list, 1, u)
    OBVIOUS
  <1>3. PICK new : new = heapify_down(swapped, u - 1)
    OBVIOUS
  <1>0. /\ n \in Nat /\ u \in 2 .. n /\ Places(list) /\ Len(list) = n
        /\ 1 \in 1 .. n /\ u \in 1 .. n /\ n \in 0 .. n
        /\ \A i \in 1 .. n : list[i].score \in Int
    BY <1>1, PlaceFacts DEF Sorting, Shuffled
  <1>4. /\ Shuffled(swapped, list, n)
        /\ swapped[1] = list[u] /\ swapped[u] = list[1]
        /\ \A k \in 1 .. n : k # 1 /\ k # u => swapped[k] = list[k]
    BY <1>0, <1>2, SwapIs, SwapShuffles
  <1>5. Places(swapped) /\ Len(swapped) = n /\ u - 1 \in 0 .. Len(swapped)
    BY <1>0, <1>4 DEF Shuffled
  <1>6. \A i \in 2 .. u - 1 : i \div 2 # 1 => swapped[i \div 2].score <= swapped[i].score
    <2> SUFFICES ASSUME NEW i \in 2 .. u - 1, i \div 2 # 1
                 PROVE  swapped[i \div 2].score <= swapped[i].score
      OBVIOUS
    <2>1. i \div 2 \in 2 .. u - 1
      BY <1>0, Halves
    <2>2. swapped[i \div 2] = list[i \div 2] /\ swapped[i] = list[i]
      BY <1>0, <1>4, <2>1
    <2>3. list[i \div 2].score <= list[i].score
      BY <1>0 DEF Sorting, Ordered
    <2> QED
      BY <2>2, <2>3
  <1>7. Shuffled(new, swapped, u - 1) /\ Ordered(new, u - 1)
    BY <1>3, <1>5, <1>6, HeapifiedDown
  <1>8. /\ \A i \in 1 .. u - 1 : \E k \in 1 .. u : new[i] = list[k]
        /\ new[u] = list[1]
        /\ \A j \in u + 1 .. n : new[j] = list[j]
    <2>1. \A j \in u .. n : new[j] = swapped[j]
      BY <1>0, <1>5, <1>7 DEF Shuffled
    <2>2. ASSUME NEW i \in 1 .. u - 1
          PROVE  \E k \in 1 .. u : new[i] = list[k]
      <3>1. new[i] \in First(swapped, u - 1)
        BY <1>7 DEF Shuffled, First
      <3>2. PICK k \in 1 .. u - 1 : new[i] = swapped[k]
        BY <3>1 DEF First
      <3>3. CASE k = 1
        BY <1>0, <1>4, <3>2, <3>3
      <3>4. CASE k # 1
        BY <1>0, <1>4, <3>2, <3>4
      <3> QED
        BY <3>3, <3>4
    <2> QED
      BY <1>0, <1>4, <2>1, <2>2
  <1>9. Shuffled(new, heap, n)
    <2>1. First(new, n) = First(swapped, n)
      <3>1. \A i \in 1 .. n : i \in 1 .. u - 1 \/ i \in u .. n
        BY <1>0
      <3>2. \A i \in u .. n : new[i] = swapped[i] /\ i \in 1 .. n
        BY <1>0, <1>5, <1>7 DEF Shuffled
      <3>3. \A i \in 1 .. u - 1 : i \in 1 .. n
        BY <1>0
      <3>4. First(new, u - 1) = First(swapped, u - 1)
        BY <1>7 DEF Shuffled
      <3>5. \A i \in 1 .. n : new[i] \in First(swapped, n)
        <4> TAKE i \in 1 .. n
        <4>1. CASE i \in 1 .. u - 1
          <5>1. new[i] \in First(swapped, u - 1)
            BY <3>4, <4>1 DEF First
          <5> QED
            BY <3>3, <5>1 DEF First
        <4>2. CASE i \in u .. n
          BY <3>2, <4>2 DEF First
        <4> QED
          BY <3>1, <4>1, <4>2
      <3>6. \A i \in 1 .. n : swapped[i] \in First(new, n)
        <4> TAKE i \in 1 .. n
        <4>1. CASE i \in 1 .. u - 1
          <5>1. swapped[i] \in First(new, u - 1)
            BY <3>4, <4>1 DEF First
          <5> QED
            BY <3>3, <5>1 DEF First
        <4>2. CASE i \in u .. n
          BY <3>2, <4>2 DEF First
        <4> QED
          BY <3>1, <4>1, <4>2
      <3> QED
        BY <3>5, <3>6 DEF First
    <2>2. Shuffled(list, heap, n)
      BY <1>1 DEF Sorting
    <2> QED
      BY <1>0, <1>1, <1>4, <1>7, <2>1, <2>2 DEF Shuffled
  <1>10. \A i \in 1 .. u - 1, j \in u .. n : new[i].score >= new[j].score
    <2> TAKE i \in 1 .. u - 1, j \in u .. n
    <2>1. PICK k \in 1 .. u : new[i] = list[k]
      BY <1>8
    <2>2. CASE j = u
      <3>1. list[1].score <= list[k].score
        <4>1. u \in 0 .. Len(list) /\ Ordered(list, u)
          BY <1>0 DEF Sorting
        <4> QED
          BY <1>0, <4>1, RootWeakest
      <3>2. list[1].score \in Int /\ list[k].score \in Int
        BY <1>0
      <3> QED
        BY <1>8, <2>1, <2>2, <3>1, <3>2
    <2>3. CASE j # u
      <3>1. j \in u + 1 .. n
        BY <1>0, <2>3
      <3> QED
        BY <1>1, <1>8, <2>1, <3>1 DEF Sorting
    <2> QED
      BY <2>2, <2>3
  <1>11. \A j \in u + 1 .. n : new[j - 1].score >= new[j].score
    <2> TAKE j \in u + 1 .. n
    <2>1. CASE j = u + 1
      <3>1. new[j - 1] = list[1] /\ new[j] = list[j] /\ 1 \in 1 .. u
        BY <1>0, <1>8, <2>1
      <3> QED
        BY <1>1, <3>1 DEF Sorting
    <2>2. CASE j # u + 1
      <3>1. j \in u + 2 .. n /\ new[j - 1] = list[j - 1] /\ new[j] = list[j]
        BY <1>0, <1>8, <2>2
      <3> QED
        BY <1>1, <3>1 DEF Sorting
    <2> QED
      BY <2>1, <2>2
  <1>12. (u - 1) + 1 = u /\ (u - 1) + 2 = u + 1
    BY <1>0
  <1> QED
    BY <1>1, <1>2, <1>3, <1>7, <1>9, <1>10, <1>11, <1>12 DEF Sorting

LEMMA Sorted ==
    ASSUME NEW heap, Places(heap), Ordered(heap, Len(heap))
    PROVE  /\ Shuffled(SortHeap(heap), heap, Len(heap))
           /\ \A j \in 2 .. Len(heap) : SortHeap(heap)[j - 1].score >= SortHeap(heap)[j].score
  <1>1. PICK n : n = Len(heap)
    OBVIOUS
  <1>2. n \in Nat
    BY <1>1, PlaceFacts
  <1>3. CASE n <= 1
    <2>1. SortHeap(heap) = heap
      BY <1>1, <1>3 DEF SortHeap
    <2>2. \A j \in 2 .. n : FALSE
      BY <1>2, <1>3
    <2> QED
      BY <1>1, <2>1, <2>2, NotShuffled
  <1>4. CASE n > 1
    <2> DEFINE last    == n - 1
               D       == [m \in 0 .. last |-> {list \in Seq(Place) : Sorting(list, heap, n - m)}]
               Step(list, m) == heapify_down(Swap(list, 1, (n - m) + 1), n - m)
               round   == [m \in 1 .. last |-> [list \in D[m - 1] |-> Step(list, m)]]
               Sorts(f) == f = [m \in 0 .. last |-> IF m = 0 THEN heap ELSE Step(f[m - 1], m)]
               sorted  == CHOOSE f : Sorts(f)
    <2>0. last \in Nat /\ 0 \in 0 .. last /\ last \in 0 .. last
          /\ \A m \in 1 .. last : m - 1 \in 0 .. last /\ m \in 0 .. last /\ m # 0
      BY <1>2, <1>4
    <2>1. heap \in D[0]
      <3>1. /\ \A i \in 1 .. n, j \in n + 1 .. n : FALSE
            /\ \A j \in n + 2 .. n : FALSE
        BY <1>2
      <3>2. Sorting(heap, heap, n - 0)
        BY <1>1, <1>2, <3>1, NotShuffled DEF Sorting
      <3> QED
        BY <2>0, <3>2 DEF Places
    <2>2. ASSUME NEW m \in 1 .. last, NEW list \in D[m - 1]
          PROVE  Step(list, m) \in D[m]
      <3>1. Sorting(list, heap, n - (m - 1))
        BY <2>0
      <3>2. PICK u : u = n - (m - 1)
        OBVIOUS
      <3>3. u \in 2 .. Len(heap) /\ u - 1 = n - m /\ u = (n - m) + 1
        BY <1>1, <1>2, <3>2
      <3>4. Sorting(heapify_down(Swap(list, 1, u), u - 1), heap, u - 1)
        BY <3>1, <3>2, <3>3, SortRound
      <3>5. heapify_down(Swap(list, 1, u), u - 1) \in Seq(Place)
        BY <3>4 DEF Sorting, Shuffled, Places
      <3> QED
        BY <2>0, <3>3, <3>4, <3>5
    <2>3. \A m \in 1 .. last : \A list \in D[m - 1] : round[m][list] = Step(list, m)
      OBVIOUS
    <2> HIDE DEF D, round, Step, last
    <2>4. PICK f : Runs(f, last, D, heap, round)
      BY <2>0, <2>1, <2>2, <2>3, LoopRuns
    <2>5. Sorts(f)
      <3> DEFINE g == [m \in 0 .. last |-> IF m = 0 THEN heap ELSE Step(f[m - 1], m)]
      <3>1. f[0] = heap
        BY <2>4 DEF Runs
      <3>2. \A m \in 1 .. last : f[m] = round[m][f[m - 1]] /\ f[m - 1] \in D[m - 1]
        BY <2>0, <2>4 DEF Runs
      <3>3. \A m \in 1 .. last : f[m] = Step(f[m - 1], m)
        BY <2>3, <3>2
      <3>4. \A m \in 0 .. last : f[m] = g[m]
        <4>1. \A m \in 0 .. last : m = 0 \/ m \in 1 .. last
          BY <2>0
        <4> QED
          BY <2>0, <3>1, <3>3, <4>1
      <3> QED
        BY <2>4, <3>4 DEF Runs
    <2>6. Sorts(sorted)
      BY <2>5, Zenon
    <2> HIDE DEF sorted
    <2>7. sorted[0] = heap /\ \A m \in 1 .. last : sorted[m] = Step(sorted[m - 1], m)
      <3>1. sorted = [m \in 0 .. last |-> IF m = 0 THEN heap ELSE Step(sorted[m - 1], m)]
        BY <2>6
      <3> QED
        BY <2>0, <3>1
    <2>8. sorted[last] \in D[last]
      <3>1. sorted[0] \in D[0]
            /\ \A m \in 1 .. last : sorted[m - 1] \in D[m - 1] => sorted[m] \in D[m]
        BY <2>1, <2>2, <2>7
      <3> QED
        BY <2>0, <3>1, LoopEnds
    <2>9. SortHeap(heap) = sorted[last]
      BY <1>1, <1>2, <1>4 DEF SortHeap, sorted, Step, last
    <2>10. n - last = 1
      BY <1>2 DEF last
    <2>11. Sorting(SortHeap(heap), heap, 1)
      BY <2>0, <2>8, <2>9, <2>10 DEF D
    <2>12. ASSUME NEW j \in 2 .. n
           PROVE  SortHeap(heap)[j - 1].score >= SortHeap(heap)[j].score
      <3>1. CASE j = 2
        BY <1>1, <1>2, <2>11, <3>1 DEF Sorting
      <3>2. CASE j # 2
        BY <1>1, <1>2, <2>11, <3>2 DEF Sorting
      <3> QED
        BY <3>1, <3>2
    <2> QED
      BY <1>1, <2>11, <2>12 DEF Sorting
  <1> QED
    BY <1>2, <1>3, <1>4

-----------------------------------------------------------------------------
(***************************************************************************)
(* The heap after the last place.                                          *)
(***************************************************************************)
LEMMA Scanned ==
    ASSUME NEW scores \in Seq(Int), NEW num_candidates \in Nat \ {0}, NEW min_score \in Int
    PROVE  \E heap : /\ Strongest(heap, scores, num_candidates, min_score, Len(scores))
                     /\ ftx_find_candidates(scores, num_candidates, min_score) = SortHeap(heap)
  <1>1. PICK n : n = Len(scores)
    OBVIOUS
  <1> DEFINE Kept(h, m) == Strongest(h, scores, num_candidates, min_score, m)
             Step(h, m) == Consider(h, [at |-> m, score |-> scores[m]], num_candidates, min_score)
             D       == [m \in 0 .. n |-> {h \in Seq(Place) : Kept(h, m)}]
             round   == [m \in 1 .. n |-> [h \in D[m - 1] |-> Step(h, m)]]
             Scans(f) == f = [m \in 0 .. n |-> IF m = 0 THEN << >> ELSE Step(f[m - 1], m)]
             scan    == CHOOSE f : Scans(f)
  <1>0. n \in Nat /\ 0 \in 0 .. n /\ n \in 0 .. n
        /\ \A m \in 1 .. n : m - 1 \in 0 .. n /\ m \in 0 .. n /\ m # 0
    BY <1>1
  <1>2. << >> \in D[0]
    <2>1. Places(<< >>) /\ Ordered(<< >>, 0) /\ Len(<< >>) = 0 /\ << >> \in Seq(Place)
      BY DEF Places, Ordered
    <2>2. Elements(<< >>) = {} /\ \A j \in 1 .. 0 : FALSE
      BY <2>1 DEF Elements, First
    <2>3. Kept(<< >>, 0)
      BY <2>1, <2>2 DEF Strongest
    <2> QED
      BY <1>0, <2>1, <2>3
  <1>3. ASSUME NEW m \in 1 .. n, NEW h \in D[m - 1]
        PROVE  Step(h, m) \in D[m]
    <2>1. Kept(h, m - 1)
      BY <1>0
    <2>2. PICK k : k = m - 1
      OBVIOUS
    <2>3. k \in 0 .. Len(scores) - 1 /\ k + 1 = m
      BY <1>0, <1>1, <2>2
    <2>4. Strongest(Consider(h, Seen(scores, k + 1), num_candidates, min_score),
                    scores, num_candidates, min_score, k + 1)
      BY <2>1, <2>2, <2>3, Considered
    <2>5. Kept(Step(h, m), m)
      BY <2>3, <2>4 DEF Seen
    <2>6. Step(h, m) \in Seq(Place)
      BY <2>5 DEF Strongest, Places
    <2> QED
      BY <1>0, <2>5, <2>6
  <1>4. \A m \in 1 .. n : \A h \in D[m - 1] : round[m][h] = Step(h, m)
    OBVIOUS
  <1> HIDE DEF D, round, Step
  <1>5. PICK f : Runs(f, n, D, << >>, round)
    BY <1>0, <1>2, <1>3, <1>4, LoopRuns
  <1>6. Scans(f)
    <2> DEFINE g == [m \in 0 .. n |-> IF m = 0 THEN << >> ELSE Step(f[m - 1], m)]
    <2>1. f[0] = << >>
      BY <1>5 DEF Runs
    <2>2. \A m \in 1 .. n : f[m] = round[m][f[m - 1]] /\ f[m - 1] \in D[m - 1]
      BY <1>0, <1>5 DEF Runs
    <2>3. \A m \in 1 .. n : f[m] = Step(f[m - 1], m)
      BY <1>4, <2>2
    <2>4. \A m \in 0 .. n : f[m] = g[m]
      <3>1. \A m \in 0 .. n : m = 0 \/ m \in 1 .. n
        BY <1>0
      <3> QED
        BY <1>0, <2>1, <2>3, <3>1
    <2> QED
      BY <1>5, <2>4 DEF Runs
  <1>7. Scans(scan)
    BY <1>6, Zenon
  <1> HIDE DEF scan
  <1>8. scan[0] = << >> /\ \A m \in 1 .. n : scan[m] = Step(scan[m - 1], m)
    <2>1. scan = [m \in 0 .. n |-> IF m = 0 THEN << >> ELSE Step(scan[m - 1], m)]
      BY <1>7
    <2> QED
      BY <1>0, <2>1
  <1>9. scan[n] \in D[n]
    <2>1. scan[0] \in D[0] /\ \A m \in 1 .. n : scan[m - 1] \in D[m - 1] => scan[m] \in D[m]
      BY <1>2, <1>3, <1>8
    <2> QED
      BY <1>0, <2>1, LoopEnds
  <1>10. Kept(scan[n], n)
    BY <1>0, <1>9 DEF D
  <1>11. ftx_find_candidates(scores, num_candidates, min_score) = SortHeap(scan[n])
    BY <1>1 DEF ftx_find_candidates, scan, Step
  <1> QED
    BY <1>1, <1>10, <1>11

(***************************************************************************)
(* ftx_find_candidates returns the strongest places of any spectrum, each  *)
(* once and in order: the heap that is kept while the places are scanned   *)
(* always gives up its weakest candidate, whatever the order and the ties  *)
(* of the scores, and taking the root away again and again sorts it.       *)
(***************************************************************************)
LEMMA AlwaysStrongest ==
    ASSUME NEW scores \in Seq(Int), NEW num_candidates \in Nat \ {0}, NEW min_score \in Int
    PROVE  StrongestChosen(scores, num_candidates, min_score)
  <1>1. PICK heap : /\ Strongest(heap, scores, num_candidates, min_score, Len(scores))
                    /\ ftx_find_candidates(scores, num_candidates, min_score) = SortHeap(heap)
    BY Scanned
  <1>2. PICK found : found = ftx_find_candidates(scores, num_candidates, min_score)
    OBVIOUS
  <1>3. PICK n : n = Len(heap)
    OBVIOUS
  <1>4. Places(heap) /\ Ordered(heap, n) /\ n \in Nat /\ n <= num_candidates
    BY <1>1, <1>3, PlaceFacts DEF Strongest
  <1>5. /\ Places(found) /\ Len(found) = n /\ Elements(found) = Elements(heap)
        /\ \A j \in 2 .. n : found[j - 1].score >= found[j].score
    BY <1>1, <1>2, <1>3, <1>4, Sorted DEF Shuffled, Elements
  <1> DEFINE places == {found[i].at : i \in DOMAIN found}
             able   == {i \in DOMAIN scores : scores[i] >= min_score}
  <1>6. DOMAIN found = 1 .. n /\ DOMAIN scores = 1 .. Len(scores) /\ Len(scores) \in Nat
        /\ found \in Seq(Place)
        /\ \A i \in 1 .. Len(scores) : scores[i] \in Int
    BY <1>4, <1>5 DEF Places
  <1>7. \A i \in 1 .. n : /\ found[i].at \in 1 .. Len(scores)
                          /\ found[i].score = scores[found[i].at]
                          /\ found[i].score >= min_score
    <2>1. \A i \in 1 .. n : found[i] \in Elements(heap)
      BY <1>5 DEF Elements, First
    <2> QED
      BY <1>1, <2>1 DEF Strongest
  <1>8. \A j \in 1 .. Len(scores) : scores[j] >= min_score =>
            \/ \E i \in 1 .. n : found[i].at = j
            \/ n = num_candidates /\ \A i \in 1 .. n : found[i].score >= scores[j]
    <2> SUFFICES ASSUME NEW j \in 1 .. Len(scores), scores[j] >= min_score
                 PROVE  \/ \E i \in 1 .. n : found[i].at = j
                        \/ n = num_candidates /\ \A i \in 1 .. n : found[i].score >= scores[j]
      OBVIOUS
    <2>1. \/ Seen(scores, j) \in Elements(found)
          \/ n = num_candidates /\ \A e \in Elements(found) : e.score >= scores[j]
      BY <1>1, <1>3, <1>5 DEF Strongest
    <2>2. CASE Seen(scores, j) \in Elements(found)
      BY <1>5, <2>2 DEF Elements, First, Seen
    <2>3. CASE n = num_candidates /\ \A e \in Elements(found) : e.score >= scores[j]
      BY <1>5, <2>3 DEF Elements, First
    <2> QED
      BY <2>1, <2>2, <2>3
  <1>9. places \subseteq able
    BY <1>6, <1>7
  <1>10. Cardinality(places) = n /\ IsFiniteSet(able) /\ Cardinality(able) \in Nat
         /\ n <= Cardinality(able)
    <2> DEFINE where == [i \in 1 .. n |-> found[i].at]
    <2>1. where \in [1 .. n -> places]
      BY <1>6
    <2>2. \A i, j \in 1 .. n : where[i] = where[j] => i = j
      BY <1>5 DEF Places
    <2>3. \A p \in places : \E i \in 1 .. n : where[i] = p
      BY <1>6
    <2>4. IsFiniteSet(1 .. n) /\ Cardinality(1 .. n) = n
      BY <1>4, FS_Interval
    <2>5. IsFiniteSet(1 .. Len(scores)) /\ able \subseteq 1 .. Len(scores)
      BY <1>6, FS_Interval
    <2> HIDE DEF places, able, where
    <2>6. where \in Bijection(1 .. n, places)
      BY <2>1, <2>2, <2>3 DEF Bijection, Injection, Surjection, IsInjective
    <2>7. Cardinality(places) = n
      BY <1>4, <2>6, FS_CountingElements DEF ExistsBijection
    <2>8. IsFiniteSet(able)
      BY <2>5, FS_Subset
    <2>9. Cardinality(able) \in Nat /\ Cardinality(places) <= Cardinality(able)
      BY <1>9, <2>8, FS_CardinalityType, FS_Subset
    <2> QED
      BY <2>7, <2>8, <2>9
  <1>11. n = IF Cardinality(able) < num_candidates THEN Cardinality(able) ELSE num_candidates
    <2>1. CASE n = num_candidates
      BY <1>10, <2>1
    <2>2. CASE n # num_candidates
      <3>1. able \subseteq places
        BY <1>6, <1>8, <2>2
      <3>2. able = places
        BY <1>9, <3>1
      <3>3. Cardinality(able) = n
        BY <1>10, <3>2
      <3> QED
        BY <1>4, <2>2, <3>3
    <2> QED
      BY <2>1, <2>2
  <1>12. \A i \in places, j \in able \ places : scores[i] >= scores[j]
    <2> TAKE i \in places, j \in able \ places
    <2>1. PICK k \in 1 .. n : i = found[k].at
      BY <1>6
    <2>2. \A l \in 1 .. n : found[l].at # j
      BY <1>6
    <2>3. found[k].score >= scores[j]
      BY <1>6, <1>8, <2>2
    <2> QED
      BY <1>7, <2>1, <2>3
  <1> QED
    BY <1>2, <1>5, <1>6, <1>7, <1>9, <1>10, <1>11, <1>12 DEF StrongestChosen

(***************************************************************************)
(* The run's property: the list of candidates is what sorting all places   *)
(* of the spectrum would give.                                             *)
(***************************************************************************)
THEOREM CandidatesChosen ==
    ASSUME \A s \in searched : /\ s.scores \in Seq(Int) /\ s.min_score \in Int
                               /\ s.num_candidates \in Nat \ {0}
    PROVE  CandidatesStrongest
  BY AlwaysStrongest, Zenon DEF CandidatesStrongest

=============================================================================
