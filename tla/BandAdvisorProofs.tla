------------------------- MODULE BandAdvisorProofs -------------------------
(***************************************************************************)
(* Adaptive hopping. First the schedule of bands.c for every dwell, and    *)
(* for ranked bands and left out bands in any number; then the advisor and *)
(* the main loop for all timings, plans and answers that BandAdvisor       *)
(* assumes: the model checker sees those of its instance only.             *)
(***************************************************************************)
EXTENDS BandAdvisor, Configuration, FiniteSetTheorems, NaturalsInduction, TLAPS

(***************************************************************************)
(* The first dwell after slot that is spent on a ranked band.              *)
(***************************************************************************)
NextListening(slot, excluded) ==
    IF Len(excluded) # 0 /\ slot % 6 = 4 THEN slot + 2 ELSE slot + 1

(***************************************************************************)
(* NextListening is what its name says: it is no exploring dwell, and only *)
(* an exploring dwell lies between.                                        *)
(***************************************************************************)
LEMMA ListeningDwells ==
    ASSUME NEW slot \in Nat, NEW excluded, Len(excluded) \in Nat,
           ~IsExploration(slot, excluded)
    PROVE  LET next == NextListening(slot, excluded)
           IN  /\ next \in Nat /\ next > slot
               /\ ~IsExploration(next, excluded)
               /\ \A s \in Nat : slot < s /\ s < next => IsExploration(s, excluded)
<1>1. slot % 6 \in 0 .. 5 /\ (slot + 1) % 6 \in 0 .. 5 /\ (slot + 2) % 6 \in 0 .. 5
  OBVIOUS
<1>2. /\ slot % 6 < 5 => (slot + 1) % 6 = (slot % 6) + 1
      /\ slot % 6 = 5 => (slot + 1) % 6 = 0
      /\ slot % 6 = 4 => (slot + 2) % 6 = 0
  OBVIOUS
<1>3. CASE Len(excluded) = 0
  BY <1>3 DEF NextListening, IsExploration
<1>4. CASE Len(excluded) # 0
  <2>1. slot % 6 # 5
    BY <1>4 DEF IsExploration
  <2>2. CASE slot % 6 = 4
    <3>1. NextListening(slot, excluded) = slot + 2
      BY <1>4, <2>2 DEF NextListening
    <3>2. \A s \in Nat : slot < s /\ s < slot + 2 => s = slot + 1
      OBVIOUS
    <3> QED
      BY <1>2, <1>4, <2>2, <3>1, <3>2 DEF IsExploration
  <2>3. CASE slot % 6 # 4
    <3>1. NextListening(slot, excluded) = slot + 1
      BY <2>3 DEF NextListening
    <3>2. (slot + 1) % 6 # 5
      BY <1>1, <1>2, <2>1, <2>3
    <3> QED
      BY <3>1, <3>2 DEF IsExploration
  <2> QED
    BY <2>2, <2>3
<1> QED
  BY <1>3, <1>4

(***************************************************************************)
(* The count of dwells without the exploring ones advances by one from     *)
(* each listening dwell to the next.                                       *)
(***************************************************************************)
LEMMA RankedSlotAdvances ==
    ASSUME NEW slot \in Nat, NEW excluded, Len(excluded) \in Nat,
           ~IsExploration(slot, excluded)
    PROVE  /\ ranked_slot(slot, excluded) \in Nat
           /\ ranked_slot(NextListening(slot, excluded), excluded)
                = ranked_slot(slot, excluded) + 1
<1>1. slot \div 6 \in Nat /\ slot \div 6 <= slot /\ slot % 6 \in 0 .. 5
  OBVIOUS
<1>2. /\ slot % 6 < 5 => (slot + 1) \div 6 = slot \div 6
      /\ slot % 6 = 4 => (slot + 2) \div 6 = slot \div 6 + 1
  OBVIOUS
<1>3. CASE Len(excluded) = 0
  BY <1>3 DEF NextListening, ranked_slot
<1>4. CASE Len(excluded) # 0
  <2>1. slot % 6 # 5
    BY <1>4 DEF IsExploration
  <2>2. ranked_slot(slot, excluded) = slot - (slot \div 6)
    BY <1>4 DEF ranked_slot
  <2>3. CASE slot % 6 = 4
    BY <1>1, <1>2, <1>4, <2>2, <2>3 DEF NextListening, ranked_slot
  <2>4. CASE slot % 6 # 4
    BY <1>1, <1>2, <1>4, <2>1, <2>2, <2>4 DEF NextListening, ranked_slot
  <2> QED
    BY <2>3, <2>4
<1> QED
  BY <1>3, <1>4

(***************************************************************************)
(* A number that is k more than a multiple of n leaves the remainder k, so *)
(* that counting on by one moves on by one place in a ring of n places.    *)
(***************************************************************************)
LEMMA RemainderIs ==
    ASSUME NEW q \in Int, NEW n \in Nat, n > 0,
           NEW k \in Int, 0 <= k, k < n
    PROVE  (n * q + k) % n = k
  BY Z3

LEMMA NextInRing ==
    ASSUME NEW r \in Nat, NEW n \in Nat, n > 0
    PROVE  /\ (r % n) + 1 \in 1 .. n
           /\ ((r + 1) % n) = (((r % n) + 1) % n)
<1> DEFINE m == r % n
           q == r \div n
<1>1. m \in 0 .. (n - 1) /\ q \in Int /\ r = n * q + m
  BY Z3
<1> HIDE DEF m, q
<1>2. m + 1 \in 1 .. n
  BY <1>1
<1>3. CASE m + 1 < n
  <2>1. r + 1 = n * q + (m + 1)
    BY <1>1
  <2>2. (n * q + (m + 1)) % n = m + 1 /\ (n * 0 + (m + 1)) % n = m + 1
    BY <1>1, <1>3, RemainderIs
  <2> QED
    BY <1>1, <1>2, <2>1, <2>2 DEF m
<1>4. CASE m + 1 = n
  <2>1. r + 1 = n * (q + 1) + 0
    BY <1>1, <1>4, Z3
  <2>2. (n * (q + 1) + 0) % n = 0
    BY <1>1, RemainderIs
  <2>3. (n * 1 + 0) % n = 0 /\ n * 1 + 0 = n
    BY RemainderIs
  <2> QED
    BY <1>4, <1>2, <2>1, <2>2, <2>3 DEF m
<1> QED
  BY <1>1, <1>3, <1>4

-----------------------------------------------------------------------------
(***************************************************************************)
(* A band has one name and one number in the database, so that comparing   *)
(* either compares bands.                                                  *)
(***************************************************************************)
OneBandEach(table) ==
    \A i, j \in DOMAIN table :
        (\/ table[i][2].name = table[j][2].name
         \/ table[i][2].database_band = table[j][2].database_band)
        => table[i][2] = table[j][2]

LEMMA TablesConsistent ==
    OneBandEach(band_frequencies) /\ OneBandEach(ft8_band_frequencies)
  BY DEF OneBandEach, band_frequencies, ft8_band_frequencies, Band

LEMMA TablesNumbered ==
    /\ \E n \in Nat : DOMAIN band_frequencies = 1 .. n
    /\ \E n \in Nat : DOMAIN ft8_band_frequencies = 1 .. n
  BY DEF band_frequencies, ft8_band_frequencies

(***************************************************************************)
(* A set of numbers has a least one.                                       *)
(***************************************************************************)
LEMMA LeastNatural ==
    ASSUME NEW S \in SUBSET Nat, S # {}
    PROVE  \E n \in S : \A m \in S : n <= m
<1>1. \E R : IsWellFoundedOn(R, Nat) /\ \A x, y \in Nat : y < x => <<y, x>> \in R
  <2>1. IsWellFoundedOn(OpToRel(<, Nat), Nat)
    BY NatLessThanWellFounded
  <2>2. \A x, y \in Nat : y < x => <<y, x>> \in OpToRel(<, Nat)
    BY DEF OpToRel
  <2> QED
    BY <2>1, <2>2, Zenon
<1>2. PICK R : IsWellFoundedOn(R, Nat) /\ \A x, y \in Nat : y < x => <<y, x>> \in R
  BY <1>1
<1>3. PICK x \in S : \A y \in S : ~(<<y, x>> \in R)
  BY <1>2, WFMin
<1>4. \A y \in S : ~(y < x)
  BY <1>2, <1>3, Zenon
<1> QED
  BY <1>4

(***************************************************************************)
(* A name that is found is a row's.                                        *)
(***************************************************************************)
LEMMA FoundInTable ==
    ASSUME NEW table, NEW n \in Nat, DOMAIN table = 1 .. n, NEW name, FindIn(table, name) # NoBand
    PROVE  \E i \in DOMAIN table : FindIn(table, name) = table[i][2]
<1> DEFINE S == {i \in DOMAIN table : table[i][1] = name}
<1>1. S # {}
  BY Zenon DEF FindIn
<1>2. PICK k \in S : \A m \in S : k <= m
  <2>1. S \in SUBSET Nat
    OBVIOUS
  <2> HIDE DEF S
  <2> QED
    BY <1>1, <2>1, LeastNatural
<1>3. k \in DOMAIN table /\ table[k][1] = name /\ \A j \in 1 .. (k - 1) : table[j][1] # name
  <2>1. ASSUME NEW j \in 1 .. (k - 1), table[j][1] = name PROVE FALSE
    <3>1. j \in DOMAIN table
      OBVIOUS
    <3> QED
      BY <1>2, <2>1, <3>1
  <2> QED
    BY <1>2, <2>1
<1> QED
  BY <1>3, Zenon DEF FindIn

(***************************************************************************)
(* An accepted list of bands: each is in it once.                          *)
(***************************************************************************)
IsPlan(plan, n) ==
    /\ n \in Nat /\ n > 0 /\ DOMAIN plan = 1 .. n /\ Len(plan) = n
    /\ \A i, j \in 1 .. n : plan[i].database_band = plan[j].database_band => i = j

LEMMA ParsedPlan ==
    ASSUME NEW fields, NEW n \in Nat, Len(fields) = n, DOMAIN fields = 1 .. n, NEW ft8,
           NEW plan, plan = hop_plan_parse(fields, ft8), plan # << >>
    PROVE  IsPlan(plan, n)
<1> DEFINE Of(name) == IF ft8 THEN find_ft8_band(name) ELSE find_band(name)
<1>1. \E table : /\ OneBandEach(table) /\ \E m \in Nat : DOMAIN table = 1 .. m
                 /\ \A name : Of(name) = FindIn(table, name)
  <2>1. CASE ft8
    BY <2>1, TablesConsistent, TablesNumbered, Zenon DEF find_ft8_band
  <2>2. CASE ~ft8
    BY <2>2, TablesConsistent, TablesNumbered, Zenon DEF find_band
  <2> QED
    BY <2>1, <2>2
<1>2. PICK table : /\ OneBandEach(table) /\ \E m \in Nat : DOMAIN table = 1 .. m
                   /\ \A name : Of(name) = FindIn(table, name)
  BY <1>1
<1> HIDE DEF Of
<1> DEFINE bands == [i \in 1 .. n |-> Of(fields[i])]
<1>3. /\ plan = bands /\ Len(bands) \in 2 .. WSPR_MAX_HOP_BANDS
      /\ \A i \in 1 .. n : Of(fields[i]) # NoBand
      /\ \A i, j \in 1 .. n : Of(fields[i]).name = Of(fields[j]).name => i = j
  BY DEF hop_plan_parse, Of
<1>4. Len(bands) = n
  OBVIOUS
<1>5. n > 0
  BY <1>3, <1>4 DEF WSPR_MAX_HOP_BANDS
<1>6. ASSUME NEW i \in 1 .. n, NEW j \in 1 .. n,
             Of(fields[i]).database_band = Of(fields[j]).database_band
      PROVE  i = j
  <2>1. ASSUME NEW k \in 1 .. n
        PROVE  \E r \in DOMAIN table : Of(fields[k]) = table[r][2]
    <3>1. PICK m \in Nat : DOMAIN table = 1 .. m
      BY <1>2
    <3>2. PICK name : name = fields[k]
      OBVIOUS
    <3>3. FindIn(table, name) # NoBand /\ Of(name) = FindIn(table, name)
      BY <1>2, <1>3, <3>2
    <3>4. \E r \in DOMAIN table : FindIn(table, name) = table[r][2]
      BY <3>1, <3>3, FoundInTable, Zenon
    <3> QED
      BY <3>2, <3>3, <3>4
  <2>2. PICK r \in DOMAIN table : Of(fields[i]) = table[r][2]
    BY <2>1, Zenon
  <2>3. PICK s \in DOMAIN table : Of(fields[j]) = table[s][2]
    BY <2>1, Zenon
  <2>4. table[r][2] = table[s][2]
    BY <1>2, <1>6, <2>2, <2>3, Zenon DEF OneBandEach
  <2> QED
    BY <1>3, <2>2, <2>3, <2>4, Zenon
<1> QED
  BY <1>3, <1>4, <1>5, <1>6 DEF IsPlan

-----------------------------------------------------------------------------
(***************************************************************************)
(* Counting a set by a list of its elements.                               *)
(***************************************************************************)
LEMMA Counted ==
    ASSUME NEW n \in Nat, NEW S, NEW f, f \in [1 .. n -> S],
           \A p, q \in 1 .. n : f[p] = f[q] => p = q,
           \A s \in S : \E q \in 1 .. n : f[q] = s
    PROVE  IsFiniteSet(S) /\ Cardinality(S) = n
<1>1. f \in Bijection(1 .. n, S)
  BY DEF Bijection, Injection, IsInjective, Surjection
<1>2. ExistsBijection(1 .. n, S)
  BY <1>1 DEF ExistsBijection
<1> QED
  BY <1>2, FS_NatBijection, FS_CountingElements

(***************************************************************************)
(* Each number from 0 is the number of smaller elements of one element.    *)
(***************************************************************************)
Ranked(S, c) ==
    /\ IsFiniteSet(S) /\ Cardinality(S) = c /\ c \in Nat
    /\ \A i, j \in S : Cardinality(Below(S, i)) = Cardinality(Below(S, j)) => i = j
    /\ \A k \in 1 .. c : \E i \in S : Cardinality(Below(S, i)) = k - 1
    /\ \A i \in S : Cardinality(Below(S, i)) \in 0 .. c - 1

LEMMA Ranks ==
    ASSUME NEW n \in Nat, NEW S \in SUBSET (1 .. n)
    PROVE  \E c \in Nat : Ranked(S, c)
<1>1. IsFiniteSet(S) /\ Cardinality(S) \in Nat
  <2>1. 1 \in Int /\ n \in Int
    OBVIOUS
  <2>2. IsFiniteSet(1 .. n)
    BY <2>1, FS_Interval
  <2> QED
    BY <2>2, FS_Subset, FS_CardinalityType
<1>2. PICK c \in Nat : c = Cardinality(S)
  BY <1>1
<1> DEFINE rank == [i \in S |-> Cardinality(Below(S, i)) + 1]
<1>3. ASSUME NEW i \in S
      PROVE  IsFiniteSet(Below(S, i)) /\ Cardinality(Below(S, i)) \in 0 .. c - 1
  <2>1. Below(S, i) \in SUBSET S /\ i \notin Below(S, i)
    BY DEF Below
  <2>2. /\ IsFiniteSet(Below(S, i)) /\ Cardinality(Below(S, i)) <= Cardinality(S)
        /\ Cardinality(Below(S, i)) # Cardinality(S)
    BY <1>1, <2>1, FS_Subset
  <2>3. Cardinality(Below(S, i)) \in Nat
    BY <2>2, FS_CardinalityType
  <2> QED
    BY <1>2, <2>2, <2>3
<1>4. ASSUME NEW i \in S, NEW j \in S, i < j
      PROVE  Cardinality(Below(S, i)) # Cardinality(Below(S, j))
  <2>1. Below(S, i) \in SUBSET Below(S, j) /\ i \in Below(S, j) /\ i \notin Below(S, i)
    <3>1. \A l \in S : l \in Int
      OBVIOUS
    <3>2. \A l \in S : l < i => l < j
      BY <1>4, <3>1
    <3>3. ~(i < i)
      BY <3>1
    <3> QED
      BY <1>4, <3>2, <3>3, Zenon DEF Below
  <2>2. IsFiniteSet(Below(S, j)) /\ Below(S, i) # Below(S, j)
    BY <1>3, <2>1
  <2> QED
    BY <2>1, <2>2, FS_Subset
<1>5. \A i, j \in S : Cardinality(Below(S, i)) = Cardinality(Below(S, j)) => i = j
  <2>1. \A i, j \in S : i = j \/ i < j \/ j < i
    OBVIOUS
  <2> QED
    BY <1>4, <2>1
<1>6. rank \in [S -> 1 .. c] /\ \A i \in S : rank[i] = Cardinality(Below(S, i)) + 1
  <2>1. \A i \in S : Cardinality(Below(S, i)) + 1 \in 1 .. c
    BY <1>2, <1>3
  <2> QED
    BY <2>1
<1>7. \A i, j \in S : rank[i] = rank[j] => i = j
  <2>1. \A i \in S : Cardinality(Below(S, i)) \in Int
    BY <1>3
  <2> QED
    BY <1>5, <1>6, <2>1
<1> HIDE DEF rank
<1>8. rank \in Injection(S, 1 .. c)
  BY <1>6, <1>7 DEF Injection, IsInjective
<1>9. IsFiniteSet(1 .. c) /\ Cardinality(1 .. c) = c
  <2>1. 1 \in Int /\ c \in Int
    OBVIOUS
  <2>2. IsFiniteSet(1 .. c) /\ Cardinality(1 .. c) = IF 1 > c THEN 0 ELSE c - 1 + 1
    BY <2>1, FS_Interval
  <2> QED
    BY <2>2
<1>10. rank \in Surjection(S, 1 .. c)
  BY <1>2, <1>8, <1>9, FS_Injection
<1>11. ASSUME NEW k \in 1 .. c
       PROVE  \E i \in S : Cardinality(Below(S, i)) = k - 1
  <2>1. PICK i \in S : rank[i] = k
    BY <1>10 DEF Surjection
  <2> QED
    BY <1>3, <1>6, <2>1
<1> QED
  BY <1>1, <1>2, <1>3, <1>5, <1>11, Zenon DEF Ranked

(***************************************************************************)
(* The bands left out are listed once each.                                *)
(***************************************************************************)
Lists(p, c, S) ==
    /\ p \in [1 .. c -> S]
    /\ \A k, l \in 1 .. c : p[k] = p[l] => k = l
    /\ \A i \in S : \E k \in 1 .. c : p[k] = i

ListedAs(x, c, p, S, candidates) ==
    /\ c \in Nat /\ c = Cardinality(S) /\ IsFiniteSet(S) /\ Lists(p, c, S)
    /\ x = [k \in 1 .. c |-> candidates[p[k]]]

LEMMA ExcludedListed ==
    ASSUME NEW n \in Nat, NEW candidates, DOMAIN candidates = 1 .. n, NEW ranked,
           NEW S, S = LeftOut(ranked, candidates)
    PROVE  \E c, p : ListedAs(Excluded(ranked, candidates), c, p, S, candidates)
<1>1. S \in SUBSET (1 .. n)
  BY DEF LeftOut
<1>2. PICK c \in Nat : Ranked(S, c)
  BY <1>1, Ranks, Zenon
<1> DEFINE nth(k) == Nth(S, k)
           p == [k \in 1 .. c |-> nth(k)]
<1>3. ASSUME NEW k \in 1 .. c
      PROVE  nth(k) \in S /\ Cardinality(Below(S, nth(k))) = k - 1
  <2>1. \E i \in S : Cardinality(Below(S, i)) = k - 1
    BY <1>2, Zenon DEF Ranked
  <2> QED
    BY <2>1, Zenon DEF Nth
<1>4. Excluded(ranked, candidates) = [k \in 1 .. c |-> candidates[nth(k)]]
  <2>1. Cardinality(S) = c
    BY <1>2, Zenon DEF Ranked
  <2> QED
    BY <2>1 DEF Excluded
<1> HIDE DEF nth
<1>5. \A k \in 1 .. c : p[k] = nth(k)
  OBVIOUS
<1>6. p \in [1 .. c -> S]
  BY <1>3
<1>7. ASSUME NEW k \in 1 .. c, NEW l \in 1 .. c, p[k] = p[l]
      PROVE  k = l
  <2>1. Cardinality(Below(S, p[k])) = k - 1 /\ Cardinality(Below(S, p[l])) = l - 1
    BY <1>3, <1>5
  <2>2. k - 1 = l - 1
    BY <1>7, <2>1, Zenon
  <2> QED
    BY <2>2
<1>8. ASSUME NEW i \in S
      PROVE  \E k \in 1 .. c : p[k] = i
  <2>1. PICK m \in 0 .. c - 1 : m = Cardinality(Below(S, i))
    BY <1>2, Zenon DEF Ranked
  <2>2. PICK k \in 1 .. c : k - 1 = m
    <3>1. m + 1 \in 1 .. c /\ (m + 1) - 1 = m
      OBVIOUS
    <3> QED
      BY <3>1
  <2>3. p[k] \in S /\ Cardinality(Below(S, p[k])) = k - 1
    BY <1>3, <1>5, Zenon
  <2> QED
    BY <1>2, <2>1, <2>2, <2>3, Zenon DEF Ranked
<1>9. Excluded(ranked, candidates) = [k \in 1 .. c |-> candidates[p[k]]]
  BY <1>4, <1>5
<1>10. IsFiniteSet(S) /\ c = Cardinality(S) /\ c \in Nat
  BY <1>2, Zenon DEF Ranked
<1> HIDE DEF p
<1>11. Lists(p, c, S)
  BY <1>6, <1>7, <1>8 DEF Lists
<1> QED
  BY <1>9, <1>10, <1>11 DEF ListedAs

LEMMA ExcludedLength ==
    ASSUME NEW B, NEW candidates \in Seq(B), NEW ranked
    PROVE  /\ Len(Excluded(ranked, candidates)) \in Nat
           /\ candidates # << >> => Len(candidates) # 0
<1>1. PICK n \in Nat : n = Len(candidates)
  OBVIOUS
<1>2. DOMAIN candidates = 1 .. n /\ (candidates # << >> => n # 0)
  BY <1>1
<1>3. PICK S : S = LeftOut(ranked, candidates)
  OBVIOUS
<1>4. PICK c, p : ListedAs(Excluded(ranked, candidates), c, p, S, candidates)
  BY <1>2, <1>3, ExcludedListed
<1>5. c \in Nat /\ Excluded(ranked, candidates) = [k \in 1 .. c |-> candidates[p[k]]]
  BY <1>4, Zenon DEF ListedAs
<1>6. Len(Excluded(ranked, candidates)) = c
  BY <1>5
<1> QED
  BY <1>1, <1>2, <1>5, <1>6

(***************************************************************************)
(* bands.c:270, "Removing one slot per hour keeps the ranked rotation      *)
(* continuous": a listening dwell and the next listening dwell, whether or *)
(* not an exploring one lies between them, are spent on a ranked band and  *)
(* on the one after it in the ranking, so no exploring dwell makes the     *)
(* receiver skip a ranked band or repeat one. The ranking may have any     *)
(* number of bands, and any number of candidates may be left out of it.    *)
(***************************************************************************)
THEOREM RotationContinuous ==
    ASSUME NEW ranked, Len(ranked) \in Nat \ {0},
           NEW B, NEW candidates \in Seq(B), candidates # << >>, NEW slot \in Nat,
           ~IsExploration(slot, Excluded(ranked, candidates))
    PROVE  \E i \in 1 .. Len(ranked) :
              /\ wspr_adaptive_hop_band_at_dwell(ranked, candidates, slot)
                   = ranked[i]
              /\ wspr_adaptive_hop_band_at_dwell(ranked, candidates,
                     NextListening(slot, Excluded(ranked, candidates)))
                   = ranked[(i % Len(ranked)) + 1]
<1> DEFINE excluded == Excluded(ranked, candidates)
           next     == NextListening(slot, excluded)
           n        == Len(ranked)
           r        == ranked_slot(slot, excluded)
<1>0. Len(excluded) \in Nat /\ Len(candidates) # 0
  BY ExcludedLength
<1>1. /\ r \in Nat
      /\ ranked_slot(next, excluded) = r + 1
      /\ ~IsExploration(next, excluded)
  BY <1>0, RankedSlotAdvances, ListeningDwells
<1>2. /\ wspr_adaptive_hop_band_at_dwell(ranked, candidates, slot)
           = ranked[(r % n) + 1]
      /\ wspr_adaptive_hop_band_at_dwell(ranked, candidates, next)
           = ranked[((r + 1) % n) + 1]
  <2>1. Len(ranked) # 0
    OBVIOUS
  <2>2. ~IsExploration(slot, excluded) /\ ~IsExploration(next, excluded)
    BY <1>1
  <2>3. ranked_slot(next, excluded) = r + 1
    BY <1>1
  <2> QED
    BY <1>0, <2>1, <2>2, <2>3, Zenon DEF wspr_adaptive_hop_band_at_dwell
<1>3. /\ (r % n) + 1 \in 1 .. n
      /\ (r + 1) % n = ((r % n) + 1) % n
  <2>1. r \in Nat /\ n \in Nat /\ n > 0
    BY <1>0, <1>1
  <2> HIDE DEF r, n
  <2> QED
    BY <2>1, NextInRing, Zenon
<1> QED
  BY <1>2, <1>3

(***************************************************************************)
(* airspyhf_wsprd.c:1354 promises "one rotating band every 6 hops": every  *)
(* sixth dwell is spent on a band the advice leaves out, and the exploring *)
(* dwell after it on the next such band of the plan. Every band left out   *)
(* is therefore explored in its turn, however many there are.              *)
(***************************************************************************)
THEOREM ExplorationRotates ==
    ASSUME NEW ranked, Len(ranked) \in Nat \ {0},
           NEW B, NEW candidates \in Seq(B), candidates # << >>, NEW slot \in Nat,
           Len(Excluded(ranked, candidates)) # 0,
           (slot % 6) = 5
    PROVE  \E i \in 1 .. Len(Excluded(ranked, candidates)) :
              /\ wspr_adaptive_hop_band_at_dwell(ranked, candidates, slot)
                   = Excluded(ranked, candidates)[i]
              /\ wspr_adaptive_hop_band_at_dwell(ranked, candidates, slot + 6)
                   = Excluded(ranked, candidates)
                        [(i % Len(Excluded(ranked, candidates))) + 1]
<1> DEFINE excluded == Excluded(ranked, candidates)
           n        == Len(excluded)
           r        == slot \div 6
<1>0. Len(excluded) \in Nat \ {0} /\ Len(candidates) # 0
  BY ExcludedLength
<1>1. r \in Nat /\ (slot + 6) \div 6 = r + 1 /\ ((slot + 6) % 6) = 5
  OBVIOUS
<1>2. /\ wspr_adaptive_hop_band_at_dwell(ranked, candidates, slot)
           = excluded[(r % n) + 1]
      /\ wspr_adaptive_hop_band_at_dwell(ranked, candidates, slot + 6)
           = excluded[((r + 1) % n) + 1]
  <2>1. Len(ranked) # 0 /\ n # 0
    BY <1>0
  <2>2. (slot % 6) = 5 /\ ((slot + 6) % 6) = 5 /\ (slot + 6) \div 6 = r + 1
    BY <1>1
  <2> QED
    BY <1>0, <2>1, <2>2, Zenon
       DEF wspr_adaptive_hop_band_at_dwell, IsExploration, explored_index
<1>3. /\ (r % n) + 1 \in 1 .. n
      /\ (r + 1) % n = ((r % n) + 1) % n
  <2>1. r \in Nat /\ n \in Nat /\ n > 0
    BY <1>0, <1>1
  <2> HIDE DEF r, n
  <2> QED
    BY <2>1, NextInRing, Zenon
<1> QED
  BY <1>2, <1>3
-----------------------------------------------------------------------------
(***************************************************************************)
(* A ranking of bands of the plan, and what it leaves out, share the plan. *)
(***************************************************************************)
IsRanking(ranked, r, plan, n) ==
    /\ r \in Nat /\ DOMAIN ranked = 1 .. r /\ Len(ranked) = r /\ (r > 0 \/ ranked = << >>)
    /\ \A j \in 1 .. r : \E i \in 1 .. n : ranked[j] = plan[i]
    /\ \A j, k \in 1 .. r : ranked[j].database_band = ranked[k].database_band => j = k

Shared(plan, n, ranked, r, x, c) ==
    /\ c \in Nat /\ c = n - r /\ DOMAIN x = 1 .. c /\ Len(x) = c
    /\ \A k \in 1 .. c : \E i \in 1 .. n :
          x[k] = plan[i] /\ ~plan_contains_database_band(ranked, plan[i].database_band)
    /\ \A k, l \in 1 .. c : x[k] = x[l] => k = l
    /\ \A i \in 1 .. n :
          \/ /\ plan_contains_database_band(ranked, plan[i].database_band)
             /\ \E j \in 1 .. r : plan[i] = ranked[j]
          \/ /\ ~plan_contains_database_band(ranked, plan[i].database_band)
             /\ \E k \in 1 .. c : plan[i] = x[k]

LEMMA PlanShared ==
    ASSUME NEW n, NEW plan, IsPlan(plan, n), NEW r, NEW ranked, IsRanking(ranked, r, plan, n),
           NEW x, x = Excluded(ranked, plan)
    PROVE  \E c : Shared(plan, n, ranked, r, x, c)
<1>1. /\ n \in Nat /\ n > 0 /\ DOMAIN plan = 1 .. n
      /\ \A i, j \in 1 .. n : plan[i].database_band = plan[j].database_band => i = j
  BY Zenon DEF IsPlan
<1>2. /\ r \in Nat /\ DOMAIN ranked = 1 .. r
      /\ \A j \in 1 .. r : \E i \in 1 .. n : ranked[j] = plan[i]
      /\ \A j, k \in 1 .. r : ranked[j].database_band = ranked[k].database_band => j = k
  BY Zenon DEF IsRanking
<1> DEFINE In(i) == plan_contains_database_band(ranked, plan[i].database_band)
           L == LeftOut(ranked, plan)
           Kept == {i \in 1 .. n : In(i)}
           f == [j \in 1 .. r |-> CHOOSE i \in 1 .. n : ranked[j] = plan[i]]
<1>3. \A i \in 1 .. n : In(i) <=> \E j \in 1 .. r : ranked[j] = plan[i]
  <2>1. ASSUME NEW i \in 1 .. n, NEW j \in 1 .. r,
               ranked[j].database_band = plan[i].database_band
        PROVE  ranked[j] = plan[i]
    <3>1. PICK h \in 1 .. n : ranked[j] = plan[h]
      BY <1>2
    <3>2. plan[h].database_band = plan[i].database_band
      BY <2>1, <3>1
    <3> QED
      BY <1>1, <3>1, <3>2
  <2> QED
    BY <1>2, <2>1, Zenon DEF plan_contains_database_band
<1>4. L \in SUBSET (1 .. n) /\ \A i \in 1 .. n : i \in L <=> ~In(i)
  BY <1>1, Zenon DEF LeftOut
<1>5. PICK c, p :
         /\ c \in Nat /\ c = Cardinality(L) /\ IsFiniteSet(L) /\ Lists(p, c, L)
         /\ x = [k \in 1 .. c |-> plan[p[k]]]
  <2>1. PICK S : S = L
    OBVIOUS
  <2>2. PICK c, p : ListedAs(x, c, p, S, plan)
    BY <1>1, <2>1, ExcludedListed, Zenon
  <2> QED
    BY <2>1, <2>2 DEF ListedAs
<1>6. Kept \in SUBSET (1 .. n) /\ Kept = (1 .. n) \ L /\ (1 .. n) \cap L = L
  BY <1>4
<1> HIDE DEF In, L
<1>7. ASSUME NEW j \in 1 .. r
      PROVE  f[j] \in 1 .. n /\ ranked[j] = plan[f[j]] /\ f[j] \in Kept
  <2>1. \E i \in 1 .. n : ranked[j] = plan[i]
    BY <1>2
  <2>2. f[j] \in 1 .. n /\ ranked[j] = plan[f[j]]
    BY <2>1, Zenon
  <2> QED
    BY <1>3, <2>2, Zenon
<1> HIDE DEF Kept
<1>8. f \in [1 .. r -> Kept]
  BY <1>7, Zenon
<1> HIDE DEF f
<1>9. ASSUME NEW j \in 1 .. r, NEW k \in 1 .. r, f[j] = f[k]
      PROVE  j = k
  <2>1. ranked[j] = ranked[k]
    BY <1>7, <1>9, Zenon
  <2> QED
    BY <1>2, <2>1, Zenon
<1>10. ASSUME NEW i \in Kept
       PROVE  \E j \in 1 .. r : f[j] = i
  <2>1. i \in 1 .. n /\ In(i)
    BY DEF Kept
  <2>2. PICK j \in 1 .. r : ranked[j] = plan[i]
    BY <1>3, <2>1, Zenon
  <2>3. f[j] \in 1 .. n /\ plan[f[j]] = plan[i]
    BY <1>7, <2>2, Zenon
  <2>4. f[j] = i
    BY <1>1, <2>1, <2>3, Zenon
  <2> QED
    BY <2>4
<1>11. Cardinality(Kept) = r
  BY <1>2, <1>8, <1>9, <1>10, Counted
<1>12. c = n - r
  <2>1. IsFiniteSet(1 .. n) /\ Cardinality(1 .. n) = n
    <3>1. 1 \in Int /\ n \in Int
      BY <1>1
    <3>2. IsFiniteSet(1 .. n) /\ Cardinality(1 .. n) = IF 1 > n THEN 0 ELSE n - 1 + 1
      BY <3>1, FS_Interval
    <3> QED
      BY <1>1, <3>2
  <2>2. Cardinality((1 .. n) \ L) = Cardinality(1 .. n) - Cardinality((1 .. n) \cap L)
    BY <2>1, FS_Difference
  <2>3. Cardinality((1 .. n) \ L) = r /\ Cardinality((1 .. n) \cap L) = c
    BY <1>5, <1>6, <1>11, Zenon
  <2>4. r = n - c
    BY <2>1, <2>2, <2>3
  <2> QED
    BY <1>1, <1>5, <2>4
<1>13. DOMAIN x = 1 .. c /\ Len(x) = c /\ \A k \in 1 .. c : x[k] = plan[p[k]]
  BY <1>5
<1>14. ASSUME NEW k \in 1 .. c
       PROVE  p[k] \in 1 .. n /\ ~In(p[k]) /\ x[k] = plan[p[k]]
  <2>1. p[k] \in L
    BY <1>5 DEF Lists
  <2> QED
    BY <1>4, <1>13, <2>1
<1>15. ASSUME NEW k \in 1 .. c, NEW l \in 1 .. c, x[k] = x[l]
       PROVE  k = l
  <2>1. p[k] \in 1 .. n /\ p[l] \in 1 .. n /\ plan[p[k]] = plan[p[l]]
    BY <1>14, <1>15, Zenon
  <2>2. p[k] = p[l]
    BY <1>1, <2>1, Zenon
  <2> QED
    BY <1>5, <2>2, Zenon DEF Lists
<1>16. ASSUME NEW i \in 1 .. n, ~In(i)
       PROVE  \E k \in 1 .. c : plan[i] = x[k]
  <2>1. i \in L
    BY <1>4, <1>16, Zenon
  <2>2. PICK k \in 1 .. c : p[k] = i
    BY <1>5, <2>1, Zenon DEF Lists
  <2> QED
    BY <1>13, <2>2, Zenon
<1>17. \A k \in 1 .. c : \E i \in 1 .. n : x[k] = plan[i] /\ ~In(i)
  BY <1>14, Zenon
<1>18. \A i \in 1 .. n : (In(i) /\ \E j \in 1 .. r : plan[i] = ranked[j])
                          \/ (~In(i) /\ \E k \in 1 .. c : plan[i] = x[k])
  <2>1. ASSUME NEW i \in 1 .. n
        PROVE  (In(i) /\ \E j \in 1 .. r : plan[i] = ranked[j])
               \/ (~In(i) /\ \E k \in 1 .. c : plan[i] = x[k])
    <3>1. CASE In(i)
      <4>1. PICK j \in 1 .. r : ranked[j] = plan[i]
        BY <1>3, <3>1
      <4>2. plan[i] = ranked[j]
        BY <4>1
      <4> QED
        BY <3>1, <4>2, Zenon
    <3>2. CASE ~In(i)
      BY <1>16, <3>2, Zenon
    <3> QED
      BY <3>1, <3>2
  <2> QED
    BY <2>1, Zenon
<1>19. c \in Nat
  BY <1>5
<1> QED
  <2>1. Shared(plan, n, ranked, r, x, c)
    BY <1>12, <1>13, <1>15, <1>17, <1>18, <1>19 DEF Shared, In
  <2> QED
    BY <2>1

-----------------------------------------------------------------------------
LEMMA QuotientIs ==
    ASSUME NEW q \in Int, NEW n \in Nat, n > 0,
           NEW k \in Int, 0 <= k, k < n
    PROVE  (n * q + k) \div n = q
  BY Z3

LEMMA Divides ==
    ASSUME NEW m \in Nat, NEW n \in Nat, n > 0
    PROVE  \E q \in Nat, k \in 0 .. n - 1 : m = n * q + k /\ m \div n = q /\ m % n = k
<1>1. m % n \in 0 .. n - 1 /\ m \div n \in Nat /\ m = n * (m \div n) + (m % n)
  BY Z3
<1> QED
  BY <1>1

LEMMA TimesLess ==
    ASSUME NEW a \in Int, NEW b \in Int, NEW n \in Nat, n > 0
    PROVE  /\ a < b => n * a + n <= n * b
           /\ n * a = n * b => a = b
<1>1. ASSUME NEW d \in Nat, d > 0
      PROVE  n * d >= n
  BY <1>1, Z3
<1>2. ASSUME NEW p \in Int, NEW q \in Int, p < q
      PROVE  n * p + n <= n * q
  <2>1. PICK d \in Nat : d > 0 /\ q = p + d
    <3>1. q - p \in Nat /\ q - p > 0 /\ q = p + (q - p)
      BY <1>2
    <3> QED
      BY <3>1
  <2>2. n * q = n * p + n * d
    BY <2>1, Z3
  <2> QED
    BY <1>1, <2>1, <2>2
<1>3. a < b \/ a = b \/ b < a
  OBVIOUS
<1> QED
  BY <1>2, <1>3

OnceEach(bands, n) == \A i, j \in 1 .. n : bands[i] = bands[j] => i = j

InTurns(at, bands, n) ==
    DOMAIN at = 0 .. n - 1 /\ \A s \in 0 .. n - 1 : at[s] = bands[(s % n) + 1]

Share(at, b) == Cardinality({s \in DOMAIN at : at[s] = b})

(***************************************************************************)
(* A round of turns, one after the other: each band has one.               *)
(***************************************************************************)
LEMMA TurnsFair ==
    ASSUME NEW n \in Nat, n > 0, NEW bands, NEW at, InTurns(at, bands, n),
           OnceEach(bands, n), NEW i \in 1 .. n
    PROVE  Share(at, bands[i]) = 1
<1>0. /\ DOMAIN at = 0 .. n - 1
      /\ \A j, k \in 1 .. n : bands[j] = bands[k] => j = k
      /\ \A s \in 0 .. n - 1 : at[s] = bands[(s % n) + 1]
  BY Zenon DEF InTurns, OnceEach
<1>1. \A s \in 0 .. n - 1 : s % n = s /\ s + 1 \in 1 .. n
  <2>1. ASSUME NEW s \in 0 .. n - 1
        PROVE  s % n = s /\ s + 1 \in 1 .. n
    <3>1. 0 \in Int /\ s \in Int /\ 0 <= s /\ s < n /\ n * 0 + s = s /\ s + 1 \in 1 .. n
      OBVIOUS
    <3>2. (n * 0 + s) % n = s
      BY <3>1, RemainderIs
    <3> QED
      BY <3>1, <3>2
  <2> QED
    BY <2>1, Zenon
<1>2. \A s \in 0 .. n - 1 : at[s] = bands[s + 1]
  BY <1>0, <1>1
<1>3. {s \in DOMAIN at : at[s] = bands[i]} = {i - 1}
  <2>1. i - 1 \in 0 .. n - 1 /\ (i - 1) + 1 = i
    OBVIOUS
  <2>2. ASSUME NEW s \in 0 .. n - 1, at[s] = bands[i]
        PROVE  s = i - 1
    <3>1. s + 1 \in 1 .. n /\ bands[s + 1] = bands[i]
      BY <1>0, <1>1, <1>2, <2>2
    <3>2. s + 1 = i
      BY <1>0, <3>1
    <3> QED
      BY <3>2
  <2>3. at[i - 1] = bands[i]
    BY <1>2, <2>1
  <2> QED
    BY <1>0, <2>1, <2>2, <2>3
<1> QED
  BY <1>3, FS_Singleton DEF Share

(***************************************************************************)
(* A round of the adaptive schedule: each band left out has as many dwells *)
(* as there are ranked ones, each ranked band five times as many as there  *)
(* are bands left out.                                                     *)
(***************************************************************************)
Adaptive(at, ranked, r, x, c) ==
    /\ DOMAIN at = 0 .. 6 * (c * r) - 1
    /\ \A s \in 0 .. 6 * (c * r) - 1 :
          at[s] = IF s % 6 = 5 THEN x[((s \div 6) % c) + 1]
                  ELSE ranked[((s - (s \div 6)) % r) + 1]

Apart(ranked, r, x, c) == \A j \in 1 .. r, k \in 1 .. c : ranked[j] # x[k]

LEMMA ExploredFair ==
    ASSUME NEW r \in Nat, r > 0, NEW c \in Nat, c > 0, NEW x, NEW ranked, NEW at,
           Adaptive(at, ranked, r, x, c),
           OnceEach(x, c), Apart(ranked, r, x, c), NEW k \in 1 .. c
    PROVE  Share(at, x[k]) = r
<1> DEFINE S == {s \in DOMAIN at : at[s] = x[k]}
           f == [q \in 1 .. r |-> 6 * (c * (q - 1) + (k - 1)) + 5]
<1>1. PICK N \in Nat : N = c * r
  BY Z3
<1>2. /\ DOMAIN at = 0 .. 6 * N - 1
      /\ \A s \in 0 .. 6 * N - 1 :
            at[s] = IF s % 6 = 5 THEN x[((s \div 6) % c) + 1]
                    ELSE ranked[((s - (s \div 6)) % r) + 1]
  BY <1>1, Zenon DEF Adaptive
<1>3. ASSUME NEW q \in 1 .. r
      PROVE  \E a \in Nat : /\ a = c * (q - 1) + (k - 1) /\ 6 * a + 5 \in 0 .. 6 * N - 1
                           /\ at[6 * a + 5] = x[k]
  <2>1. PICK b \in Nat : b = c * (q - 1)
    BY Z3
  <2>2. b + c <= N
    <3>1. q - 1 \in Int /\ r \in Int /\ q - 1 < r
      OBVIOUS
    <3>2. c * (q - 1) + c <= c * r
      BY <3>1, TimesLess
    <3> QED
      BY <1>1, <2>1, <3>2
  <2>3. PICK a \in Nat : a = b + (k - 1)
    OBVIOUS
  <2>4. 6 * a + 5 \in 0 .. 6 * N - 1
    BY <2>2, <2>3
  <2>5. (6 * a + 5) % 6 = 5 /\ (6 * a + 5) \div 6 = a
    OBVIOUS
  <2>6. a % c = k - 1
    <3>1. q - 1 \in Int /\ k - 1 \in Int /\ 0 <= k - 1 /\ k - 1 < c
      OBVIOUS
    <3>2. (c * (q - 1) + (k - 1)) % c = k - 1
      BY <3>1, RemainderIs
    <3> QED
      BY <2>1, <2>3, <3>2
  <2>7. at[6 * a + 5] = x[(a % c) + 1]
    BY <1>2, <2>4, <2>5
  <2>8. (k - 1) + 1 = k
    OBVIOUS
  <2> QED
    BY <2>1, <2>3, <2>4, <2>6, <2>7, <2>8
<1>4. \A q \in 1 .. r : f[q] \in S
  <2>1. ASSUME NEW q \in 1 .. r
        PROVE  f[q] \in S
    <3>1. PICK a \in Nat : /\ a = c * (q - 1) + (k - 1) /\ 6 * a + 5 \in 0 .. 6 * N - 1
                          /\ at[6 * a + 5] = x[k]
      BY <1>3
    <3>2. f[q] = 6 * a + 5
      BY <3>1
    <3> QED
      BY <1>2, <3>1, <3>2, Zenon
  <2> QED
    BY <2>1, Zenon
<1>5. ASSUME NEW p \in 1 .. r, NEW q \in 1 .. r, f[p] = f[q]
      PROVE  p = q
  <2>1. PICK a \in Int : a = c * (p - 1)
    BY Z3
  <2>2. PICK b \in Int : b = c * (q - 1)
    BY Z3
  <2>3. f[p] = 6 * (a + (k - 1)) + 5 /\ f[q] = 6 * (b + (k - 1)) + 5
    BY <2>1, <2>2
  <2> HIDE DEF f
  <2>4. a = b
    <3>1. 6 * (a + (k - 1)) + 5 = 6 * (b + (k - 1)) + 5
      BY <1>5, <2>3, Zenon
    <3> QED
      BY <3>1
  <2>5. p - 1 \in Int /\ q - 1 \in Int
    OBVIOUS
  <2>6. p - 1 = q - 1
    BY <2>1, <2>2, <2>4, <2>5, TimesLess
  <2> QED
    BY <2>6
<1>6. ASSUME NEW s \in S
      PROVE  \E q \in 1 .. r : f[q] = s
  <2>1. s \in 0 .. 6 * N - 1 /\ at[s] = x[k]
    BY <1>2
  <2>2. PICK a \in Nat, b \in 0 .. 5 : s = 6 * a + b /\ s \div 6 = a /\ s % 6 = b
    <3>1. s \in Nat /\ 6 \in Nat /\ 6 > 0
      BY <2>1
    <3>2. \E a \in Nat, b \in 0 .. 6 - 1 : s = 6 * a + b /\ s \div 6 = a /\ s % 6 = b
      BY <3>1, Divides, Zenon
    <3> QED
      BY <3>2
  <2>3. b = 5
    <3>1. SUFFICES ASSUME b # 5 PROVE FALSE
      OBVIOUS
    <3>2. PICK d \in Nat : d = s - (s \div 6)
      BY <2>2
    <3>3. at[s] = ranked[(d % r) + 1]
      BY <1>2, <2>1, <2>2, <3>1, <3>2
    <3>4. (d % r) + 1 \in 1 .. r
      <4>1. PICK u \in Nat, v \in 0 .. r - 1 : d % r = v
        BY Divides
      <4> QED
        BY <4>1
    <3> QED
      BY <2>1, <3>3, <3>4, Zenon DEF Apart
  <2>4. PICK u \in Nat, v \in 0 .. c - 1 : a = c * u + v /\ a % c = v
    BY Divides
  <2>5. v = k - 1
    <3>1. at[s] = x[v + 1] /\ v + 1 \in 1 .. c
      <4>1. s % 6 = 5 /\ (s \div 6) % c = v
        BY <2>2, <2>3, <2>4, Zenon
      <4>2. at[s] = x[((s \div 6) % c) + 1]
        BY <1>2, <2>1, <4>1, Zenon
      <4> QED
        BY <4>1, <4>2
    <3>2. v + 1 = k
      BY <2>1, <3>1, Zenon DEF OnceEach
    <3> QED
      BY <3>2
  <2>6. u < r
    <3>1. PICK w \in Int : w = c * u
      BY Z3
    <3>2. w < N
      BY <2>1, <2>2, <2>4, <3>1
    <3>3. SUFFICES ASSUME u >= r PROVE FALSE
      OBVIOUS
    <3>4. u = r \/ c * r + c <= c * u
      BY <3>3, TimesLess
    <3> QED
      BY <1>1, <3>1, <3>2, <3>4
  <2>7. PICK q \in 1 .. r : q = u + 1
    BY <2>6
  <2>8. q - 1 = u
    BY <2>7
  <2>9. f[q] = s
    BY <2>2, <2>3, <2>4, <2>5, <2>8
  <2> QED
    BY <2>9
<1> HIDE DEF f, S
<1>7. f \in [1 .. r -> S]
  BY <1>4 DEF f
<1>8. Cardinality(S) = r
  BY <1>5, <1>6, <1>7, Counted
<1> QED
  BY <1>8 DEF S, Share

LEMMA RankedFair ==
    ASSUME NEW r \in Nat, r > 0, NEW c \in Nat, c > 0, NEW x, NEW ranked, NEW at,
           Adaptive(at, ranked, r, x, c),
           OnceEach(ranked, r), Apart(ranked, r, x, c), NEW j \in 1 .. r
    PROVE  Share(at, ranked[j]) = 5 * c
<1> DEFINE S == {s \in DOMAIN at : at[s] = ranked[j]}
           turn(m) == r * (m - 1) + (j - 1)
           f == [m \in 1 .. 5 * c |-> turn(m) + turn(m) \div 5]
<1>1. PICK N \in Nat : N = c * r
  BY Z3
<1>2. /\ DOMAIN at = 0 .. 6 * N - 1
      /\ \A s \in 0 .. 6 * N - 1 :
            at[s] = IF s % 6 = 5 THEN x[((s \div 6) % c) + 1]
                    ELSE ranked[((s - (s \div 6)) % r) + 1]
  BY <1>1, Zenon DEF Adaptive
<1>3. PICK M \in Nat : M = 5 * c
  OBVIOUS
<1>4. r * M = 5 * N
  BY <1>1, <1>3, Z3
<1>5. ASSUME NEW m \in 1 .. M
      PROVE  turn(m) \in Nat /\ turn(m) < 5 * N /\ turn(m) % r = j - 1
  <2>1. PICK b \in Nat : b = r * (m - 1)
    BY Z3
  <2>2. b + r <= 5 * N
    <3>1. m - 1 \in Int /\ M \in Int /\ m - 1 < M
      OBVIOUS
    <3>2. r * (m - 1) + r <= r * M
      BY <3>1, TimesLess
    <3> QED
      BY <1>4, <2>1, <3>2
  <2>3. m - 1 \in Int /\ j - 1 \in Int /\ 0 <= j - 1 /\ j - 1 < r
    OBVIOUS
  <2>4. turn(m) % r = j - 1
    BY <2>3, RemainderIs
  <2> QED
    BY <2>1, <2>2, <2>3, <2>4
<1> HIDE DEF turn
<1>6. ASSUME NEW m \in 1 .. M
      PROVE  \E a \in Nat, b \in 0 .. 4 :
                turn(m) = 5 * a + b /\ f[m] = 6 * a + b /\ f[m] \in S
  <2>1. PICK d \in Nat : d = turn(m)
    BY <1>5
  <2>2. d < 5 * N /\ d % r = j - 1
    BY <1>5, <2>1
  <2>3. PICK a \in Nat, b \in 0 .. 4 : d = 5 * a + b /\ d \div 5 = a
    OBVIOUS
  <2>4. f[m] = 6 * a + b
    <3>1. f[m] = turn(m) + turn(m) \div 5
      BY <1>3
    <3>2. f[m] = d + d \div 5
      BY <2>1, <3>1, Zenon
    <3> QED
      BY <2>3, <3>2
  <2>5. PICK s \in Nat : s = 6 * a + b
    OBVIOUS
  <2>6. s \in 0 .. 6 * N - 1 /\ s % 6 = b /\ s \div 6 = a /\ s - (s \div 6) = d
    BY <2>2, <2>3, <2>5
  <2>7. at[s] = ranked[(d % r) + 1]
    <3>1. s % 6 # 5
      BY <2>6
    <3> QED
      BY <1>2, <2>6, <3>1, Zenon
  <2>8. (j - 1) + 1 = j
    OBVIOUS
  <2>9. at[s] = ranked[j]
    BY <2>2, <2>7, <2>8, Zenon
  <2>10. s \in S
    BY <1>2, <2>6, <2>9, Zenon
  <2>11. turn(m) = 5 * a + b /\ f[m] = 6 * a + b /\ f[m] \in S
    BY <2>1, <2>3, <2>4, <2>5, <2>10, Zenon
  <2> QED
    BY <2>11, Zenon
<1>7. ASSUME NEW p \in 1 .. M, NEW q \in 1 .. M, f[p] = f[q]
      PROVE  p = q
  <2>1. PICK a \in Nat, b \in 0 .. 4 : turn(p) = 5 * a + b /\ f[p] = 6 * a + b
    BY <1>6, Zenon
  <2>2. PICK d \in Nat, e \in 0 .. 4 : turn(q) = 5 * d + e /\ f[q] = 6 * d + e
    BY <1>6, Zenon
  <2>3. 6 * a + b = 6 * d + e
    BY <1>7, <2>1, <2>2, Zenon
  <2>4. a = d /\ b = e
    BY <2>3
  <2>5. turn(p) = turn(q)
    BY <2>1, <2>2, <2>4, Zenon
  <2>6. PICK u \in Int : u = r * (p - 1)
    BY Z3
  <2>7. PICK v \in Int : v = r * (q - 1)
    BY Z3
  <2>8. u + (j - 1) = v + (j - 1)
    BY <2>5, <2>6, <2>7 DEF turn
  <2>9. r * (p - 1) = r * (q - 1) /\ p - 1 \in Int /\ q - 1 \in Int
    BY <2>6, <2>7, <2>8
  <2>10. p - 1 = q - 1
    BY <2>9, TimesLess
  <2> QED
    BY <2>10
<1>8. ASSUME NEW s \in S
      PROVE  \E m \in 1 .. M : f[m] = s
  <2>1. s \in 0 .. 6 * N - 1 /\ at[s] = ranked[j]
    BY <1>2
  <2>2. PICK a \in Nat, b \in 0 .. 5 : s = 6 * a + b /\ s \div 6 = a /\ s % 6 = b
    <3>1. s \in Nat /\ 6 \in Nat /\ 6 > 0
      BY <2>1
    <3>2. \E a \in Nat, b \in 0 .. 6 - 1 : s = 6 * a + b /\ s \div 6 = a /\ s % 6 = b
      BY <3>1, Divides, Zenon
    <3> QED
      BY <3>2
  <2>3. b # 5
    <3>1. SUFFICES ASSUME b = 5 PROVE FALSE
      OBVIOUS
    <3>2. s % 6 = 5 /\ (s \div 6) % c = a % c
      BY <2>2, <3>1, Zenon
    <3>3. at[s] = x[(a % c) + 1]
      <4>1. at[s] = x[((s \div 6) % c) + 1]
        BY <1>2, <2>1, <3>2, Zenon
      <4> QED
        BY <3>2, <4>1, Zenon
    <3>4. (a % c) + 1 \in 1 .. c
      <4>1. PICK u \in Nat, v \in 0 .. c - 1 : a % c = v
        BY Divides
      <4> QED
        BY <4>1
    <3> QED
      BY <2>1, <3>3, <3>4, Zenon DEF Apart
  <2>4. PICK d \in Nat : d = 5 * a + b
    OBVIOUS
  <2>5. s - (s \div 6) = d /\ d < 5 * N /\ d \div 5 = a
    BY <2>1, <2>2, <2>3, <2>4
  <2>6. PICK u \in Nat, v \in 0 .. r - 1 : d = r * u + v /\ d % r = v
    BY Divides
  <2>7. v = j - 1
    <3>1. at[s] = ranked[((s - (s \div 6)) % r) + 1]
      <4>1. s % 6 # 5
        BY <2>2, <2>3
      <4> QED
        BY <1>2, <2>1, <4>1, Zenon
    <3>2. at[s] = ranked[v + 1]
      BY <2>5, <2>6, <3>1, Zenon
    <3>3. v + 1 \in 1 .. r
      OBVIOUS
    <3>4. v + 1 = j
      BY <2>1, <3>2, <3>3, Zenon DEF OnceEach
    <3> QED
      BY <3>4
  <2>8. u < M
    <3>1. PICK w \in Int : w = r * u
      BY Z3
    <3>2. w < 5 * N
      BY <2>5, <2>6, <3>1
    <3>3. SUFFICES ASSUME u >= M PROVE FALSE
      OBVIOUS
    <3>4. u = M \/ r * M + r <= r * u
      BY <3>3, TimesLess
    <3> QED
      BY <1>4, <3>1, <3>2, <3>4
  <2>9. PICK m \in 1 .. M : m = u + 1
    BY <2>8
  <2>10. turn(m) = d
    <3>1. m - 1 = u
      BY <2>9
    <3>2. turn(m) = r * u + (j - 1)
      BY <3>1, Zenon DEF turn
    <3> QED
      BY <2>6, <2>7, <3>2
  <2>11. f[m] = d + d \div 5
    BY <1>3, <2>10
  <2>12. f[m] = s
    BY <2>2, <2>4, <2>5, <2>11
  <2> QED
    BY <2>12
<1> HIDE DEF f, S
<1>9. f \in [1 .. M -> S]
  <2>1. \A m \in 1 .. M : f[m] \in S
    BY <1>6, Zenon
  <2>2. DOMAIN f = 1 .. M /\ f = [m \in 1 .. M |-> f[m]]
    BY <1>3 DEF f
  <2> QED
    BY <2>1, <2>2
<1>10. Cardinality(S) = M
  BY <1>7, <1>8, <1>9, Counted
<1> QED
  BY <1>3, <1>10 DEF S, Share

-----------------------------------------------------------------------------
(***************************************************************************)
(* What the advisor returns: bands of the plan, each at most once.         *)
(***************************************************************************)
Advice(ranked, plan) ==
    /\ ranked \in Seq({plan[i] : i \in DOMAIN plan})
    /\ \A j, k \in DOMAIN ranked :
          ranked[j].database_band = ranked[k].database_band => j = k

Advised(o, ranked, plan) == o.hop = <<"auto">> => Advice(ranked, plan)

LEMMA AdviceRanks ==
    ASSUME NEW n, NEW plan, IsPlan(plan, n), NEW ranked, Advice(ranked, plan)
    PROVE  \E r : IsRanking(ranked, r, plan, n)
<1>1. DOMAIN plan = 1 .. n
  BY DEF IsPlan
<1> DEFINE B == {plan[i] : i \in DOMAIN plan}
<1>2. ranked \in Seq(B)
  BY DEF Advice
<1>3. \A b \in B : \E i \in 1 .. n : b = plan[i]
  BY <1>1
<1> HIDE DEF B
<1>4. PICK r \in Nat : r = Len(ranked)
  BY <1>2
<1>5. DOMAIN ranked = 1 .. r /\ \A j \in 1 .. r : ranked[j] \in B
  BY <1>2, <1>4
<1>6. \A j \in 1 .. r : \E i \in 1 .. n : ranked[j] = plan[i]
  BY <1>3, <1>5, Zenon
<1>7. \A j, k \in 1 .. r : ranked[j].database_band = ranked[k].database_band => j = k
  BY <1>5, Zenon DEF Advice
<1>8. r > 0 \/ ranked = << >>
  BY <1>2, <1>4
<1>9. IsRanking(ranked, r, plan, n)
  BY <1>4, <1>5, <1>6, <1>7, <1>8, Zenon DEF IsRanking
<1> QED
  BY <1>9, Zenon

(***************************************************************************)
(* The bands of the accepted list or of the automatic one.                 *)
(***************************************************************************)
LEMMA AcceptedPlan ==
    ASSUME NEW o, o.hop \in Seq(STRING), o.hop # << >>, Accepted(o)
    PROVE  \E n : IsPlan(Plan(o), n)
<1>1. Plan(o) # << >>
  BY DEF Accepted
<1>2. PICK fields : fields = IF o.hop = <<"auto">> THEN automatic_hop_bands ELSE o.hop
  OBVIOUS
<1>3. PICK ft8 : ft8 <=> o.mode = "FT8"
  OBVIOUS
<1>4. PICK n \in Nat : Len(fields) = n /\ DOMAIN fields = 1 .. n
  <2>1. CASE o.hop = <<"auto">>
    BY <1>2, <2>1 DEF automatic_hop_bands
  <2>2. CASE o.hop # <<"auto">>
    BY <1>2, <2>2
  <2> QED
    BY <2>1, <2>2
<1>5. PICK plan : plan = Plan(o)
  OBVIOUS
<1>6. plan = hop_plan_parse(fields, ft8)
  BY <1>2, <1>3, <1>5 DEF Plan, hop_plan_parse
<1> QED
  BY <1>1, <1>4, <1>5, <1>6, ParsedPlan, Zenon

(***************************************************************************)
(* The band of a dwell, in the three ways there are to get to it.          *)
(***************************************************************************)
AdaptiveBand(ranked, r, x, c, s) ==
    IF s % 6 = 5 THEN x[((s \div 6) % c) + 1] ELSE ranked[((s - (s \div 6)) % r) + 1]

LEMMA PlainDwell ==
    ASSUME NEW o, NEW n, NEW plan, plan = Plan(o), IsPlan(plan, n), NEW ranked, NEW s,
           o.hop # <<"auto">> \/ ranked = << >>
    PROVE  BandAt(o, ranked, s) = plan[(s % n) + 1]
<1>1. Len(plan) = n /\ n # 0
  BY DEF IsPlan
<1>2. BandAt(o, ranked, s) = wspr_hop_band_at_dwell(plan, s)
  BY Zenon DEF BandAt
<1> QED
  BY <1>1, <1>2 DEF wspr_hop_band_at_dwell

DwellBand(o, ranked, r, x, c, s) ==
    /\ r > 0
    /\ c = 0 => BandAt(o, ranked, s) = ranked[(s % r) + 1]
    /\ c > 0 => BandAt(o, ranked, s) = AdaptiveBand(ranked, r, x, c, s)

LEMMA AdvisedDwell ==
    ASSUME NEW o, NEW n, NEW plan, plan = Plan(o), IsPlan(plan, n),
           NEW r, NEW ranked, IsRanking(ranked, r, plan, n), ranked # << >>,
           o.hop = <<"auto">>, NEW x, x = Excluded(ranked, plan),
           NEW c, Shared(plan, n, ranked, r, x, c), NEW s
    PROVE  DwellBand(o, ranked, r, x, c, s)
<1>1. n \in Nat /\ n > 0 /\ Len(plan) = n
  BY DEF IsPlan
<1>2. r \in Nat /\ Len(ranked) = r /\ r # 0
  <2>1. r \in Nat /\ Len(ranked) = r /\ r > 0
    BY DEF IsRanking
  <2> QED
    BY <2>1
<1>3. c \in Nat /\ Len(x) = c
  BY DEF Shared
<1>4. BandAt(o, ranked, s) = wspr_adaptive_hop_band_at_dwell(ranked, plan, s)
  BY Zenon DEF BandAt
<1>5. BandAt(o, ranked, s)
        = IF IsExploration(s, x) THEN x[explored_index(s, x)]
          ELSE ranked[(ranked_slot(s, x) % r) + 1]
  BY <1>1, <1>2, <1>4 DEF wspr_adaptive_hop_band_at_dwell
<1>6. CASE c = 0
  BY <1>2, <1>3, <1>5, <1>6 DEF IsExploration, ranked_slot, DwellBand
<1>7. CASE c > 0
  BY <1>2, <1>3, <1>5, <1>7 DEF IsExploration, explored_index, ranked_slot, AdaptiveBand, DwellBand
<1> QED
  BY <1>2, <1>3, <1>6, <1>7 DEF DwellBand

(***************************************************************************)
(* Every dwell is spent on a band of the plan.                             *)
(***************************************************************************)
LEMMA InTurn ==
    ASSUME NEW s \in Nat, NEW n \in Nat, n > 0
    PROVE  (s % n) + 1 \in 1 .. n
<1>1. PICK q \in Nat, k \in 0 .. n - 1 : s % n = k
  BY Divides
<1> QED
  BY <1>1

DwellIn(o, ranked, s, plan, n) == \E i \in 1 .. n : BandAt(o, ranked, s) = plan[i]

LEMMA DwellInPlan ==
    ASSUME NEW o, NEW n, NEW plan, plan = Plan(o), IsPlan(plan, n), NEW ranked,
           Advised(o, ranked, plan), NEW s \in Nat
    PROVE  DwellIn(o, ranked, s, plan, n)
<1>0. SUFFICES \E i \in 1 .. n : BandAt(o, ranked, s) = plan[i]
  BY DEF DwellIn
<1>1. n \in Nat /\ n > 0
  BY DEF IsPlan
<1>2. CASE o.hop # <<"auto">> \/ ranked = << >>
  BY <1>1, <1>2, PlainDwell, InTurn
<1>3. CASE o.hop = <<"auto">> /\ ranked # << >>
  <2>1. PICK r : IsRanking(ranked, r, plan, n)
    BY <1>3, AdviceRanks, Zenon DEF Advised
  <2>2. PICK x : x = Excluded(ranked, plan)
    OBVIOUS
  <2>3. PICK c : Shared(plan, n, ranked, r, x, c)
    BY <2>1, <2>2, PlanShared, Zenon
  <2>4. /\ r > 0
        /\ c = 0 => BandAt(o, ranked, s) = ranked[(s % r) + 1]
        /\ c > 0 => BandAt(o, ranked, s) = AdaptiveBand(ranked, r, x, c, s)
    <3>1. DwellBand(o, ranked, r, x, c, s)
      BY <1>3, <2>1, <2>2, <2>3, AdvisedDwell, Zenon
    <3> QED
      BY <3>1, Zenon DEF DwellBand
  <2>5. /\ r \in Nat /\ c \in Nat
        /\ \A j \in 1 .. r : \E i \in 1 .. n : ranked[j] = plan[i]
        /\ \A k \in 1 .. c : \E i \in 1 .. n : x[k] = plan[i]
    BY <2>1, <2>3, Zenon DEF IsRanking, Shared
  <2>6. CASE c = 0
    BY <2>4, <2>5, <2>6, InTurn
  <2>7. CASE c > 0
    <3>1. s \div 6 \in Nat /\ s - (s \div 6) \in Nat
      OBVIOUS
    <3>2. ((s \div 6) % c) + 1 \in 1 .. c /\ ((s - (s \div 6)) % r) + 1 \in 1 .. r
      BY <2>4, <2>5, <2>7, <3>1, InTurn
    <3> QED
      BY <2>4, <2>5, <2>7, <3>2, Zenon DEF AdaptiveBand
  <2> QED
    BY <2>5, <2>6, <2>7
<1> QED
  BY <1>2, <1>3

(***************************************************************************)
(* Once its options are accepted, the receiver never comes to a dwell      *)
(* whose band it cannot tune to, at any time and whatever the advice.      *)
(***************************************************************************)
THEOREM DwellsTunable ==
    ASSUME NEW o, o.hop \in Seq(STRING), o.hop # << >>, Accepted(o),
           NEW ranked, Advised(o, ranked, Plan(o)), NEW s \in Nat
    PROVE  calculate_receiver_frequency(o, BandAt(o, ranked, s).frequency_hz)
<1>1. PICK plan : plan = Plan(o)
  OBVIOUS
<1>2. PICK n : IsPlan(plan, n)
  BY <1>1, AcceptedPlan
<1>3. PICK i \in 1 .. n : BandAt(o, ranked, s) = plan[i]
  <2>1. Advised(o, ranked, plan)
    BY <1>1
  <2> QED
    <3>1. DwellIn(o, ranked, s, plan, n)
      BY <1>1, <1>2, <2>1, DwellInPlan, Zenon
    <3> QED
      BY <3>1, Zenon DEF DwellIn
<1>4. DOMAIN plan = 1 .. n
  BY <1>2 DEF IsPlan
<1>5. HopsTunable(o)
  BY Zenon DEF Accepted
<1>6. calculate_receiver_frequency(o, plan[i].frequency_hz)
  BY <1>1, <1>4, <1>5, Zenon DEF HopsTunable
<1> QED
  BY <1>3, <1>6, Zenon

(***************************************************************************)
(* The shares of a round, plain or adaptive.                               *)
(***************************************************************************)
Fair(at, plan, n, ranked) ==
    /\ \A i, j \in 1 .. n :
          plan_contains_database_band(ranked, plan[i].database_band)
             = plan_contains_database_band(ranked, plan[j].database_band)
          => Share(at, plan[i]) = Share(at, plan[j])
    /\ \A i \in 1 .. n : Share(at, plan[i]) > 0

LEMMA PlainFair ==
    ASSUME NEW o, NEW n, NEW plan, plan = Plan(o), IsPlan(plan, n), NEW ranked,
           o.hop # <<"auto">> \/ ranked = << >>,
           NEW at, at = [s \in 0 .. n - 1 |-> BandAt(o, ranked, s)], NEW used
    PROVE  Fair(at, plan, n, used)
<1>1. n \in Nat /\ n > 0 /\ OnceEach(plan, n)
  BY DEF IsPlan, OnceEach
<1>2. InTurns(at, plan, n)
  BY PlainDwell DEF InTurns
<1>3. ASSUME NEW i \in 1 .. n
      PROVE  Share(at, plan[i]) = 1
  <2>1. Share(at, plan[i]) = 1
    BY <1>1, <1>2, TurnsFair, Zenon
  <2> QED
    BY <2>1, Zenon
<1> QED
  BY <1>3 DEF Fair

LEMMA FullFair ==
    ASSUME NEW o, NEW n, NEW plan, plan = Plan(o), IsPlan(plan, n),
           NEW r, NEW ranked, IsRanking(ranked, r, plan, n), ranked # << >>,
           o.hop = <<"auto">>, NEW x, x = Excluded(ranked, plan),
           Shared(plan, n, ranked, r, x, 0),
           NEW at, at = [s \in 0 .. n - 1 |-> BandAt(o, ranked, s)]
    PROVE  Fair(at, plan, n, ranked)
<1>1. n \in Nat /\ n > 0 /\ r \in Nat
  BY DEF IsPlan, IsRanking
<1>2. r = n
  <2>1. 0 = n - r
    BY Zenon DEF Shared
  <2> QED
    BY <1>1, <2>1
<1>3. OnceEach(ranked, n)
  BY <1>2, Zenon DEF IsRanking, OnceEach
<1>4. \A s : BandAt(o, ranked, s) = ranked[(s % n) + 1]
  <2>1. TAKE s
  <2>2. DwellBand(o, ranked, r, x, 0, s)
    BY AdvisedDwell, Zenon
  <2> QED
    BY <1>2, <2>2, Zenon DEF DwellBand
<1>5. InTurns(at, ranked, n)
  BY <1>4 DEF InTurns
<1>6. ASSUME NEW i \in 1 .. n
      PROVE  Share(at, plan[i]) = 1
  <2>1. \E j \in 1 .. n : plan[i] = ranked[j]
    <3>1. 1 .. 0 = {}
      OBVIOUS
    <3>2. \/ \E j \in 1 .. r : plan[i] = ranked[j]
          \/ \E k \in 1 .. 0 : plan[i] = x[k]
      BY Zenon DEF Shared
    <3> QED
      BY <1>2, <3>1, <3>2
  <2>2. PICK j \in 1 .. n : plan[i] = ranked[j]
    BY <2>1
  <2>3. Share(at, ranked[j]) = 1
    BY <1>1, <1>3, <1>5, TurnsFair, Zenon
  <2> QED
    BY <2>2, <2>3, Zenon
<1> QED
  BY <1>6 DEF Fair

LEMMA AdaptiveFair ==
    ASSUME NEW o, NEW n, NEW plan, plan = Plan(o), IsPlan(plan, n),
           NEW r, NEW ranked, IsRanking(ranked, r, plan, n), ranked # << >>,
           o.hop = <<"auto">>, NEW x, x = Excluded(ranked, plan),
           NEW c, Shared(plan, n, ranked, r, x, c), c > 0,
           NEW m, m = 6 * (c * r), NEW at, at = [s \in 0 .. m - 1 |-> BandAt(o, ranked, s)]
    PROVE  Fair(at, plan, n, ranked)
<1> DEFINE In(i) == plan_contains_database_band(ranked, plan[i].database_band)
<1>1. r \in Nat /\ c \in Nat /\ OnceEach(ranked, r) /\ OnceEach(x, c)
  BY Zenon DEF IsRanking, Shared, OnceEach
<1>2. r > 0 /\ \A s : BandAt(o, ranked, s) = AdaptiveBand(ranked, r, x, c, s)
  <2>1. ASSUME NEW s
        PROVE  DwellBand(o, ranked, r, x, c, s)
    BY AdvisedDwell, Zenon
  <2> QED
    BY <2>1, Zenon DEF DwellBand
<1>3. Adaptive(at, ranked, r, x, c)
  BY <1>2 DEF Adaptive, AdaptiveBand
<1>r. r > 0
  BY <1>2
<1>4. Apart(ranked, r, x, c)
  <2>1. SUFFICES ASSUME NEW j \in 1 .. r, NEW k \in 1 .. c, ranked[j] = x[k]
                 PROVE  FALSE
    BY DEF Apart
  <2>2. PICK i \in 1 .. n : x[k] = plan[i] /\ ~In(i)
    BY Zenon DEF Shared
  <2>3. j \in DOMAIN ranked /\ ranked[j].database_band = plan[i].database_band
    <3>1. DOMAIN ranked = 1 .. r
      BY Zenon DEF IsRanking
    <3> QED
      BY <2>1, <2>2, <3>1
  <2> QED
    BY <2>2, <2>3, Zenon DEF plan_contains_database_band
<1>5. ASSUME NEW i \in 1 .. n
      PROVE  /\ In(i) => Share(at, plan[i]) = 5 * c
             /\ ~In(i) => Share(at, plan[i]) = r
  <2>1. CASE In(i)
    <3>1. PICK j \in 1 .. r : plan[i] = ranked[j]
      BY <2>1, Zenon DEF Shared
    <3>2. Share(at, ranked[j]) = 5 * c
      BY <1>1, <1>r, <1>3, <1>4, RankedFair
    <3> QED
      BY <2>1, <3>1, <3>2, Zenon
  <2>2. CASE ~In(i)
    <3>1. PICK k \in 1 .. c : plan[i] = x[k]
      BY <2>2, Zenon DEF Shared
    <3>2. Share(at, x[k]) = r
      BY <1>1, <1>r, <1>3, <1>4, ExploredFair
    <3> QED
      BY <2>2, <3>1, <3>2, Zenon
  <2> QED
    BY <2>1, <2>2
<1>6. ASSUME NEW i \in 1 .. n, NEW j \in 1 .. n, In(i) = In(j)
      PROVE  Share(at, plan[i]) = Share(at, plan[j])
  <2>1. In(i) \in BOOLEAN /\ In(j) \in BOOLEAN
    BY Zenon DEF plan_contains_database_band
  <2> QED
    BY <1>5, <1>6, <2>1, Zenon
<1>7. ASSUME NEW i \in 1 .. n
      PROVE  Share(at, plan[i]) > 0
  <2>1. Share(at, plan[i]) = 5 * c \/ Share(at, plan[i]) = r
    BY <1>5, Zenon
  <2> QED
    BY <1>1, <1>2, <2>1
<1> QED
  BY <1>6, <1>7, Zenon DEF Fair

RoundLength(used, n) ==
    IF used = << >> \/ n - Len(used) = 0 THEN n ELSE 6 * Len(used) * (n - Len(used))

Used(o, ranked) == IF o.hop = <<"auto">> THEN ranked ELSE << >>

LEMMA RoundSound ==
    ASSUME NEW o, o.hop \in Seq(STRING), o.hop # << >>, Accepted(o),
           NEW plan, plan = Plan(o), NEW n, IsPlan(plan, n),
           NEW ranked, Advised(o, ranked, plan),
           NEW used, used = Used(o, ranked), NEW m, m = RoundLength(used, n),
           NEW at, at = [s \in 0 .. m - 1 |-> BandAt(o, ranked, s)]
    PROVE  m \in Nat /\ Fair(at, plan, n, used)
<1>1. n \in Nat
  BY DEF IsPlan
<1>2. CASE o.hop # <<"auto">> \/ ranked = << >>
  <2>1. used = << >>
    BY <1>2 DEF Used
  <2>2. m = n
    BY <2>1, Zenon DEF RoundLength
  <2>3. at = [s \in 0 .. n - 1 |-> BandAt(o, ranked, s)]
    BY <2>2
  <2>4. Fair(at, plan, n, used)
    BY <1>2, <2>3, PlainFair, Zenon
  <2> QED
    BY <1>1, <2>2, <2>4
<1>3. CASE o.hop = <<"auto">> /\ ranked # << >>
  <2>1. used = ranked
    BY <1>3 DEF Used
  <2>2. PICK r : IsRanking(ranked, r, plan, n)
    BY <1>3, AdviceRanks, Zenon DEF Advised
  <2>3. PICK x : x = Excluded(ranked, plan)
    OBVIOUS
  <2>4. PICK c : Shared(plan, n, ranked, r, x, c)
    BY <2>2, <2>3, PlanShared, Zenon
  <2>5. r \in Nat /\ Len(used) = r /\ c \in Nat /\ c = n - r
    BY <2>1, <2>2, <2>4, Zenon DEF IsRanking, Shared
  <2>6. CASE c = 0
    <3>1. n - Len(used) = 0
      BY <2>5, <2>6, Zenon
    <3>2. m = n
      BY <3>1, Zenon DEF RoundLength
    <3>3. at = [s \in 0 .. n - 1 |-> BandAt(o, ranked, s)]
      BY <3>2
    <3>4. Shared(plan, n, ranked, r, x, 0)
      BY <2>4, <2>6
    <3>5. Fair(at, plan, n, ranked)
      BY <1>3, <2>2, <2>3, <3>3, <3>4, FullFair, Zenon
    <3> QED
      BY <1>1, <2>1, <3>2, <3>5
  <2>7. CASE c > 0
    <3>1. m = 6 * r * c
      <4>1. n - Len(used) = c /\ Len(used) = r /\ c # 0 /\ used # << >>
        BY <1>3, <2>1, <2>5, <2>7
      <4> QED
        BY <4>1, Zenon DEF RoundLength
    <3>2. m = 6 * (c * r) /\ m \in Nat
      BY <2>5, <3>1
    <3>3. Fair(at, plan, n, ranked)
      BY <1>3, <2>2, <2>3, <2>4, <2>7, <3>2, AdaptiveFair, Zenon
    <3> QED
      BY <2>1, <3>2, <3>3
  <2> QED
    BY <2>5, <2>6, <2>7
<1> QED
  BY <1>2, <1>3

(***************************************************************************)
(* The schedule of every option record whose hop list is a list of names   *)
(* and every ranking the advisor can return.                               *)
(***************************************************************************)
LEMMA AlwaysSound ==
    ASSUME NEW o, o.hop \in Seq(STRING), NEW ranked, Advised(o, ranked, Plan(o))
    PROVE  ScheduleSound(o, ranked)
<1>1. CASE ~(Accepted(o) /\ o.hop # << >>)
  BY <1>1, Zenon DEF ScheduleSound
<1>2. CASE Accepted(o) /\ o.hop # << >>
  <2> DEFINE plan == Plan(o)
             used == IF o.hop = <<"auto">> THEN ranked ELSE << >>
             m    == IF used = << >> \/ Len(plan) - Len(used) = 0 THEN Len(plan)
                     ELSE 6 * Len(used) * (Len(plan) - Len(used))
             at   == [s \in 0 .. m - 1 |-> BandAt(o, ranked, s)]
  <2>1. plan = Plan(o) /\ used = Used(o, ranked) /\ Advised(o, ranked, plan)
    BY DEF Used
  <2>2. PICK n : IsPlan(plan, n)
    BY <1>2, AcceptedPlan
  <2>3. Len(plan) = n /\ DOMAIN plan = 1 .. n
    BY <2>2, Zenon DEF IsPlan
  <2> HIDE DEF plan, used
  <2>4. m = RoundLength(used, n)
    BY <2>3, Zenon DEF RoundLength
  <2> HIDE DEF m
  <2>5. m \in Nat /\ Fair(at, plan, n, used)
    BY <1>2, <2>1, <2>2, <2>4, RoundSound, Zenon
  <2>6. ASSUME NEW s \in DOMAIN at
        PROVE  calculate_receiver_frequency(o, at[s].frequency_hz)
    <3>1. s \in Nat /\ at[s] = BandAt(o, ranked, s)
      BY <2>5
    <3>2. calculate_receiver_frequency(o, BandAt(o, ranked, s).frequency_hz)
      BY <1>2, <3>1, DwellsTunable, Zenon
    <3> HIDE DEF at
    <3> QED
      BY <3>1, <3>2, Zenon
  <2> HIDE DEF at
  <2>7. \A i, j \in DOMAIN plan :
           plan_contains_database_band(used, plan[i].database_band)
              = plan_contains_database_band(used, plan[j].database_band)
           => Share(at, plan[i]) = Share(at, plan[j])
    BY <2>3, <2>5, Zenon DEF Fair
  <2>8. \A i \in DOMAIN plan : Share(at, plan[i]) > 0
    BY <2>3, <2>5, Zenon DEF Fair
  <2>9. /\ \A s \in DOMAIN at : calculate_receiver_frequency(o, at[s].frequency_hz)
        /\ \A i, j \in DOMAIN plan :
              plan_contains_database_band(used, plan[i].database_band)
                 = plan_contains_database_band(used, plan[j].database_band)
              => Share(at, plan[i]) = Share(at, plan[j])
        /\ \A i \in DOMAIN plan : Share(at, plan[i]) > 0
    BY <2>6, <2>7, <2>8, Zenon
  <2> QED
    BY <2>9, Zenon DEF ScheduleSound, Share, plan, used, m, at
<1> QED
  BY <1>1, <1>2

(***************************************************************************)
(* The run's property: options that main accepts give a schedule whose     *)
(* dwells can all be tuned, and which is fair among the ranked bands and   *)
(* among the explored ones.                                                *)
(***************************************************************************)
THEOREM SchedulesSound ==
    ASSUME \A c \in invoked : /\ c.options.hop \in Seq(STRING)
                              /\ Advised(c.options, c.ranked, Plan(c.options))
    PROVE  HopScheduleSound
  BY AlwaysSound, Zenon DEF HopScheduleSound

-----------------------------------------------------------------------------
(***************************************************************************)
(* The fields of the records.                                              *)
(***************************************************************************)
AdvRecord(a) ==
    a = [pc |-> a.pc, next |-> a.next, service |-> a.service, left |-> a.left,
         stopping |-> a.stopping, update_ready |-> a.update_ready,
         pending |-> a.pending, first |-> a.first]

MainRecord(m) ==
    m = [pc |-> m.pc, left |-> m.left, frame |-> m.frame, exit_flag |-> m.exit_flag,
         fresh |-> m.fresh, joining |-> m.joining]

HopRecord(h) ==
    h = [advised |-> h.advised, advice_available |-> h.advice_available, band |-> h.band]

(***************************************************************************)
(* The threads. AdvisorShape is the type invariant; the records are those  *)
(* of Init, and the thread is asked to stop exactly when main leaves.      *)
(***************************************************************************)
AdvTyped ==
    /\ AdvRecord(adv)
    /\ adv.pc \in {"wait", "query", "exited"}
    /\ adv.next \in Nat /\ adv.left \in Nat
    /\ adv.service \in 1 .. Len(Services)
    /\ adv.stopping \in BOOLEAN /\ adv.update_ready \in BOOLEAN
    /\ adv.first \in {"none", "advice", "failed"}

MainTyped ==
    /\ MainRecord(main)
    /\ main.pc \in {"boot", "clock", "wait", "capture", "join", "done"}
    /\ main.left \in Int /\ main.frame \in Nat /\ main.joining \in Nat
    /\ main.exit_flag \in BOOLEAN /\ main.fresh \in BOOLEAN

HopTyped == HopRecord(hop) /\ hop.advice_available \in BOOLEAN

AdvisorShape ==
    /\ mode \in {"WSPR", "FT8"} /\ now \in Nat
    /\ AdvTyped /\ MainTyped /\ HopTyped
    /\ last.dwell \in Nat
    /\ adv.stopping <=> main.pc \in {"join", "done"}

(***************************************************************************)
(* The frame main waits for is in the future, and the band tuned to is     *)
(* that of its dwell; the last capture was on the band the plan in use     *)
(* gives for its dwell, or a later dwell has been chosen since.            *)
(***************************************************************************)
DwellPlanned ==
    /\ main.pc = "wait" =>
          /\ now <= main.frame /\ main.frame % T.slot = 0
          /\ hop.band = BandFor(hop.advised, hop.advice_available, main.frame)
    /\ last.band # NoBand =>
          /\ last.dwell <= now \div T.dwell
          /\ main.pc # "boot"
          /\ main.pc \in {"clock", "wait", "capture"} =>
                \/ main.pc = "wait" /\ last.dwell < main.frame \div T.dwell
                \/ \A frame \in Nat :
                      frame \div T.dwell = last.dwell =>
                         last.band = BandFor(hop.advised, hop.advice_available, frame)

DwellInv == AdvisorShape /\ DwellPlanned

(***************************************************************************)
(* The time the round of queries under way may still take.                 *)
(***************************************************************************)
Round == IF mode = "FT8" THEN T.timeout["monitors"] + T.timeout["regional"]
         ELSE T.timeout["wspr.live"]

RoundLeft ==
    IF adv.pc = "query"
    THEN adv.left + (IF mode = "FT8" /\ adv.service = 1 THEN T.timeout["regional"] ELSE 0)
    ELSE 0

(***************************************************************************)
(* The time spent in the join and what is left of the round are together   *)
(* no more than a round.                                                   *)
(***************************************************************************)
StopPace ==
    /\ main.pc \notin {"join", "done"} => main.joining = 0
    /\ main.joining + RoundLeft <= Round

StopInv == AdvisorShape /\ StopPace

(***************************************************************************)
(* While main waits at boot for the first round, it has longer to wait     *)
(* than the round may take; advice of the first round is then taken.       *)
(***************************************************************************)
BootWaits ==
    /\ adv.first = "none" => ~adv.update_ready
    /\ mode = "FT8" /\ main.pc = "boot" =>
          /\ adv.first = "advice" => adv.update_ready
          /\ adv.first = "none" =>
                \/ adv.pc = "wait" /\ adv.next <= now /\ main.left > Round
                \/ adv.pc = "query" /\ main.left > RoundLeft
    /\ mode = "FT8" /\ main.pc \in {"clock", "wait", "capture"} =>
          /\ adv.first # "none"
          /\ adv.first = "advice" => hop.advice_available

BootInv == StopInv /\ BootWaits

(***************************************************************************)
(* WSPR: a query is under way only for its timeout after the second of the *)
(* slot it is due at, and a capture ends at the end of its slot.           *)
(***************************************************************************)
QueryPhased ==
    mode = "WSPR" =>
        /\ adv.next % T.slot = T.phase
        /\ adv.pc = "wait" => now <= adv.next
        /\ adv.pc = "query" => adv.next <= now /\ now <= adv.next + T.timeout["wspr.live"]
                               /\ now + adv.left <= adv.next + T.timeout["wspr.live"]

CapturePhased ==
    /\ main.frame % T.slot = 0
    /\ main.pc = "wait" => now <= main.frame
    /\ main.pc = "capture" => main.left >= -1 /\ now + main.left = main.frame + T.capture
    /\ main.fresh =>
          /\ main.pc \in {"clock", "join", "done"}
          /\ now \in {main.frame + T.capture, main.frame + T.capture + 1}

PhaseInv == AdvisorShape /\ QueryPhased /\ CapturePhased

-----------------------------------------------------------------------------
(***************************************************************************)
(* Arithmetic of slots: whole dwells and slots passed.                     *)
(***************************************************************************)
LEMMA Quotient ==
    ASSUME NEW a \in Nat, NEW d \in Nat \ {0}
    PROVE  /\ a \div d \in Nat /\ a % d \in 0 .. (d - 1)
           /\ a = d * (a \div d) + (a % d)
  BY Z3

LEMMA DivideOrder ==
    ASSUME NEW a \in Nat, NEW b \in Nat, NEW d \in Nat \ {0}
    PROVE  /\ a <= b => a \div d <= b \div d
           /\ a < b /\ b % d = 0 => a \div d < b \div d
<1> DEFINE p == a \div d
           q == b \div d
           r == a % d
           s == b % d
<1>1. /\ p \in Nat /\ r \in 0 .. (d - 1) /\ a = d * p + r
      /\ q \in Nat /\ s \in 0 .. (d - 1) /\ b = d * q + s
  BY Quotient
<1> HIDE DEF p, q, r, s
<1>2. \A x, y \in Int : x >= y => d * x >= d * y
  BY Z3
<1>3. ASSUME p >= q + 1 PROVE a >= b - s + d
  <2>1. d * p >= d * (q + 1)
    BY <1>1, <1>2, <1>3
  <2>2. d * (q + 1) = d * q + d
    BY <1>1, Z3
  <2>3. d * p \in Int /\ d * q \in Int
    BY <1>1
  <2> QED
    BY <1>1, <2>1, <2>2, <2>3
<1>4. a <= b => p <= q
  BY <1>1, <1>3
<1>5. a < b /\ s = 0 => p < q
  <2> SUFFICES ASSUME a < b, s = 0, p >= q PROVE FALSE
    BY <1>1
  <2>1. d * p >= d * q /\ d * p \in Int /\ d * q \in Int
    BY <1>1, <1>2
  <2> QED
    BY <1>1, <2>1
<1> QED
  BY <1>4, <1>5 DEF p, q, s

LEMMA SlotAhead ==
    ASSUME NEW a \in Nat, NEW d \in Nat \ {0}
    PROVE  /\ (a \div d + 1) * d \in Nat /\ (a \div d + 1) * d > a
           /\ ((a \div d + 1) * d) % d = 0
<1> DEFINE p == a \div d
           r == a % d
<1>1. p \in Nat /\ r \in 0 .. (d - 1) /\ a = d * p + r
  BY Quotient
<1> HIDE DEF p, r
<1>2. (p + 1) * d = d * p + d /\ d * p \in Nat
  BY <1>1, Z3
<1>3. (p + 1) * d = d * (p + 1) + 0
  BY <1>1, Z3
<1>4. (d * (p + 1) + 0) % d = 0
  BY <1>1, RemainderIs
<1> QED
  BY <1>1, <1>2, <1>3, <1>4 DEF p

(***************************************************************************)
(* Slots are of one length: going on by a multiple of it keeps the phase,  *)
(* and of two times with their phases the one in the earlier slot is       *)
(* earlier by at least what the phases leave.                              *)
(***************************************************************************)
LEMMA PhaseKept ==
    ASSUME NEW a \in Nat, NEW b \in Nat, NEW d \in Nat \ {0}, b % d = 0
    PROVE  (a + b) % d = a % d
<1> DEFINE p == a \div d
           q == b \div d
           r == a % d
<1>1. /\ p \in Nat /\ r \in 0 .. (d - 1) /\ a = d * p + r
      /\ q \in Nat /\ b = d * q + (b % d)
  BY Quotient
<1> HIDE DEF p, q, r
<1>2. d * (p + q) = d * p + d * q /\ d * p \in Nat /\ d * q \in Nat
  BY <1>1, Z3
<1>3. a + b = d * (p + q) + r
  BY <1>1, <1>2
<1>4. p + q \in Int /\ d \in Nat /\ d > 0 /\ r \in Int /\ 0 <= r /\ r < d
  BY <1>1
<1>5. (d * (p + q) + r) % d = r
  BY <1>4, RemainderIs
<1> QED
  BY <1>3, <1>5 DEF r

LEMMA PhaseReached ==
    ASSUME NEW t \in Nat, NEW d \in Nat \ {0}, NEW c \in Nat, c < d
    PROVE  /\ t + ((c + d - (t % d)) % d) >= t
           /\ ((t + ((c + d - (t % d)) % d)) % d) = c
<1> DEFINE r == t % d
           q == t \div d
<1>1. q \in Nat /\ r \in 0 .. (d - 1) /\ t = d * q + r
  BY Quotient
<1> HIDE DEF r, q
<1>2. d * (q + 1) = d * q + d /\ d * q \in Nat /\ d > 0
      /\ q \in Int /\ q + 1 \in Int /\ d \in Nat
  BY <1>1, Z3
<1>3. CASE c < r
  <2> DEFINE k == c + d - r
  <2>1. k \in Int /\ 0 <= k /\ k < d /\ t + k = d * (q + 1) + c
    BY <1>1, <1>2, <1>3
  <2> HIDE DEF k
  <2>2. (d * 0 + k) % d = k /\ d * 0 + k = k
    BY <1>2, <2>1, RemainderIs
  <2>3. (d * (q + 1) + c) % d = c
    BY <1>2, RemainderIs
  <2>4. (k % d) = k /\ t + k >= t /\ ((t + k) % d) = c
    BY <2>1, <2>2, <2>3
  <2> QED
    BY <2>4 DEF k, r
<1>4. CASE ~(c < r)
  <2> DEFINE k == c - r
  <2>1. k \in Int /\ 0 <= k /\ k < d /\ t + k = d * q + c /\ c + d - r = d * 1 + k
    BY <1>1, <1>2, <1>4
  <2> HIDE DEF k
  <2>2. ((d * 1 + k) % d) = k
    BY <1>2, <2>1, RemainderIs
  <2>3. ((d * q + c) % d) = c
    BY <1>2, RemainderIs
  <2>4. ((c + d - r) % d) = k /\ t + k >= t /\ ((t + k) % d) = c
    BY <2>1, <2>2, <2>3
  <2> QED
    BY <2>4 DEF r
<1> QED
  BY <1>3, <1>4

LEMMA PhasesApart ==
    ASSUME NEW f \in Nat, NEW t \in Nat, NEW d \in Nat \ {0},
           f % d = 0, t > f
    PROVE  t < f + d => t = f + (t % d)
<1> SUFFICES ASSUME t < f + d PROVE t = f + (t % d)
  OBVIOUS
<1> DEFINE p == f \div d
           k == t - f
<1>1. p \in Nat /\ f = d * p + (f % d)
  BY Quotient
<1> HIDE DEF p
<1>2. t = d * p + k /\ p \in Int /\ d \in Nat /\ d > 0 /\ k \in Int /\ 0 <= k /\ k < d
  BY <1>1
<1> HIDE DEF k
<1>3. (d * p + k) % d = k
  BY <1>2, RemainderIs
<1> QED
  BY <1>2, <1>3 DEF k
-----------------------------------------------------------------------------
(***************************************************************************)
(* The timers of the mode, and the services it asks.                       *)
(***************************************************************************)
LEMMA TimesOfMode ==
    ASSUME mode \in {"WSPR", "FT8"}
    PROVE  /\ T.slot \in Nat \ {0} /\ T.dwell \in Nat \ {0}
           /\ T.capture \in Nat /\ T.phase \in Nat /\ T.interval \in Nat /\ T.boot \in Nat
           /\ T.interval % T.slot = 0 /\ T.capture < T.slot
           /\ Start[mode] \subseteq Nat
  BY TimingAssumption DEF T

LEMMA ServicesOfMode ==
    ASSUME mode \in {"WSPR", "FT8"}
    PROVE  /\ mode = "FT8" =>
                 /\ Len(Services) = 2
                 /\ Services[1] = "monitors" /\ Services[2] = "regional"
                 /\ T.timeout["monitors"] \in Nat /\ T.timeout["regional"] \in Nat
                 /\ T.timeout["monitors"] + T.timeout["regional"] < T.boot
           /\ mode = "WSPR" =>
                 /\ Len(Services) = 1 /\ Services[1] = "wspr.live"
                 /\ T.timeout["wspr.live"] \in Nat
                 /\ 0 < T.phase /\ T.phase + T.timeout["wspr.live"] < T.capture
                 /\ T.timeout["wspr.live"] < T.interval
           /\ Len(Services) \in Nat \ {0}
           /\ \A i \in 1 .. Len(Services) : T.timeout[Services[i]] \in Nat
<1>1. CASE mode = "FT8"
  <2>1. Services = <<"monitors", "regional">> /\ T = Timing["FT8"]
    BY <1>1 DEF Services, T
  <2> QED
    BY <1>1, <2>1, TimingAssumption
<1>2. CASE mode = "WSPR"
  <2>1. Services = <<"wspr.live">> /\ T = Timing["WSPR"]
    BY <1>2 DEF Services, T
  <2> QED
    BY <1>2, <2>1, TimingAssumption
<1> QED
  BY <1>1, <1>2

(***************************************************************************)
(* Every way out of the loop asks the advisor to stop.                     *)
(***************************************************************************)
LEMMA AskedToStop ==
    ASSUME NEW a, AdvRecord(a), NEW b, b = [a EXCEPT !.stopping = TRUE]
    PROVE  /\ AdvRecord(b) /\ b.stopping = TRUE
           /\ b.pc = a.pc /\ b.next = a.next /\ b.service = a.service
           /\ b.left = a.left /\ b.first = a.first /\ b.update_ready = a.update_ready
  BY DEF AdvRecord

(***************************************************************************)
(* What each action does, field by field.                                  *)
(***************************************************************************)
LEMMA WaitEffect ==
    ASSUME AdvisorShape, wait_until
    PROVE  /\ adv.pc = "wait" /\ UNCHANGED <<mode, now, main, hop, last>>
           /\ AdvRecord(adv')
           /\ adv'.next = adv.next /\ adv'.stopping = adv.stopping
           /\ adv'.update_ready = adv.update_ready /\ adv'.first = adv.first
           /\ \/ adv.stopping /\ adv'.pc = "exited" /\ adv'.service = adv.service
                 /\ adv'.left = adv.left
              \/ /\ ~adv.stopping /\ now >= adv.next
                 /\ adv'.pc = "query" /\ adv'.service = 1
                 /\ adv'.left = T.timeout[Services[1]]
  BY DEF wait_until, WaitOver, AdvisorShape, AdvTyped, MainTyped, AdvRecord

LEMMA QueryEffect ==
    ASSUME AdvisorShape, QueryEnds
    PROVE  /\ adv.pc = "query" /\ UNCHANGED <<mode, now, main, hop, last>>
           /\ AdvRecord(adv') /\ adv'.stopping = adv.stopping
           /\ \/ /\ adv'.pc = "wait" /\ adv'.next = next_query /\ adv'.left = 0
                 /\ adv'.service = adv.service /\ adv'.update_ready = TRUE
                 /\ adv'.first = IF adv.first = "none" THEN "advice" ELSE adv.first
              \/ /\ adv.service < Len(Services)
                 /\ adv'.pc = "query" /\ adv'.next = adv.next
                 /\ adv'.service = adv.service + 1
                 /\ adv'.left = T.timeout[Services[adv.service + 1]]
                 /\ adv'.update_ready = adv.update_ready /\ adv'.first = adv.first
              \/ /\ ~(adv.service < Len(Services))
                 /\ adv'.pc = "wait" /\ adv'.next = next_query /\ adv'.left = 0
                 /\ adv'.service = adv.service /\ adv'.update_ready = adv.update_ready
                 /\ adv'.first = IF adv.first = "none" THEN "failed" ELSE adv.first
<1>0. AdvRecord(adv) /\ adv.pc = "query" /\ UNCHANGED <<mode, now, main, hop, last>>
  BY DEF QueryEnds, AdvisorShape, AdvTyped, MainTyped
<1>d. PICK done : done = [adv EXCEPT !.pc = "wait", !.next = next_query, !.left = 0]
  OBVIOUS
<1>1. PICK plan \in Outcomes(Services[adv.service]) :
        adv' = IF plan # << >>
               THEN [done EXCEPT !.pending = plan, !.update_ready = TRUE,
                                 !.first = IF @ = "none" THEN "advice" ELSE @]
               ELSE IF adv.service < Len(Services)
               THEN [adv EXCEPT !.service = @ + 1,
                                !.left = T.timeout[Services[adv.service + 1]]]
               ELSE [done EXCEPT !.first = IF @ = "none" THEN "failed" ELSE @]
  BY <1>d DEF QueryEnds
<1>2. AdvRecord(done) /\ done.pc = "wait" /\ done.next = next_query /\ done.left = 0
      /\ done.service = adv.service /\ done.update_ready = adv.update_ready
      /\ done.first = adv.first /\ done.stopping = adv.stopping
  BY <1>0, <1>d DEF AdvRecord
<1>3. CASE plan # << >>
  BY <1>0, <1>1, <1>2, <1>3 DEF AdvRecord
<1>4. CASE plan = << >> /\ adv.service < Len(Services)
  BY <1>0, <1>1, <1>4 DEF AdvRecord
<1>5. CASE plan = << >> /\ ~(adv.service < Len(Services))
  BY <1>0, <1>1, <1>2, <1>5 DEF AdvRecord
<1> QED
  BY <1>3, <1>4, <1>5

LEMMA BootEffect ==
    ASSUME AdvisorShape, MainBoot
    PROVE  /\ main.pc = "boot" /\ (adv.update_ready \/ main.left = 0)
           /\ UNCHANGED <<mode, now, last>>
           /\ AdvRecord(adv') /\ adv'.update_ready = FALSE
           /\ adv'.pc = adv.pc /\ adv'.next = adv.next /\ adv'.service = adv.service
           /\ adv'.left = adv.left /\ adv'.stopping = adv.stopping
           /\ adv'.first = adv.first
           /\ HopRecord(hop')
           /\ hop'.advice_available = (hop.advice_available \/ adv.update_ready)
           /\ MainRecord(main') /\ main'.pc = "clock" /\ main'.left = 0
           /\ main'.frame = main.frame /\ main'.exit_flag = main.exit_flag
           /\ main'.fresh = main.fresh /\ main'.joining = main.joining
<1>1. AdvRecord(adv) /\ MainRecord(main) /\ HopRecord(hop)
      /\ hop.advice_available \in BOOLEAN /\ adv.update_ready \in BOOLEAN
  BY DEF AdvisorShape, AdvTyped, MainTyped, HopTyped
<1>2. /\ main.pc = "boot" /\ (adv.update_ready \/ main.left = 0)
      /\ UNCHANGED <<mode, now, last>>
  BY DEF MainBoot
<1>3. /\ AdvRecord(adv') /\ adv'.update_ready = FALSE
      /\ adv'.pc = adv.pc /\ adv'.next = adv.next /\ adv'.service = adv.service
      /\ adv'.left = adv.left /\ adv'.stopping = adv.stopping
      /\ adv'.first = adv.first
  BY <1>1 DEF MainBoot, AdvRecord
<1>4. /\ HopRecord(hop')
      /\ hop'.advice_available = (hop.advice_available \/ adv.update_ready)
  BY <1>1 DEF MainBoot, HopRecord
<1>5. /\ MainRecord(main') /\ main'.pc = "clock" /\ main'.left = 0
      /\ main'.frame = main.frame /\ main'.exit_flag = main.exit_flag
      /\ main'.fresh = main.fresh /\ main'.joining = main.joining
  BY <1>1 DEF MainBoot, MainRecord
<1> QED
  BY <1>2, <1>3, <1>4, <1>5

(* The state after main has left its loop.                                 *)
LeavesLoop ==
    /\ AdvRecord(adv') /\ adv'.stopping = TRUE
    /\ adv'.pc = adv.pc /\ adv'.next = adv.next /\ adv'.service = adv.service
    /\ adv'.left = adv.left /\ adv'.first = adv.first
    /\ adv'.update_ready \in BOOLEAN
    /\ adv'.update_ready => adv.update_ready
    /\ MainRecord(main') /\ main'.pc = "join" /\ main'.left = 0
    /\ main'.frame = main.frame /\ main'.exit_flag = TRUE
    /\ main'.fresh = main.fresh /\ main'.joining = main.joining
    /\ HopRecord(hop') /\ hop'.advice_available \in BOOLEAN
    /\ UNCHANGED <<mode, now, last>>

LEMMA LeaveEffect ==
    ASSUME AdvisorShape,
           main' = Leave,
           \/ adv' = Stopped
           \/ \E take \in BOOLEAN : adv' = [Stopped EXCEPT !.update_ready = @ /\ ~take],
           \/ hop' = hop
           \/ \E plan, some : /\ some \in BOOLEAN
                              /\ hop' = [hop EXCEPT !.advised = plan, !.advice_available = some],
           UNCHANGED <<mode, now, last>>
    PROVE  LeavesLoop
<1>1. AdvRecord(adv) /\ MainRecord(main) /\ HopRecord(hop)
      /\ hop.advice_available \in BOOLEAN /\ adv.update_ready \in BOOLEAN
  BY DEF AdvisorShape, AdvTyped, MainTyped, HopTyped
<1>2. /\ AdvRecord(Stopped) /\ Stopped.stopping = TRUE
      /\ Stopped.pc = adv.pc /\ Stopped.next = adv.next /\ Stopped.service = adv.service
      /\ Stopped.left = adv.left /\ Stopped.first = adv.first
      /\ Stopped.update_ready = adv.update_ready
  BY <1>1, AskedToStop DEF Stopped
<1>3. /\ AdvRecord(adv') /\ adv'.stopping = TRUE
      /\ adv'.pc = adv.pc /\ adv'.next = adv.next /\ adv'.service = adv.service
      /\ adv'.left = adv.left /\ adv'.first = adv.first
      /\ adv'.update_ready \in BOOLEAN
      /\ (adv'.update_ready => adv.update_ready)
  <2>1. CASE adv' = Stopped
    BY <1>1, <1>2, <2>1
  <2>2. CASE \E take \in BOOLEAN : adv' = [Stopped EXCEPT !.update_ready = @ /\ ~take]
    <3>1. PICK take \in BOOLEAN : adv' = [Stopped EXCEPT !.update_ready = @ /\ ~take]
      BY <2>2
    <3>2. adv'.update_ready = (adv.update_ready /\ ~take)
      BY <1>2, <3>1 DEF AdvRecord
    <3>3. AdvRecord(adv') /\ adv'.stopping = TRUE
          /\ adv'.pc = adv.pc /\ adv'.next = adv.next /\ adv'.service = adv.service
          /\ adv'.left = adv.left /\ adv'.first = adv.first
      BY <1>2, <3>1 DEF AdvRecord
    <3> QED
      BY <1>1, <3>2, <3>3
  <2> QED
    BY <2>1, <2>2
<1>4. /\ MainRecord(main') /\ main'.pc = "join" /\ main'.left = 0
      /\ main'.frame = main.frame /\ main'.exit_flag = TRUE
      /\ main'.fresh = main.fresh /\ main'.joining = main.joining
  BY <1>1 DEF Leave, MainRecord
<1>5. HopRecord(hop') /\ hop'.advice_available \in BOOLEAN
  BY <1>1 DEF HopRecord
<1> QED
  BY <1>3, <1>4, <1>5 DEF LeavesLoop
(* The state after main has chosen the next frame and its band.            *)
ChoosesFrame ==
    /\ HopRecord(hop') /\ hop'.advice_available \in BOOLEAN
    /\ hop.advice_available => hop'.advice_available
    /\ hop'.band = BandFor(hop'.advised, hop'.advice_available, next_frame_start)
    /\ \/ (next_frame_start % T.dwell) = 0
       \/ hop'.advised = hop.advised /\ hop'.advice_available = hop.advice_available
    /\ MainRecord(main') /\ main'.pc = "wait" /\ main'.frame = next_frame_start
    /\ main'.fresh = FALSE /\ main'.left = main.left
    /\ main'.exit_flag = main.exit_flag /\ main'.joining = main.joining
    /\ AdvRecord(adv') /\ adv'.pc = adv.pc /\ adv'.next = adv.next
    /\ adv'.service = adv.service /\ adv'.left = adv.left /\ adv'.first = adv.first
    /\ adv'.stopping = adv.stopping /\ adv'.update_ready \in BOOLEAN
    /\ adv'.update_ready => adv.update_ready /\ (next_frame_start % T.dwell) # 0
    /\ UNCHANGED <<mode, now, last>>

LEMMA SelectEffect ==
    ASSUME AdvisorShape, MainSelect
    PROVE  main.pc = "clock" /\ (LeavesLoop \/ ChoosesFrame)
<1>1. AdvRecord(adv) /\ MainRecord(main) /\ HopRecord(hop)
      /\ hop.advice_available \in BOOLEAN /\ adv.update_ready \in BOOLEAN
  BY DEF AdvisorShape, AdvTyped, MainTyped, HopTyped
<1> DEFINE take == adv.update_ready /\ (next_frame_start % T.dwell) = 0
           plan == IF take THEN adv.pending ELSE hop.advised
           some == take \/ hop.advice_available
           band == BandFor(plan, some, next_frame_start)
<1>2. /\ take \in BOOLEAN /\ some \in BOOLEAN
      /\ take = (adv.update_ready /\ (next_frame_start % T.dwell) = 0)
      /\ plan = (IF take THEN adv.pending ELSE hop.advised)
      /\ some = (take \/ hop.advice_available)
      /\ band = BandFor(plan, some, next_frame_start)
  BY <1>1
<1>3. /\ main.pc = "clock" /\ UNCHANGED <<mode, now, last>>
      /\ \/ /\ hop' = [advised |-> plan, advice_available |-> some, band |-> band]
            /\ main' = [main EXCEPT !.pc = "wait", !.frame = next_frame_start, !.fresh = FALSE]
            /\ adv' = [adv EXCEPT !.update_ready = @ /\ ~take]
         \/ /\ hop' = [hop EXCEPT !.advised = plan, !.advice_available = some]
            /\ main' = Leave
            /\ adv' = [Stopped EXCEPT !.update_ready = @ /\ ~take]
  BY <1>1, <1>2 DEF MainSelect, TakesAdvice
<1> HIDE DEF take, plan, some, band
<1>4. CASE /\ hop' = [hop EXCEPT !.advised = plan, !.advice_available = some]
           /\ main' = Leave
           /\ adv' = [Stopped EXCEPT !.update_ready = @ /\ ~take]
  BY <1>2, <1>3, <1>4, LeaveEffect
<1>5. CASE /\ hop' = [advised |-> plan, advice_available |-> some, band |-> band]
           /\ main' = [main EXCEPT !.pc = "wait", !.frame = next_frame_start, !.fresh = FALSE]
           /\ adv' = [adv EXCEPT !.update_ready = @ /\ ~take]
  <2>1. /\ HopRecord(hop') /\ hop'.advised = plan /\ hop'.advice_available = some
        /\ hop'.band = band
    BY <1>5 DEF HopRecord
  <2>2. /\ MainRecord(main') /\ main'.pc = "wait" /\ main'.frame = next_frame_start
        /\ main'.fresh = FALSE /\ main'.left = main.left
        /\ main'.exit_flag = main.exit_flag /\ main'.joining = main.joining
    BY <1>1, <1>5 DEF MainRecord
  <2>3. /\ AdvRecord(adv') /\ adv'.pc = adv.pc /\ adv'.next = adv.next
        /\ adv'.service = adv.service /\ adv'.left = adv.left /\ adv'.first = adv.first
        /\ adv'.stopping = adv.stopping
        /\ adv'.update_ready = (adv.update_ready /\ ~take)
    BY <1>1, <1>5 DEF AdvRecord
  <2>4. \/ (next_frame_start % T.dwell) = 0
        \/ plan = hop.advised /\ some = hop.advice_available
    BY <1>1, <1>2
  <2>5. /\ adv'.update_ready \in BOOLEAN
        /\ adv'.update_ready => adv.update_ready /\ (next_frame_start % T.dwell) # 0
    BY <1>1, <1>2, <2>3
  <2>6. hop.advice_available => some
    BY <1>1, <1>2
  <2> QED
    BY <1>2, <1>3, <2>1, <2>2, <2>3, <2>4, <2>5, <2>6 DEF ChoosesFrame
<1> QED
  BY <1>3, <1>4, <1>5

LEMMA CaptureEffect ==
    ASSUME AdvisorShape, MainCapture
    PROVE  /\ main.pc = "wait" /\ now >= main.frame /\ UNCHANGED <<mode, now, adv, hop>>
           /\ MainRecord(main') /\ main'.pc = "capture" /\ main'.left = T.capture
           /\ main'.frame = main.frame /\ main'.exit_flag = main.exit_flag
           /\ main'.fresh = main.fresh /\ main'.joining = main.joining
           /\ last'.dwell = now \div T.dwell /\ last'.band = hop.band
  BY DEF AdvisorShape, AdvTyped, MainTyped, MainCapture, MainRecord

LEMMA CapturedEffect ==
    ASSUME AdvisorShape, MainCaptured
    PROVE  /\ main.pc = "capture"
           /\ \/ LeavesLoop
              \/ /\ UNCHANGED <<mode, now, adv, hop, last>> /\ main.left <= 0
                 /\ MainRecord(main') /\ main'.pc = "clock" /\ main'.left = 0
                 /\ main'.fresh = TRUE /\ main'.frame = main.frame
                 /\ main'.exit_flag = main.exit_flag /\ main'.joining = main.joining
<1>1. AdvRecord(adv) /\ MainRecord(main)
  BY DEF AdvisorShape, AdvTyped, MainTyped, HopTyped
<1>2. CASE main' = Leave /\ adv' = Stopped
  BY <1>2, LeaveEffect DEF MainCaptured
<1>3. CASE /\ main.left <= 0 /\ UNCHANGED adv
           /\ main' = [main EXCEPT !.pc = "clock", !.left = 0, !.fresh = TRUE]
  BY <1>1, <1>3 DEF MainCaptured, MainRecord
<1> QED
  BY <1>2, <1>3 DEF MainCaptured

LEMMA LeavingEffect ==
    ASSUME AdvisorShape, MainLeave
    PROVE  main.pc \in {"clock", "wait", "capture"} /\ LeavesLoop
  BY LeaveEffect DEF MainLeave

LEMMA JoinEffect ==
    ASSUME AdvisorShape, MainJoin
    PROVE  /\ main.pc = "join" /\ adv.pc = "exited" /\ UNCHANGED <<mode, now, adv, hop, last>>
           /\ MainRecord(main') /\ main'.pc = "done" /\ main'.left = main.left
           /\ main'.frame = main.frame /\ main'.exit_flag = main.exit_flag
           /\ main'.fresh = main.fresh /\ main'.joining = main.joining
  BY DEF AdvisorShape, AdvTyped, MainTyped, MainJoin, MainRecord

LEMMA SignalEffect ==
    ASSUME AdvisorShape, Signal
    PROVE  /\ UNCHANGED <<mode, now, adv, hop, last>>
           /\ MainRecord(main') /\ main'.pc = main.pc /\ main'.left = main.left
           /\ main'.frame = main.frame /\ main'.exit_flag = TRUE
           /\ main'.fresh = main.fresh /\ main'.joining = main.joining
  BY DEF AdvisorShape, AdvTyped, MainTyped, Signal, MainRecord

LEMMA TickEffect ==
    ASSUME AdvisorShape, Tick
    PROVE  /\ now' = now + 1 /\ AdvisorIdle /\ MainIdle /\ UNCHANGED <<mode, hop, last>>
           /\ AdvRecord(adv') /\ adv'.pc = adv.pc /\ adv'.next = adv.next
           /\ adv'.service = adv.service /\ adv'.first = adv.first
           /\ adv'.stopping = adv.stopping /\ adv'.update_ready = adv.update_ready
           /\ adv'.left = (IF adv.pc = "query" THEN adv.left - 1 ELSE adv.left)
           /\ MainRecord(main') /\ main'.pc = main.pc /\ main'.fresh = FALSE
           /\ main'.left = (IF main.pc \in {"boot", "capture"} THEN main.left - 1 ELSE main.left)
           /\ main'.joining = (IF main.pc = "join" THEN main.joining + 1 ELSE main.joining)
           /\ main'.frame = main.frame /\ main'.exit_flag = main.exit_flag
<1>1. AdvRecord(adv) /\ MainRecord(main)
  BY DEF AdvisorShape, AdvTyped, MainTyped, HopTyped
<1>2. now' = now + 1 /\ AdvisorIdle /\ MainIdle /\ UNCHANGED <<mode, hop, last>>
  BY DEF Tick
<1>3. /\ AdvRecord(adv') /\ adv'.pc = adv.pc /\ adv'.next = adv.next
      /\ adv'.service = adv.service /\ adv'.first = adv.first
      /\ adv'.stopping = adv.stopping /\ adv'.update_ready = adv.update_ready
      /\ adv'.left = (IF adv.pc = "query" THEN adv.left - 1 ELSE adv.left)
  BY <1>1 DEF Tick, AdvRecord
<1>4. /\ MainRecord(main') /\ main'.pc = main.pc /\ main'.fresh = FALSE
      /\ main'.left = (IF main.pc \in {"boot", "capture"} THEN main.left - 1 ELSE main.left)
      /\ main'.joining = (IF main.pc = "join" THEN main.joining + 1 ELSE main.joining)
      /\ main'.frame = main.frame /\ main'.exit_flag = main.exit_flag
  BY <1>1 DEF Tick, MainRecord
<1> QED
  BY <1>2, <1>3, <1>4

-----------------------------------------------------------------------------
(***************************************************************************)
(* The shape is kept.                                                      *)
(***************************************************************************)
LEMMA ShapeInitially == Init => AdvisorShape
<1> SUFFICES ASSUME Init PROVE AdvisorShape
  OBVIOUS
<1>1. mode \in {"WSPR", "FT8"} /\ now \in Nat /\ Len(Services) \in Nat \ {0}
      /\ T.boot \in Nat
  BY TimesOfMode, ServicesOfMode DEF Init
<1>2. first_query(now) \in Nat
  <2>1. T.slot \in Nat \ {0} /\ T.phase \in Nat /\ (now % T.slot) \in 0 .. (T.slot - 1)
    BY <1>1, TimesOfMode, Quotient
  <2>2. T.phase + T.slot - (now % T.slot) \in Nat
    BY <2>1
  <2>3. \A a \in Nat : (a % T.slot) \in Nat
    BY <2>1, Quotient
  <2> QED
    <3> DEFINE k == T.phase + T.slot - (now % T.slot)
    <3>1. (k % T.slot) \in Nat
      BY <2>2, <2>3
    <3>2. first_query(now) = (IF mode = "FT8" THEN now ELSE now + (k % T.slot))
      BY DEF first_query
    <3> HIDE DEF k
    <3> QED
      BY <1>1, <3>1, <3>2
<1>3. /\ AdvRecord(adv) /\ adv.pc = "wait" /\ adv.next = first_query(now)
      /\ adv.service = 1 /\ adv.left = 0 /\ adv.stopping = FALSE
      /\ adv.update_ready = FALSE /\ adv.first = "none"
  BY DEF Init, AdvRecord
<1>4. /\ MainRecord(main) /\ main.pc \in {"boot", "clock"} /\ main.left = T.boot
      /\ main.frame = 0 /\ main.joining = 0 /\ main.exit_flag = FALSE
      /\ main.fresh = FALSE
  BY DEF Init, MainRecord
<1>5. /\ HopRecord(hop) /\ hop.advice_available = FALSE /\ last.dwell = 0
  BY DEF Init, HopRecord
<1>6. 0 \in Nat /\ 0 \in Int /\ T.boot \in Int /\ 1 \in 1 .. Len(Services)
      /\ TRUE \in BOOLEAN /\ FALSE \in BOOLEAN
  BY <1>1
<1>7. AdvTyped
  BY <1>2, <1>3, <1>6 DEF AdvTyped
<1>8. MainTyped
  BY <1>4, <1>6 DEF MainTyped
<1>9. ~(adv.stopping) /\ main.pc \notin {"join", "done"}
  BY <1>3, <1>4
<1> QED
  BY <1>1, <1>5, <1>6, <1>7, <1>8, <1>9 DEF AdvisorShape, HopTyped

LEMMA ShapeStep == AdvisorShape /\ [Next]_vars => AdvisorShape'
<1> SUFFICES ASSUME AdvisorShape, [Next]_vars PROVE AdvisorShape'
  OBVIOUS
<1>0. /\ T.slot \in Nat \ {0} /\ T.dwell \in Nat \ {0} /\ T.capture \in Nat
      /\ T.interval \in Nat /\ Len(Services) \in Nat \ {0}
      /\ \A i \in 1 .. Len(Services) : T.timeout[Services[i]] \in Nat
  BY TimesOfMode, ServicesOfMode DEF AdvisorShape
<1>c. 0 \in Nat /\ 0 \in Int /\ TRUE \in BOOLEAN /\ FALSE \in BOOLEAN
  OBVIOUS
<1>s. mode' = mode => Services' = Services
  BY DEF Services
<1>n. next_query \in Nat /\ next_frame_start \in Nat /\ now \div T.dwell \in Nat
  <2>1. now \in Nat /\ adv.next \in Nat
    BY DEF AdvisorShape, AdvTyped
  <2>2. next_query \in Nat
    BY <1>0, <2>1 DEF next_query
  <2> QED
    BY <1>0, <2>1, <2>2, SlotAhead, Quotient DEF next_frame_start
<1>t. /\ mode \in {"WSPR", "FT8"} /\ now \in Nat /\ last.dwell \in Nat
      /\ AdvTyped /\ MainTyped /\ HopTyped
      /\ (adv.stopping <=> main.pc \in {"join", "done"})
  BY DEF AdvisorShape
<1>a. UNCHANGED <<mode, adv>> => AdvTyped'
  BY <1>t, <1>s DEF AdvTyped
<1>m. UNCHANGED main => MainTyped'
  BY <1>t DEF MainTyped
<1>h. UNCHANGED hop => HopTyped'
  BY <1>t DEF HopTyped
<1>l. ASSUME LeavesLoop PROVE AdvisorShape'
  <2>1. AdvTyped'
    BY <1>l, <1>s, <1>t DEF LeavesLoop, AdvTyped
  <2>2. MainTyped'
    BY <1>l, <1>c, <1>t DEF LeavesLoop, MainTyped
  <2>3. HopTyped'
    BY <1>l DEF LeavesLoop, HopTyped
  <2> QED
    BY <1>l, <1>t, <2>1, <2>2, <2>3 DEF LeavesLoop, AdvisorShape
<1>1. CASE wait_until
  <2>1. AdvTyped'
    BY <1>1, <1>0, <1>s, <1>t, WaitEffect DEF AdvTyped
  <2> QED
    BY <1>1, <1>t, <1>m, <1>h, <2>1, WaitEffect DEF AdvisorShape
<1>2. CASE QueryEnds
  <2>1. AdvTyped'
    <3>1. adv'.service \in 1 .. Len(Services) /\ adv'.left \in Nat /\ adv'.next \in Nat
      <4>1. adv.service \in 1 .. Len(Services) /\ adv.next \in Nat
        BY <1>t DEF AdvTyped
      <4>2. adv.service < Len(Services) =>
              /\ adv.service + 1 \in 1 .. Len(Services)
              /\ T.timeout[Services[adv.service + 1]] \in Nat
        BY <1>0, <4>1
      <4> QED
        BY <1>2, <1>c, <1>n, <4>1, <4>2, QueryEffect
    <3>2. /\ adv'.pc \in {"wait", "query"} /\ adv'.first \in {"none", "advice", "failed"}
          /\ adv'.update_ready \in BOOLEAN
      BY <1>2, <1>c, <1>t, QueryEffect DEF AdvTyped
    <3>3. AdvRecord(adv') /\ adv'.stopping \in BOOLEAN /\ Services' = Services
      BY <1>2, <1>s, <1>t, QueryEffect DEF AdvTyped
    <3> QED
      BY <3>1, <3>2, <3>3 DEF AdvTyped
  <2> QED
    BY <1>2, <1>t, <1>m, <1>h, <2>1, QueryEffect DEF AdvisorShape
<1>3. CASE MainBoot
  <2>1. AdvTyped'
    BY <1>3, <1>s, <1>t, BootEffect DEF AdvTyped
  <2>2. MainTyped'
    BY <1>3, <1>t, BootEffect DEF MainTyped
  <2>3. HopTyped'
    BY <1>3, <1>t, BootEffect DEF HopTyped, AdvTyped
  <2> QED
    BY <1>3, <1>t, <2>1, <2>2, <2>3, BootEffect DEF AdvisorShape
<1>4. CASE MainSelect
  <2>1. ASSUME ChoosesFrame, main.pc = "clock" PROVE AdvisorShape'
    <3>1. AdvTyped'
      BY <2>1, <1>s, <1>t DEF ChoosesFrame, AdvTyped
    <3>2. MainTyped'
      BY <2>1, <1>n, <1>t DEF ChoosesFrame, MainTyped
    <3>3. HopTyped'
      BY <2>1 DEF ChoosesFrame, HopTyped
    <3> QED
      BY <2>1, <1>t, <3>1, <3>2, <3>3 DEF ChoosesFrame, AdvisorShape
  <2> QED
    BY <1>4, <1>l, <2>1, SelectEffect
<1>5. CASE MainCapture
  <2>1. MainTyped'
    BY <1>5, <1>0, <1>t, CaptureEffect DEF MainTyped
  <2> QED
    BY <1>5, <1>a, <1>h, <1>n, <1>t, <2>1, CaptureEffect DEF AdvisorShape
<1>6. CASE MainCaptured
  <2>1. CASE LeavesLoop
    BY <2>1, <1>l
  <2>2. CASE ~LeavesLoop
    <3>1. MainTyped'
      BY <1>6, <2>2, <1>c, <1>t, CapturedEffect DEF MainTyped
    <3> QED
      BY <1>6, <2>2, <1>a, <1>h, <1>t, <3>1, CapturedEffect DEF AdvisorShape
  <2> QED
    BY <2>1, <2>2
<1>7. CASE MainLeave
  BY <1>7, <1>l, LeavingEffect
<1>8. CASE MainJoin
  <2>1. MainTyped'
    BY <1>8, <1>t, JoinEffect DEF MainTyped
  <2> QED
    BY <1>8, <1>a, <1>h, <1>t, <2>1, JoinEffect DEF AdvisorShape
<1>9. CASE Signal
  <2>1. MainTyped'
    BY <1>9, <1>t, SignalEffect DEF MainTyped
  <2> QED
    BY <1>9, <1>a, <1>h, <1>t, <2>1, SignalEffect DEF AdvisorShape
<1>10. CASE Tick
  <2>1. AdvTyped'
    BY <1>10, <1>s, <1>t, TickEffect DEF AdvTyped, AdvisorIdle
  <2>2. MainTyped'
    <3>1. main'.left \in Int /\ main'.joining \in Nat /\ main'.frame \in Nat
      BY <1>10, <1>t, TickEffect DEF MainTyped
    <3> QED
      BY <1>10, <1>c, <1>t, <3>1, TickEffect DEF MainTyped
  <2>3. now' \in Nat
    BY <1>10, <1>t, TickEffect
  <2> QED
    BY <1>10, <1>h, <1>t, <2>1, <2>2, <2>3, TickEffect DEF AdvisorShape
<1>11. CASE UNCHANGED vars
  BY <1>11, <1>a, <1>m, <1>h, <1>t DEF vars, AdvisorShape
<1> QED
  BY <1>1, <1>2, <1>3, <1>4, <1>5, <1>6, <1>7, <1>8, <1>9, <1>10, <1>11 DEF Next
-----------------------------------------------------------------------------
(***************************************************************************)
(* The plan in use gives a dwell its band until a later dwell is chosen.   *)
(***************************************************************************)
LEMMA DwellInitially == Init => DwellInv
<1> SUFFICES ASSUME Init PROVE DwellPlanned
  BY ShapeInitially DEF DwellInv
<1>1. last.band = NoBand /\ main.pc # "wait"
  BY DEF Init
<1> QED
  BY <1>1 DEF DwellPlanned

LEMMA DwellStep == DwellInv /\ [Next]_vars => DwellInv'
<1> SUFFICES ASSUME DwellInv, [Next]_vars PROVE DwellPlanned'
  BY ShapeStep DEF DwellInv
<1>0. /\ AdvisorShape /\ DwellPlanned /\ now \in Nat /\ last.dwell \in Nat
      /\ main.frame \in Nat /\ T.slot \in Nat \ {0} /\ T.dwell \in Nat \ {0}
  BY TimesOfMode DEF DwellInv, AdvisorShape, MainTyped
<1>n. /\ next_frame_start \in Nat /\ next_frame_start > now
      /\ (next_frame_start % T.slot) = 0
      /\ (next_frame_start % T.dwell) = 0 =>
            now \div T.dwell < next_frame_start \div T.dwell
  <2>1. /\ next_frame_start \in Nat /\ next_frame_start > now
        /\ (next_frame_start % T.slot) = 0
    BY <1>0, SlotAhead DEF next_frame_start
  <2> QED
    BY <1>0, <2>1, DivideOrder
<1>m. mode' = mode => T' = T /\ \A a, b, f : BandFor(a, b, f)' = BandFor(a, b, f)
  BY DEF T, BandFor
<1>u. ASSUME UNCHANGED <<mode, now, hop, last>>, main'.frame = main.frame,
             \/ main'.pc = main.pc
             \/ main'.pc = "clock" /\ main.pc = "capture"
             \/ main'.pc \in {"join", "done"}
      PROVE  DwellPlanned'
  BY <1>0, <1>u, <1>m DEF DwellPlanned, BandFor
<1>l. ASSUME LeavesLoop PROVE DwellPlanned'
  BY <1>0, <1>l, <1>m DEF LeavesLoop, DwellPlanned
<1>1. CASE wait_until
  BY <1>0, <1>1, <1>u, WaitEffect
<1>2. CASE QueryEnds
  BY <1>0, <1>2, <1>u, QueryEffect
<1>3. CASE MainBoot
  BY <1>0, <1>3, BootEffect DEF DwellPlanned
<1>4. CASE MainSelect
  <2>1. ASSUME ChoosesFrame, main.pc = "clock" PROVE DwellPlanned'
    <3>1. /\ UNCHANGED <<mode, now, last>> /\ main'.pc = "wait"
          /\ main'.frame = next_frame_start
          /\ hop'.band = BandFor(hop'.advised, hop'.advice_available, next_frame_start)
          /\ \/ (next_frame_start % T.dwell) = 0
             \/ hop'.advised = hop.advised /\ hop'.advice_available = hop.advice_available
      BY <2>1 DEF ChoosesFrame
    <3>2. (hop.band = BandFor(hop.advised, hop.advice_available, main.frame))'
      BY <1>m, <3>1
    <3>3. (now <= main.frame /\ main.frame % T.slot = 0)'
      BY <1>0, <1>m, <1>n, <3>1
    <3>4. (last.band # NoBand =>
            /\ last.dwell <= now \div T.dwell
            /\ \/ last.dwell < main.frame \div T.dwell
               \/ \A frame \in Nat :
                      frame \div T.dwell = last.dwell =>
                         last.band = BandFor(hop.advised, hop.advice_available, frame))'
      <4> SUFFICES ASSUME last.band # NoBand
                   PROVE  (/\ last.dwell <= now \div T.dwell
                           /\ \/ last.dwell < main.frame \div T.dwell
                              \/ \A frame \in Nat :
                                    frame \div T.dwell = last.dwell =>
                                      last.band = BandFor(hop.advised, hop.advice_available,
                                                          frame))'
        BY <3>1
      <4>1. /\ last.dwell <= now \div T.dwell
            /\ \A frame \in Nat :
                  frame \div T.dwell = last.dwell =>
                     last.band = BandFor(hop.advised, hop.advice_available, frame)
        BY <1>0, <2>1 DEF DwellPlanned
      <4>2. CASE (next_frame_start % T.dwell) = 0
        <5>1. now \div T.dwell \in Nat /\ next_frame_start \div T.dwell \in Nat
          BY <1>0, <1>n, Quotient
        <5>2. last.dwell < next_frame_start \div T.dwell
          BY <1>0, <1>n, <4>1, <4>2, <5>1
        <5> QED
          BY <1>m, <3>1, <4>1, <5>2
      <4>3. CASE hop'.advised = hop.advised /\ hop'.advice_available = hop.advice_available
        BY <1>m, <3>1, <4>1, <4>3
      <4> QED
        BY <3>1, <4>2, <4>3
    <3> QED
      BY <3>1, <3>2, <3>3, <3>4 DEF DwellPlanned
  <2> QED
    BY <1>0, <1>4, <1>l, <2>1, SelectEffect
<1>5. CASE MainCapture
  <2>1. /\ main.pc = "wait" /\ UNCHANGED <<mode, now, hop>> /\ main'.pc = "capture"
        /\ last'.dwell = now \div T.dwell /\ last'.band = hop.band
        /\ now = main.frame
    BY <1>0, <1>5, CaptureEffect DEF DwellPlanned
  <2>2. hop.band = BandFor(hop.advised, hop.advice_available, main.frame)
    BY <1>0, <2>1 DEF DwellPlanned
  <2>3. \A frame \in Nat :
           frame \div T.dwell = now \div T.dwell =>
              BandFor(hop.advised, hop.advice_available, frame) = hop.band
    BY <2>1, <2>2 DEF BandFor
  <2>4. now \div T.dwell \in Nat
    BY <1>0, Quotient
  <2>5. (\A frame \in Nat : frame \div T.dwell = last.dwell =>
             last.band = BandFor(hop.advised, hop.advice_available, frame))'
    BY <1>m, <2>1, <2>3
  <2>6. (last.dwell <= now \div T.dwell)'
    BY <1>m, <2>1, <2>4
  <2> QED
    BY <2>1, <2>5, <2>6 DEF DwellPlanned
<1>6. CASE MainCaptured
  BY <1>0, <1>6, <1>l, <1>u, CapturedEffect
<1>7. CASE MainLeave
  BY <1>0, <1>7, <1>l, LeavingEffect
<1>8. CASE MainJoin
  BY <1>0, <1>8, <1>u, JoinEffect
<1>9. CASE Signal
  BY <1>0, <1>9, <1>u, SignalEffect
<1>10. CASE Tick
  <2>1. /\ now' = now + 1 /\ UNCHANGED <<mode, hop, last>> /\ main'.pc = main.pc
        /\ main'.frame = main.frame
        /\ main.pc = "wait" => now < main.frame
    BY <1>0, <1>10, TickEffect DEF MainIdle
  <2>2. now \div T.dwell <= now' \div T.dwell
        /\ now \div T.dwell \in Nat /\ now' \div T.dwell \in Nat
    <3>1. now + 1 \in Nat /\ now <= now + 1
      BY <1>0
    <3>2. now \div T.dwell <= (now + 1) \div T.dwell
      BY <1>0, <3>1, DivideOrder
    <3>3. now \div T.dwell \in Nat /\ (now + 1) \div T.dwell \in Nat
      BY <1>0, <3>1, Quotient
    <3> QED
      BY <2>1, <3>2, <3>3
  <2>3. last.dwell <= now \div T.dwell => last.dwell <= now' \div T.dwell
    BY <1>0, <2>2
  <2>4. main.pc = "wait" => now' <= main.frame
    BY <1>0, <2>1
  <2> QED
    BY <1>0, <1>m, <2>1, <2>3, <2>4 DEF DwellPlanned
<1>11. CASE UNCHANGED vars
  BY <1>11, <1>u DEF vars
<1> QED
  BY <1>1, <1>2, <1>3, <1>4, <1>5, <1>6, <1>7, <1>8, <1>9, <1>10, <1>11 DEF Next

(***************************************************************************)
(* airspyhf_wsprd.c takes the advice before the first frame of a dwell     *)
(* only: two frames of a dwell are captured on one band, whatever advice   *)
(* arrives in between and whichever slots are missed.                      *)
(***************************************************************************)
THEOREM OneBandPerDwell == Spec => DwellStable
<1>1. DwellInv /\ [Next]_vars =>
        [last'.dwell = last.dwell /\ last.band # NoBand => last'.band = last.band]_last
  <2> SUFFICES ASSUME DwellInv, [Next]_vars, last' # last, last'.dwell = last.dwell,
                      last.band # NoBand
               PROVE  last'.band = last.band
    OBVIOUS
  <2>0. /\ AdvisorShape /\ DwellPlanned /\ now \in Nat /\ main.frame \in Nat
        /\ last.dwell \in Nat
    BY DEF DwellInv, AdvisorShape, MainTyped
  <2>1. MainCapture
    BY DEF Next, wait_until, QueryEnds, MainBoot, MainSelect, MainCaptured, MainLeave,
           MainJoin, Signal, Tick, vars
  <2>2. /\ main.pc = "wait" /\ last'.dwell = now \div T.dwell /\ last'.band = hop.band
        /\ now = main.frame
        /\ hop.band = BandFor(hop.advised, hop.advice_available, main.frame)
    BY <2>0, <2>1, CaptureEffect DEF DwellPlanned
  <2>3. last.dwell = main.frame \div T.dwell
    BY <2>2
  <2>4. last.band = BandFor(hop.advised, hop.advice_available, main.frame)
    BY <2>0, <2>2, <2>3 DEF DwellPlanned
  <2> QED
    BY <2>2, <2>4
<1> QED
  BY <1>1, DwellInitially, DwellStep, PTL DEF Spec, DwellStable
-----------------------------------------------------------------------------
(***************************************************************************)
(* The rounds: what is left of one only shrinks, except when one begins.   *)
(***************************************************************************)
LEMMA RoundTyped ==
    ASSUME AdvisorShape
    PROVE  RoundLeft \in Nat /\ Round \in Nat
<1>1. /\ mode \in {"WSPR", "FT8"} /\ adv.left \in Nat
  BY DEF AdvisorShape, AdvTyped
<1>2. /\ mode = "FT8" => T.timeout["monitors"] \in Nat /\ T.timeout["regional"] \in Nat
      /\ mode = "WSPR" => T.timeout["wspr.live"] \in Nat
  BY <1>1, ServicesOfMode
<1> QED
  BY <1>1, <1>2 DEF RoundLeft, Round

LEMMA RoundKept ==
    ASSUME mode' = mode, adv'.pc = adv.pc, adv'.service = adv.service, adv'.left = adv.left
    PROVE  RoundLeft' = RoundLeft /\ Round' = Round
  BY DEF RoundLeft, Round, T

LEMMA RoundBegins ==
    ASSUME AdvisorShape, wait_until
    PROVE  /\ adv.pc = "wait" /\ Round' = Round
           /\ \/ adv'.pc = "exited" /\ RoundLeft' = 0 /\ adv.stopping
              \/ ~adv.stopping /\ adv'.pc = "query" /\ RoundLeft' = Round
<1>1. Round' = Round /\ mode' = mode /\ adv.pc = "wait" /\ mode \in {"WSPR", "FT8"}
  BY WaitEffect DEF Round, T, AdvisorShape
<1>2. CASE adv.stopping /\ adv'.pc = "exited"
  BY <1>1, <1>2 DEF RoundLeft
<1>3. CASE ~adv.stopping /\ adv'.pc = "query" /\ adv'.service = 1
           /\ adv'.left = T.timeout[Services[1]]
  <2>1. RoundLeft' = T.timeout[Services[1]]
                       + (IF mode = "FT8" THEN T.timeout["regional"] ELSE 0)
    BY <1>1, <1>3 DEF RoundLeft, T
  <2> QED
    BY <1>1, <1>3, <2>1, ServicesOfMode DEF Round
<1> QED
  BY <1>1, <1>2, <1>3, WaitEffect

LEMMA RoundGoesOn ==
    ASSUME AdvisorShape, QueryEnds
    PROVE  RoundLeft' <= RoundLeft /\ RoundLeft' \in Nat /\ Round' = Round
<1>1. /\ mode \in {"WSPR", "FT8"} /\ mode' = mode /\ T' = T /\ Round' = Round
      /\ adv.pc = "query" /\ adv.left \in Nat /\ adv.service \in 1 .. Len(Services)
  BY QueryEffect DEF AdvisorShape, AdvTyped, Round, T
<1>2. CASE adv'.pc = "wait"
  BY <1>1, <1>2, RoundTyped DEF RoundLeft
<1>3. CASE /\ adv.service < Len(Services) /\ adv'.pc = "query"
           /\ adv'.service = adv.service + 1
           /\ adv'.left = T.timeout[Services[adv.service + 1]]
  <2>1. /\ mode = "FT8" /\ adv.service = 1 /\ T.timeout["regional"] \in Nat
        /\ adv'.left = T.timeout["regional"] /\ adv'.service = 2
    BY <1>1, <1>3, ServicesOfMode
  <2>2. RoundLeft' = T.timeout["regional"] /\ RoundLeft = adv.left + T.timeout["regional"]
    BY <1>1, <1>3, <2>1 DEF RoundLeft
  <2> QED
    BY <1>1, <2>1, <2>2
<1> QED
  BY <1>1, <1>2, <1>3, QueryEffect

LEMMA RoundTicks ==
    ASSUME AdvisorShape, Tick
    PROVE  /\ Round' = Round
           /\ RoundLeft' = (IF adv.pc = "query" THEN RoundLeft - 1 ELSE RoundLeft)
           /\ adv.pc = "query" => RoundLeft > 0
           /\ adv.pc = "wait" => ~WaitOver
<1>1. /\ mode' = mode /\ T' = T /\ Round' = Round /\ AdvisorIdle
      /\ adv.left \in Nat /\ adv'.pc = adv.pc /\ adv'.service = adv.service
      /\ adv'.left = (IF adv.pc = "query" THEN adv.left - 1 ELSE adv.left)
      /\ mode \in {"WSPR", "FT8"}
  BY TickEffect DEF AdvisorShape, AdvTyped, Round, T
<1>2. mode = "FT8" => T.timeout["regional"] \in Nat
  BY <1>1, ServicesOfMode
<1>3. CASE adv.pc = "query"
  <2>1. adv.left > 0
    BY <1>1, <1>3 DEF AdvisorIdle
  <2> QED
    BY <1>1, <1>2, <1>3, <2>1 DEF RoundLeft
<1>4. CASE adv.pc # "query"
  BY <1>1, <1>4 DEF RoundLeft, AdvisorIdle
<1> QED
  BY <1>3, <1>4

LEMMA StopInitially == Init => StopInv
<1> SUFFICES ASSUME Init PROVE StopPace
  BY ShapeInitially DEF StopInv
<1>1. AdvisorShape /\ adv.pc = "wait" /\ main.joining = 0
  BY ShapeInitially DEF Init
<1> QED
  BY <1>1, RoundTyped DEF StopPace, RoundLeft

LEMMA StopStep == StopInv /\ [Next]_vars => StopInv'
<1> SUFFICES ASSUME StopInv, [Next]_vars PROVE StopPace'
  BY ShapeStep DEF StopInv
<1>0. /\ AdvisorShape /\ StopPace /\ main.joining \in Nat
      /\ main.pc \in {"boot", "clock", "wait", "capture", "join", "done"}
      /\ RoundLeft \in Nat /\ Round \in Nat
      /\ (adv.stopping <=> main.pc \in {"join", "done"})
  BY RoundTyped DEF StopInv, AdvisorShape, MainTyped
<1>u. ASSUME UNCHANGED mode, adv'.pc = adv.pc, adv'.service = adv.service,
             adv'.left = adv.left, main'.joining = main.joining,
             main'.pc \in {"join", "done"} \/ main.pc \notin {"join", "done"}
      PROVE  StopPace'
  BY <1>0, <1>u, RoundKept DEF StopPace
<1>l. ASSUME LeavesLoop PROVE StopPace'
  BY <1>u, <1>l DEF LeavesLoop
<1>1. CASE wait_until
  BY <1>0, <1>1, RoundBegins, WaitEffect DEF StopPace
<1>2. CASE QueryEnds
  BY <1>0, <1>2, RoundGoesOn, QueryEffect DEF StopPace
<1>3. CASE MainBoot
  BY <1>0, <1>3, <1>u, BootEffect
<1>4. CASE MainSelect
  BY <1>0, <1>4, <1>l, <1>u, SelectEffect DEF ChoosesFrame
<1>5. CASE MainCapture
  BY <1>0, <1>5, <1>u, CaptureEffect
<1>6. CASE MainCaptured
  BY <1>0, <1>6, <1>l, <1>u, CapturedEffect
<1>7. CASE MainLeave
  BY <1>0, <1>7, <1>l, LeavingEffect
<1>8. CASE MainJoin
  BY <1>0, <1>8, <1>u, JoinEffect
<1>9. CASE Signal
  BY <1>0, <1>9, <1>u, SignalEffect DEF StopPace
<1>10. CASE Tick
  <2>1. main.pc = "join" => adv.pc = "query"
    BY <1>0, <1>10, TickEffect, RoundTicks DEF MainIdle, AdvisorIdle, WaitOver
  <2> QED
    BY <1>0, <1>10, <2>1, TickEffect, RoundTicks DEF StopPace
<1>11. CASE UNCHANGED vars
  BY <1>0, <1>11, RoundKept DEF vars, StopPace
<1> QED
  BY <1>1, <1>2, <1>3, <1>4, <1>5, <1>6, <1>7, <1>8, <1>9, <1>10, <1>11 DEF Next

(***************************************************************************)
(* band_advisor_stop wakes a thread that waits and joins it after at most  *)
(* the requests of the round it is in, for whatever timeouts they have.    *)
(***************************************************************************)
THEOREM StopIsBounded == Spec => []StopBounded
<1>1. StopInv => StopBounded
  <2> SUFFICES ASSUME StopInv PROVE main.joining <= Round
    BY DEF StopBounded, Round
  <2>1. RoundLeft \in Nat /\ Round \in Nat /\ main.joining \in Nat
    BY RoundTyped DEF StopInv, AdvisorShape, MainTyped
  <2> QED
    BY <2>1 DEF StopInv, StopPace
<1> QED
  BY <1>1, StopInitially, StopStep, PTL DEF Spec
-----------------------------------------------------------------------------
(***************************************************************************)
(* At boot main has longer to wait than the first round can take.          *)
(***************************************************************************)
LEMMA BootInitially == Init => BootInv
<1> SUFFICES ASSUME Init PROVE BootWaits
  BY StopInitially DEF BootInv
<1>1. /\ adv.pc = "wait" /\ adv.next = first_query(now) /\ adv.first = "none"
      /\ adv.update_ready = FALSE /\ main.left = T.boot
      /\ main.pc = (IF mode = "FT8" THEN "boot" ELSE "clock")
      /\ mode \in {"WSPR", "FT8"}
  BY DEF Init
<1>2. mode = "FT8" => Round < T.boot
  BY <1>1, ServicesOfMode DEF Round
<1>3. now \in Nat
  BY ShapeInitially DEF AdvisorShape
<1>4. mode = "FT8" => adv.next <= now
  BY <1>1, <1>3 DEF first_query
<1>5. CASE mode = "FT8"
  BY <1>1, <1>2, <1>4, <1>5 DEF BootWaits
<1>6. CASE mode = "WSPR"
  BY <1>1, <1>6 DEF BootWaits
<1> QED
  BY <1>1, <1>5, <1>6

LEMMA BootStep == BootInv /\ [Next]_vars => BootInv'
<1> SUFFICES ASSUME BootInv, [Next]_vars PROVE BootWaits'
  BY StopStep DEF BootInv
<1>0. /\ AdvisorShape /\ StopPace /\ BootWaits /\ now \in Nat
      /\ adv.pc \in {"wait", "query", "exited"} /\ adv.next \in Nat
      /\ adv.stopping \in BOOLEAN /\ adv.update_ready \in BOOLEAN
      /\ adv.first \in {"none", "advice", "failed"} /\ main.left \in Int
      /\ main.pc \in {"boot", "clock", "wait", "capture", "join", "done"}
      /\ RoundLeft \in Nat /\ Round \in Nat
      /\ (adv.stopping <=> main.pc \in {"join", "done"})
  BY RoundTyped DEF BootInv, StopInv, AdvisorShape, AdvTyped, MainTyped
(* Steps of main that leave the advisor alone and do not enter the loop.   *)
<1>u. ASSUME UNCHANGED <<mode, now>>, adv'.pc = adv.pc, adv'.service = adv.service,
             adv'.left = adv.left, adv'.next = adv.next, adv'.first = adv.first,
             adv'.update_ready = adv.update_ready
                \/ (~adv'.update_ready /\ main'.pc # "boot")
                \/ ((adv'.update_ready => adv.update_ready) /\ main'.pc # "boot"),
             hop.advice_available => hop'.advice_available,
             \/ main'.pc = "boot" /\ main.pc = "boot" /\ main'.left = main.left
             \/ main'.pc \in {"join", "done"}
             \/ main'.pc \in {"clock", "wait", "capture"}
                /\ main.pc \in {"clock", "wait", "capture"}
      PROVE  BootWaits'
  <2>1. RoundLeft' = RoundLeft /\ Round' = Round
    BY <1>u, RoundKept
  <2>2. (adv.first = "none" => ~adv.update_ready)'
    BY <1>0, <1>u DEF BootWaits
  <2>3. (mode = "FT8" /\ main.pc = "boot" =>
          /\ adv.first = "advice" => adv.update_ready
          /\ adv.first = "none" =>
                \/ adv.pc = "wait" /\ adv.next <= now /\ main.left > Round
                \/ adv.pc = "query" /\ main.left > RoundLeft)'
    BY <1>0, <1>u, <2>1 DEF BootWaits
  <2>4. (mode = "FT8" /\ main.pc \in {"clock", "wait", "capture"} =>
          /\ adv.first # "none"
          /\ adv.first = "advice" => hop.advice_available)'
    BY <1>0, <1>u DEF BootWaits
  <2> QED
    BY <2>2, <2>3, <2>4 DEF BootWaits
<1>l. ASSUME LeavesLoop PROVE BootWaits'
  <2>1. adv'.first = adv.first /\ (adv'.update_ready => adv.update_ready)
        /\ main'.pc = "join"
    BY <1>l DEF LeavesLoop
  <2> QED
    BY <1>0, <2>1 DEF BootWaits
<1>1. CASE wait_until
  <2>1. /\ UNCHANGED <<mode, now, main, hop>> /\ adv'.first = adv.first
        /\ adv'.update_ready = adv.update_ready
    BY <1>0, <1>1, WaitEffect
  <2>2. Round' = Round /\ adv.pc = "wait"
        /\ (~adv.stopping => adv'.pc = "query" /\ RoundLeft' = Round)
    BY <1>0, <1>1, RoundBegins
  <2>3. main.pc = "boot" => ~adv.stopping
    BY <1>0
  <2> QED
    BY <1>0, <2>1, <2>2, <2>3 DEF BootWaits
<1>2. CASE QueryEnds
  <2>1. /\ UNCHANGED <<mode, now, main, hop>> /\ adv.pc = "query"
        /\ RoundLeft' <= RoundLeft /\ RoundLeft' \in Nat /\ Round' = Round
        /\ \/ adv'.update_ready = TRUE
              /\ adv'.first = (IF adv.first = "none" THEN "advice" ELSE adv.first)
           \/ adv'.pc = "query"
              /\ adv'.update_ready = adv.update_ready /\ adv'.first = adv.first
           \/ adv'.update_ready = adv.update_ready
              /\ adv'.first = (IF adv.first = "none" THEN "failed" ELSE adv.first)
    BY <1>0, <1>2, QueryEffect, RoundGoesOn
  <2>2. CASE adv'.update_ready = TRUE
              /\ adv'.first = (IF adv.first = "none" THEN "advice" ELSE adv.first)
    BY <1>0, <2>1, <2>2 DEF BootWaits
  <2>3. CASE adv'.pc = "query"
              /\ adv'.update_ready = adv.update_ready /\ adv'.first = adv.first
    BY <1>0, <2>1, <2>3 DEF BootWaits
  <2>4. CASE adv'.update_ready = adv.update_ready
              /\ adv'.first = (IF adv.first = "none" THEN "failed" ELSE adv.first)
    BY <1>0, <2>1, <2>4 DEF BootWaits
  <2> QED
    BY <2>1, <2>2, <2>3, <2>4
<1>3. CASE MainBoot
  <2>1. /\ main.pc = "boot" /\ (adv.update_ready \/ main.left = 0) /\ mode' = mode
        /\ adv'.update_ready = FALSE /\ adv'.first = adv.first /\ main'.pc = "clock"
        /\ hop'.advice_available = (hop.advice_available \/ adv.update_ready)
    BY <1>0, <1>3, BootEffect
  <2>2. mode = "FT8" => adv.first # "none"
    BY <1>0, <2>1 DEF BootWaits
  <2>3. mode = "FT8" /\ adv.first = "advice" => hop'.advice_available
    BY <1>0, <2>1 DEF BootWaits
  <2> QED
    BY <2>1, <2>2, <2>3 DEF BootWaits
<1>4. CASE MainSelect
  <2>1. ASSUME ChoosesFrame, main.pc = "clock" PROVE BootWaits'
    BY <1>u, <2>1 DEF ChoosesFrame
  <2> QED
    BY <1>0, <1>4, <1>l, <2>1, SelectEffect
<1>5. CASE MainCapture
  BY <1>0, <1>5, <1>u, CaptureEffect
<1>6. CASE MainCaptured
  BY <1>0, <1>6, <1>l, <1>u, CapturedEffect
<1>7. CASE MainLeave
  BY <1>0, <1>7, <1>l, LeavingEffect
<1>8. CASE MainJoin
  BY <1>0, <1>8, <1>u, JoinEffect
<1>9. CASE Signal
  BY <1>0, <1>9, <1>u, SignalEffect
<1>10. CASE Tick
  <2>1. /\ UNCHANGED <<mode, hop>> /\ now' = now + 1 /\ main'.pc = main.pc
        /\ adv'.pc = adv.pc /\ adv'.next = adv.next /\ adv'.first = adv.first
        /\ adv'.update_ready = adv.update_ready
        /\ main.pc = "boot" => main'.left = main.left - 1
        /\ adv.pc = "wait" => ~(now >= adv.next)
        /\ Round' = Round
        /\ adv.pc = "query" => RoundLeft' = RoundLeft - 1
    BY <1>0, <1>10, TickEffect, RoundTicks DEF WaitOver
  <2> QED
    BY <1>0, <2>1 DEF BootWaits
<1>11. CASE UNCHANGED vars
  BY <1>0, <1>11, RoundKept DEF vars, BootWaits
<1> QED
  BY <1>1, <1>2, <1>3, <1>4, <1>5, <1>6, <1>7, <1>8, <1>9, <1>10, <1>11 DEF Next

(***************************************************************************)
(* airspyhf_wsprd.c:1204: when the first round of FT8 queries gives        *)
(* advice, however late within its timeouts, main still waits for it and   *)
(* has it when it chooses the first band.                                  *)
(***************************************************************************)
THEOREM FirstAdviceUsed == Spec => []BootAdviceSeen
<1>1. BootInv => BootAdviceSeen
  BY DEF BootInv, BootWaits, BootAdviceSeen
<1> QED
  BY <1>1, BootInitially, BootStep, PTL DEF Spec

-----------------------------------------------------------------------------
(***************************************************************************)
(* WSPR: queries and captures keep their places in the slot.               *)
(***************************************************************************)
LEMMA PhaseInitially == Init => PhaseInv
<1> SUFFICES ASSUME Init PROVE QueryPhased /\ CapturePhased
  BY ShapeInitially DEF PhaseInv
<1>1. /\ AdvisorShape /\ now \in Nat /\ mode \in {"WSPR", "FT8"}
      /\ adv.pc = "wait" /\ adv.next = first_query(now) /\ main.frame = 0
      /\ main.pc \notin {"wait", "capture"} /\ ~main.fresh
      /\ T.slot \in Nat \ {0} /\ T.phase \in Nat
  BY ShapeInitially, TimesOfMode DEF Init, AdvisorShape
<1>2. CapturePhased
  <2>1. 0 % T.slot = 0
    <3>1. T.slot * 0 + 0 = 0 /\ T.slot \in Nat /\ T.slot > 0
      BY <1>1
    <3> QED
      BY <3>1, RemainderIs
  <2> QED
    BY <1>1, <2>1 DEF CapturePhased
<1>3. ASSUME mode = "WSPR" PROVE QueryPhased
  <2>1. /\ adv.next = now + ((T.phase + T.slot - (now % T.slot)) % T.slot)
        /\ T.phase < T.slot /\ T.capture \in Nat
    BY <1>1, <1>3, TimesOfMode, ServicesOfMode DEF first_query
  <2>2. /\ now + ((T.phase + T.slot - (now % T.slot)) % T.slot) >= now
        /\ ((now + ((T.phase + T.slot - (now % T.slot)) % T.slot)) % T.slot) = T.phase
    <3>1. now \in Nat /\ T.slot \in Nat \ {0} /\ T.phase \in Nat /\ T.phase < T.slot
      BY <1>1, <1>3, TimesOfMode, ServicesOfMode
    <3> QED
      BY <3>1, PhaseReached
  <2>3. adv.next >= now /\ (adv.next % T.slot) = T.phase
    BY <2>1, <2>2
  <2>4. now <= adv.next
    BY <1>1, <2>3 DEF AdvisorShape, AdvTyped
  <2> QED
    BY <1>1, <2>3, <2>4 DEF QueryPhased
<1> QED
  BY <1>1, <1>2, <1>3 DEF QueryPhased
LEMMA PhaseStep == PhaseInv /\ [Next]_vars => PhaseInv'
<1> SUFFICES ASSUME PhaseInv, [Next]_vars PROVE QueryPhased' /\ CapturePhased'
  BY ShapeStep DEF PhaseInv
<1>0. /\ AdvisorShape /\ QueryPhased /\ CapturePhased /\ now \in Nat
      /\ mode \in {"WSPR", "FT8"}
      /\ adv.pc \in {"wait", "query", "exited"} /\ adv.next \in Nat /\ adv.left \in Nat
      /\ adv.stopping \in BOOLEAN /\ main.left \in Int /\ main.frame \in Nat
      /\ main.pc \in {"boot", "clock", "wait", "capture", "join", "done"}
      /\ main.fresh \in BOOLEAN
      /\ (adv.stopping <=> main.pc \in {"join", "done"})
  BY DEF PhaseInv, AdvisorShape, AdvTyped, MainTyped
<1>t. /\ T.slot \in Nat \ {0} /\ T.capture \in Nat /\ T.phase \in Nat
      /\ T.interval \in Nat /\ T.interval % T.slot = 0
      /\ mode = "WSPR" => /\ Services[1] = "wspr.live" /\ Len(Services) = 1
                          /\ T.timeout["wspr.live"] \in Nat
                          /\ T.timeout["wspr.live"] < T.interval
  BY <1>0, TimesOfMode, ServicesOfMode
<1>m. mode' = mode => T' = T
  BY DEF T
<1>q. ASSUME UNCHANGED <<mode, now>>, adv'.pc = adv.pc, adv'.next = adv.next,
             adv'.left = adv.left
      PROVE  QueryPhased'
  BY <1>0, <1>m, <1>q DEF QueryPhased
<1>c. ASSUME UNCHANGED <<mode, now>>, main'.frame = main.frame, main'.left = main.left,
             main'.fresh = main.fresh, main'.pc = main.pc \/ main'.pc \in {"join", "done"}
      PROVE  CapturePhased'
  BY <1>0, <1>m, <1>c DEF CapturePhased
<1>l. ASSUME LeavesLoop PROVE QueryPhased' /\ CapturePhased'
  <2>1. QueryPhased'
    BY <1>l, <1>q DEF LeavesLoop
  <2>2. /\ UNCHANGED <<mode, now>> /\ main'.frame = main.frame /\ main'.pc = "join"
        /\ main'.fresh = main.fresh
    BY <1>l DEF LeavesLoop
  <2> QED
    BY <1>0, <1>m, <2>1, <2>2 DEF CapturePhased
<1>1. CASE wait_until
  <2>1. /\ UNCHANGED <<mode, now, main>> /\ adv.pc = "wait" /\ adv'.next = adv.next
        /\ \/ adv'.pc = "exited"
           \/ /\ now >= adv.next /\ adv'.pc = "query"
              /\ adv'.left = T.timeout[Services[1]]
    BY <1>0, <1>1, WaitEffect
  <2>2. CapturePhased'
    BY <1>c, <2>1
  <2>3. CASE mode = "WSPR"
    <3>1. T' = T /\ adv.next % T.slot = T.phase /\ now <= adv.next
          /\ Services[1] = "wspr.live"
      BY <1>0, <1>m, <1>t, <2>1, <2>3 DEF QueryPhased
    <3> QED
      BY <1>0, <1>t, <2>1, <2>2, <2>3, <3>1 DEF QueryPhased
  <2> QED
    BY <1>0, <2>1, <2>2, <2>3 DEF QueryPhased
<1>2. CASE QueryEnds
  <2>1. /\ UNCHANGED <<mode, now, main>> /\ adv.pc = "query"
        /\ \/ adv'.pc = "wait" /\ adv'.next = next_query
           \/ adv.service < Len(Services)
    BY <1>0, <1>2, QueryEffect
  <2>2. CapturePhased'
    BY <1>c, <2>1
  <2>3. ASSUME mode = "WSPR" PROVE QueryPhased'
    <3>1. /\ T' = T /\ adv.next % T.slot = T.phase
          /\ adv.next <= now /\ now <= adv.next + T.timeout["wspr.live"]
      BY <1>0, <1>m, <2>1, <2>3 DEF QueryPhased
    <3>2. next_query = adv.next + T.interval /\ now <= adv.next + T.interval
      BY <1>0, <1>t, <2>3, <3>1 DEF next_query
    <3>3. ((adv.next + T.interval) % T.slot) = T.phase
      BY <1>0, <1>t, <3>1, PhaseKept
    <3>4. adv'.pc = "wait" /\ adv'.next = adv.next + T.interval
      <4>1. adv.service \in 1 .. Len(Services)
        BY <1>0 DEF AdvisorShape, AdvTyped
      <4> QED
        <5>1. ~(adv.service < Len(Services))
          <6>1. Len(Services) = 1
            BY <1>t, <2>3
          <6> QED
            BY <4>1, <6>1
        <5> QED
          BY <2>1, <3>2, <5>1
    <3> QED
      BY <2>1, <3>1, <3>2, <3>3, <3>4 DEF QueryPhased
  <2> QED
    BY <1>0, <2>1, <2>2, <2>3 DEF QueryPhased
<1>3. CASE MainBoot
  <2>1. /\ UNCHANGED <<mode, now>> /\ adv'.pc = adv.pc /\ adv'.next = adv.next
        /\ adv'.left = adv.left /\ main.pc = "boot" /\ main'.pc = "clock"
        /\ main'.frame = main.frame /\ main'.fresh = main.fresh
    BY <1>0, <1>3, BootEffect
  <2>2. QueryPhased'
    BY <1>q, <2>1
  <2>3. CapturePhased'
    BY <1>0, <1>m, <2>1 DEF CapturePhased
  <2> QED
    BY <2>2, <2>3
<1>4. CASE MainSelect
  <2>1. ASSUME ChoosesFrame, main.pc = "clock" PROVE QueryPhased' /\ CapturePhased'
    <3>1. /\ UNCHANGED <<mode, now>> /\ adv'.pc = adv.pc /\ adv'.next = adv.next
          /\ adv'.left = adv.left /\ main'.pc = "wait"
          /\ main'.frame = next_frame_start /\ main'.fresh = FALSE
      BY <2>1 DEF ChoosesFrame
    <3>2. next_frame_start > now /\ (next_frame_start % T.slot) = 0 /\ next_frame_start \in Nat
      BY <1>0, <1>t, SlotAhead DEF next_frame_start
    <3>3. QueryPhased'
      BY <1>q, <3>1
    <3>4. CapturePhased'
      BY <1>0, <1>m, <3>1, <3>2 DEF CapturePhased
    <3> QED
      BY <3>3, <3>4
  <2> QED
    BY <1>0, <1>4, <1>l, <2>1, SelectEffect
<1>5. CASE MainCapture
  <2>1. /\ UNCHANGED <<mode, now, adv>> /\ main.pc = "wait" /\ now >= main.frame
        /\ main'.pc = "capture" /\ main'.left = T.capture
        /\ main'.frame = main.frame /\ main'.fresh = main.fresh
    BY <1>0, <1>5, CaptureEffect
  <2>2. QueryPhased'
    BY <1>q, <2>1
  <2>3. now = main.frame /\ main'.fresh = FALSE
    BY <1>0, <2>1 DEF CapturePhased
  <2>4. CapturePhased'
    BY <1>0, <1>m, <1>t, <2>1, <2>3 DEF CapturePhased
  <2> QED
    BY <2>2, <2>4
<1>6. CASE MainCaptured
  <2>1. ASSUME /\ UNCHANGED <<mode, now, adv>> /\ main.left <= 0
               /\ main.pc = "capture" /\ main'.pc = "clock" /\ main'.frame = main.frame
        PROVE  QueryPhased' /\ CapturePhased'
    <3>1. now \in {main.frame + T.capture, main.frame + T.capture + 1}
      <4>1. main.left >= -1 /\ now + main.left = main.frame + T.capture
        BY <1>0, <2>1 DEF CapturePhased
      <4>2. main.left = 0 \/ main.left = -1
        BY <1>0, <2>1, <4>1
      <4> QED
        BY <1>0, <1>t, <4>1, <4>2
    <3>2. QueryPhased'
      BY <1>q, <2>1
    <3>3. CapturePhased'
      BY <1>0, <1>m, <2>1, <3>1 DEF CapturePhased
    <3> QED
      BY <3>2, <3>3
  <2> QED
    BY <1>0, <1>6, <1>l, <2>1, CapturedEffect
<1>7. CASE MainLeave
  BY <1>0, <1>7, <1>l, LeavingEffect
<1>8. CASE MainJoin
  BY <1>0, <1>8, <1>c, <1>q, JoinEffect
<1>9. CASE Signal
  BY <1>0, <1>9, <1>c, <1>q, SignalEffect
<1>10. CASE Tick
  <2>1. /\ mode' = mode /\ now' = now + 1 /\ AdvisorIdle /\ MainIdle
        /\ adv'.pc = adv.pc /\ adv'.next = adv.next
        /\ adv'.left = (IF adv.pc = "query" THEN adv.left - 1 ELSE adv.left)
        /\ main'.pc = main.pc /\ main'.fresh = FALSE /\ main'.frame = main.frame
        /\ main'.left = (IF main.pc \in {"boot", "capture"} THEN main.left - 1 ELSE main.left)
    BY <1>0, <1>10, TickEffect
  <2>2. ASSUME mode = "WSPR" PROVE QueryPhased'
    <3>1. CASE adv.pc = "query"
      BY <1>0, <1>m, <1>t, <2>1, <2>2, <3>1 DEF QueryPhased, AdvisorIdle
    <3>2. CASE adv.pc # "query"
      BY <1>0, <1>m, <1>t, <2>1, <2>2, <3>2 DEF QueryPhased, AdvisorIdle, WaitOver
    <3> QED
      BY <3>1, <3>2
  <2>3. CapturePhased'
    <3>1. CASE main.pc = "capture"
      <4>1. /\ main.left > -1 /\ main'.left = main.left - 1
            /\ now + main.left = main.frame + T.capture
        BY <1>0, <2>1, <3>1 DEF CapturePhased, MainIdle
      <4>2. main'.left >= -1 /\ now' + main'.left = main'.frame + T.capture
        BY <1>0, <1>t, <2>1, <4>1
      <4>3. T' = T /\ main.frame % T.slot = 0
        BY <1>0, <1>m, <2>1 DEF CapturePhased
      <4> QED
        BY <2>1, <3>1, <4>2, <4>3 DEF CapturePhased
    <3>2. CASE main.pc # "capture"
      BY <1>0, <1>m, <2>1, <3>2 DEF CapturePhased, MainIdle
    <3> QED
      BY <3>1, <3>2
  <2> QED
    BY <1>0, <2>1, <2>2, <2>3 DEF QueryPhased
<1>11. CASE UNCHANGED vars
  BY <1>11, <1>c, <1>q DEF vars
<1> QED
  BY <1>1, <1>2, <1>3, <1>4, <1>5, <1>6, <1>7, <1>8, <1>9, <1>10, <1>11 DEF Next

(***************************************************************************)
(* band_advisor.c:719 keeps the queries at their second of the slot, so    *)
(* that their answer is there, and taken, when main chooses the band of a  *)
(* new dwell straight after a capture.                                     *)
(***************************************************************************)
THEOREM AdviceInTime == Spec => AdviceSettled
<1>1. PhaseInv /\ [Next]_vars =>
        [mode = "WSPR" /\ main.fresh /\ main'.pc = "wait" /\ main'.frame % T.dwell = 0
           => adv.pc # "query" /\ ~adv'.update_ready]_main
  <2> SUFFICES ASSUME PhaseInv, [Next]_vars, main' # main, mode = "WSPR", main.fresh,
                      main'.pc = "wait", main'.frame % T.dwell = 0
               PROVE  adv.pc # "query" /\ ~adv'.update_ready
    OBVIOUS
  <2>0. /\ AdvisorShape /\ QueryPhased /\ CapturePhased /\ now \in Nat
        /\ adv.next \in Nat /\ main.frame \in Nat
    BY DEF PhaseInv, AdvisorShape, AdvTyped, MainTyped
  <2>1. ChoosesFrame
    <3>1. main.pc \in {"clock", "join", "done"}
      BY <2>0 DEF CapturePhased
    <3>2. MainSelect
      BY <2>0, <3>1, WaitEffect, QueryEffect, BootEffect, CaptureEffect, CapturedEffect,
         LeavingEffect, JoinEffect, SignalEffect, TickEffect
         DEF Next, vars, LeavesLoop
    <3> QED
      BY <2>0, <3>2, SelectEffect DEF LeavesLoop
  <2>2. ~adv'.update_ready
    BY <2>1 DEF ChoosesFrame
  <2>3. ASSUME adv.pc = "query" PROVE FALSE
    <3>1. /\ T.slot \in Nat \ {0} /\ T.capture \in Nat /\ T.phase \in Nat
          /\ T.capture < T.slot /\ 0 < T.phase /\ T.timeout["wspr.live"] \in Nat
          /\ T.phase + T.timeout["wspr.live"] < T.capture
      BY <2>0, TimesOfMode, ServicesOfMode DEF AdvisorShape
    <3>2. /\ adv.next % T.slot = T.phase /\ adv.next <= now
          /\ now <= adv.next + T.timeout["wspr.live"]
          /\ main.frame % T.slot = 0
          /\ now \in {main.frame + T.capture, main.frame + T.capture + 1}
      BY <2>0, <2>3 DEF QueryPhased, CapturePhased
    <3>3. adv.next > main.frame
      BY <2>0, <3>1, <3>2
    <3>4. adv.next < main.frame + T.slot
      <4>1. adv.next <= main.frame + T.slot
        BY <2>0, <3>1, <3>2
      <4>2. ((main.frame + T.slot) % T.slot) = 0
        <5>1. T.slot \in Nat /\ T.slot > 0 /\ T.slot * 1 + 0 = T.slot
          BY <3>1
        <5>2. T.slot % T.slot = 0
          BY <5>1, RemainderIs
        <5> QED
          BY <2>0, <3>1, <3>2, <5>1, <5>2, PhaseKept
      <4> QED
        BY <2>0, <3>1, <3>2, <4>1, <4>2
    <3>5. adv.next = main.frame + T.phase
      <4>1. /\ main.frame \in Nat /\ adv.next \in Nat /\ T.slot \in Nat \ {0}
            /\ main.frame % T.slot = 0
        BY <2>0, <3>1, <3>2
      <4>2. adv.next = main.frame + (adv.next % T.slot)
        BY <3>3, <3>4, <4>1, PhasesApart
      <4> QED
        BY <3>2, <4>2
    <3> QED
      BY <2>0, <3>1, <3>2, <3>5
  <2> QED
    BY <2>2, <2>3
<1> QED
  BY <1>1, PhaseInitially, PhaseStep, PTL DEF Spec, AdviceSettled

=============================================================================
