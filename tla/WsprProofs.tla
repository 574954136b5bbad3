----------------------------- MODULE WsprProofs -----------------------------
(***************************************************************************)
(* The WSPR side, for any number of frames, lines, spots and crashes: what *)
(* the bridge posts, and what it leaves in the runtime directory; that the *)
(* signal the core subtracts is the one it decoded, for every payload;     *)
(* that its spots and its hash table hold what was heard; and what the     *)
(* Fano decoder finds, whatever was received.                              *)
(***************************************************************************)
EXTENDS DecoderBridge, WsprCore, FanoDecoder, SequenceTheorems, FiniteSetTheorems,
        NaturalsInduction, TLAPS

-----------------------------------------------------------------------------
(* The bridge *)

(* Where the decoder thread may have a temporary directory of its frame.   *)
Working == {"write", "fork", "wait", "parse", "unlink", "sweep", "rmdir"}

(***************************************************************************)
(* The part of the types the invariants need.                              *)
(***************************************************************************)
BridgeShape ==
    /\ frame \in Nat
    /\ configured \in BOOLEAN
    /\ thread \in Threads
    /\ core \in {"none", "running", "decoding", "exited_0", "failed"}
    /\ generated \subseteq AllFiles
    /\ crashed \subseteq 0 .. frame
    /\ thread = "dead" => frame \in crashed

(***************************************************************************)
(* A core exists only while it is waited for.                              *)
(***************************************************************************)
CoreWaited == core # "none" => thread = "wait"

(***************************************************************************)
(* The file is this frame's output once the core has opened it, and until  *)
(* it is parsed; what was parsed is that output, cut to the array.         *)
(***************************************************************************)
OwnOutput ==
    /\ thread \in {"begin", "write", "fork"} => printed = <<>>
    /\ core = "running" => printed = <<>>
    /\ core \in {"decoding", "exited_0"} => spots = printed
    /\ thread = "parse" => spots = printed
    /\ thread \in {"unlink", "sweep", "rmdir", "post"} /\ failed_at = "none"
         => results = Cut(printed)
    /\ thread \in Working \cup {"begin", "post"} => posted = <<>>

(***************************************************************************)
(* A temporary directory is the current frame's, or one a crash left in a  *)
(* directory that is preserved; the current frame's input is gone before   *)
(* its directory is removed.                                               *)
(***************************************************************************)
TemporaryOwned ==
    /\ temporary \subseteq
          (IF configured THEN crashed ELSE {})
             \cup (IF thread \in Working \cup {"dead"} THEN {frame} ELSE {})
    /\ thread \in {"sweep", "rmdir"} => frame \notin inputs

(***************************************************************************)
(* The sweep leaves nothing but the hash table, whatever it found.         *)
(***************************************************************************)
SweptClean ==
    /\ thread = "rmdir" => Swept
    /\ thread \in {"post", "idle", "ended"} /\ failed_at # "begin" /\ frame \notin crashed
         => Swept
    /\ thread = "exited" /\ ~configured => ~directory

BridgeInv ==
    BridgeShape /\ CoreWaited /\ OwnOutput /\ TemporaryOwned /\ SweptClean /\ PostedWhole

LEMMA BridgeInit == Init => BridgeInv
  BY DEF Init, BridgeInv, BridgeShape, CoreWaited, OwnOutput, TemporaryOwned, SweptClean,
         PostedWhole, Threads, Working, Swept

(***************************************************************************)
(* The invariant is kept by every step.                                    *)
(***************************************************************************)
LEMMA BridgeStep == BridgeInv /\ [Next]_vars => BridgeInv'
<1> SUFFICES ASSUME BridgeInv, [Next]_vars PROVE BridgeInv'
  OBVIOUS
<1> USE DEF BridgeInv, BridgeShape, CoreWaited, OwnOutput, TemporaryOwned, SweptClean,
            PostedWhole, Threads, Working, Swept, fileVars, frameVars
<1>1. CASE TakeFrame
  BY <1>1 DEF TakeFrame
<1>2. CASE Begin
  BY <1>2 DEF Begin, get_runtime_directory
<1>3. CASE WriteInput
  BY <1>3 DEF WriteInput
<1>4. CASE Fork
  BY <1>4 DEF Fork
<1>5. CASE WaitForCore
  BY <1>5 DEF WaitForCore
<1>6. CASE Parse
  BY <1>6 DEF Parse
<1>7. CASE UnlinkInput
  BY <1>7 DEF UnlinkInput
<1>8. CASE Sweep
  BY <1>8 DEF Sweep, RemoveFirst, SweepOrder, AllFiles, GeneratedFiles
<1>9. CASE RemoveTemporary
  BY <1>9 DEF RemoveTemporary
<1>10. CASE Post
  BY <1>10 DEF Post
<1>11. CASE CoreOpens
  BY <1>11 DEF CoreOpens, AllFiles, GeneratedFiles
<1>12. CASE CorePrints
  BY <1>12 DEF CorePrints
<1>13. CASE CoreEnds
  BY <1>13 DEF CoreEnds, AllFiles, GeneratedFiles
<1>14. CASE CoreFails
  BY <1>14 DEF CoreFails
<1>15. CASE SigintHandler
  BY <1>15 DEF SigintHandler
<1>16. CASE ThreadEnds
  BY <1>16 DEF ThreadEnds
<1>17. CASE CleanupProcessRuntime
  BY <1>17 DEF CleanupProcessRuntime, AllFiles, GeneratedFiles
<1>18. CASE Crash
  BY <1>18 DEF Crash
<1>19. CASE Restart
  <2>1. /\ thread = "dead" /\ thread' = "idle" /\ core = "none" /\ core' = core
        /\ frame \in crashed /\ frame' = frame /\ crashed' = crashed
        /\ configured' = configured /\ posted' = <<>>
    BY <1>19 DEF Restart
  <2>2. CASE configured
    <3>1. /\ generated' = generated /\ temporary' = temporary /\ temporary' \subseteq crashed
      BY <1>19, <2>1, <2>2 DEF Restart
    <3> QED
      BY <2>1, <2>2, <3>1
  <2>3. CASE ~configured
    <3>1. generated' = {} /\ temporary' = {}
      BY <1>19, <2>3 DEF Restart
    <3> QED
      BY <2>1, <2>3, <3>1
  <2> QED
    BY <2>2, <2>3
<1>20. CASE UNCHANGED vars
  BY <1>20 DEF vars
<1> QED
  BY <1>1, <1>2, <1>3, <1>4, <1>5, <1>6, <1>7, <1>8, <1>9, <1>10, <1>11, <1>12, <1>13, <1>14, <1>15, <1>16, <1>17, <1>18, <1>19, <1>20 DEF Next, Decoder, Core

(***************************************************************************)
(* What is posted for a frame is what its own core printed, in order and   *)
(* whole as far as the array goes, or nothing: a frame never gets lines of *)
(* another, although every run uses the same file and a crash leaves it    *)
(* behind.                                                                 *)
(***************************************************************************)
THEOREM FramesPostedWhole == Spec => []PostedWhole
<1>1. BridgeInv => PostedWhole
  BY DEF BridgeInv
<1> QED
  BY <1>1, BridgeInit, BridgeStep, PTL DEF Spec

(***************************************************************************)
(* Every frame that was not killed leaves the runtime directory with       *)
(* nothing but the hash table, whatever an earlier one left in it, and a   *)
(* program that ends leaves no directory of its own.                       *)
(***************************************************************************)
THEOREM DirectorySwept == Spec => []RuntimeSwept
<1>1. BridgeInv => RuntimeSwept
  BY DEF BridgeInv, BridgeShape, TemporaryOwned, SweptClean, RuntimeSwept, Swept, AllFiles,
         GeneratedFiles, Working
<1> QED
  BY <1>1, BridgeInit, BridgeStep, PTL DEF Spec

-----------------------------------------------------------------------------
(* Text that unpacking writes and packing reads *)

(***************************************************************************)
(* The strings that come out of unpackcall: one or two characters, the     *)
(* digit, and up to three letters.                                         *)
(***************************************************************************)
CallOf(x, n) ==
    /\ x \in Seq(Int) /\ Len(x) = n
    /\ \A i \in 1 .. n : x[i] \in 0 .. 35
    /\ \/ n >= 3 /\ x[3] \in 0 .. 9 /\ \A i \in 4 .. n : x[i] \in 10 .. 35
       \/ n <= 5 /\ x[2] \in 0 .. 9 /\ \A i \in 3 .. n : x[i] \in 10 .. 35

CallString(x) == \E n \in 2 .. 6 : CallOf(x, n)

(***************************************************************************)
(* The character that packing has in place i of a callsign, and the six of *)
(* the buffer that unpackcall fills.                                       *)
(***************************************************************************)
Fill(x, i) == CodeOf(At(x, i))

Filled(x) == <<Fill(x, 1), Fill(x, 2), Fill(x, 3), Fill(x, 4), Fill(x, 5), Fill(x, 6)>>

(***************************************************************************)
(* The number with these digits in the mixed base of a callsign.           *)
(***************************************************************************)
Number(a, b, c, d, e, f) == ((((a * 36 + b) * 10 + c) * 27 + d) * 27 + e) * 27 + f

LEMMA CallValuesNat == CallValues \in Nat
  BY DEF CallValues

LEMMA CallValuesIs == CallValues = 13320 * 27 * 27 * 27
  BY DEF CallValues

(***************************************************************************)
(* The buffer they are unpacked into.                                      *)
(***************************************************************************)
Buffer(a, b, c, d, e, f) ==
    IF a = Space THEN <<b, c, d + 10, e + 10, f + 10, Space>>
    ELSE <<a, b, c, d + 10, e + 10, f + 10>>

(***************************************************************************)
(* These digits are what the code takes n apart into.                      *)
(***************************************************************************)
Splits(n, a, b, c, d, e, f) ==
    /\ n \in Nat /\ n < CallValues
    /\ n % 27 = f /\ (n \div 27) % 27 = e /\ (n \div 729) % 27 = d
    /\ (n \div (27 * 27 * 27)) % 10 = c /\ ((n \div (27 * 27 * 27)) \div 10) % 36 = b
    /\ (n \div (27 * 27 * 27)) \div 360 = a

LEMMA NumberSplit ==
    ASSUME NEW a \in 0 .. 36, NEW b \in 0 .. 35, NEW c \in 0 .. 9,
           NEW d \in 0 .. 26, NEW e \in 0 .. 26, NEW f \in 0 .. 26
    PROVE  Splits(Number(a, b, c, d, e, f), a, b, c, d, e, f)
  <1>0. PICK n : n = Number(a, b, c, d, e, f)
    OBVIOUS
  <1>1. PICK k : k = a * 36 + b
    OBVIOUS
  <1>2. PICK m : m = k * 10 + c
    OBVIOUS
  <1>3. PICK p : p = m * 27 + d
    OBVIOUS
  <1>4. PICK q : q = p * 27 + e
    OBVIOUS
  <1>5. n = q * 27 + f
    BY <1>0, <1>1, <1>2, <1>3, <1>4 DEF Number
  <1>6. k \in Nat /\ k < 1332 /\ k % 36 = b /\ k \div 36 = a
    BY <1>1
  <1>7. m \in Nat /\ m < 13320 /\ m % 10 = c /\ m \div 10 = k
    BY <1>2, <1>6
  <1>8. p \in Nat /\ p < 13320 * 27 /\ p % 27 = d /\ p \div 27 = m
    BY <1>3, <1>7
  <1>9. q \in Nat /\ q < 13320 * 27 * 27 /\ q % 27 = e /\ q \div 27 = p
    BY <1>4, <1>8
  <1>10. n \in Nat /\ n < 13320 * 27 * 27 * 27 /\ n % 27 = f /\ n \div 27 = q
    BY <1>5, <1>9
  <1>11. n \div 729 = p
    BY <1>4, <1>5, <1>8, <1>9
  <1>12. n \div (27 * 27 * 27) = m
    BY <1>3, <1>4, <1>5, <1>7, <1>8, <1>9
  <1>13. m \div 360 = a
    BY <1>1, <1>2, <1>6
  <1>14. n \in Nat /\ n < CallValues
    BY <1>10, CallValuesIs, CallValuesNat
  <1>15. Splits(n, a, b, c, d, e, f)
    BY <1>6, <1>7, <1>8, <1>9, <1>10, <1>11, <1>12, <1>13, <1>14 DEF Splits
  <1> QED
    BY <1>0, <1>15

(***************************************************************************)
(* Division with a remainder, by the bases that occur.                     *)
(***************************************************************************)
LEMMA Divided ==
    ASSUME NEW n \in Nat
    PROVE  /\ \E q \in Nat, r \in 0 .. 9 : n = 10 * q + r
           /\ \E q \in Nat, r \in 0 .. 26 : n = 27 * q + r
           /\ \E q \in Nat, r \in 0 .. 35 : n = 36 * q + r
           /\ \E q \in Nat, r \in 0 .. 36 : n = 37 * q + r
           /\ \E q \in Nat, r \in 0 .. 127 : n = 128 * q + r
           /\ \E q \in Nat, r \in 0 .. 179 : n = 180 * q + r
  <1>1. /\ n \div 10 \in Nat /\ n % 10 \in 0 .. 9
        /\ n = (10 * (n \div 10)) + (n % 10)
    OBVIOUS
  <1>2. /\ n \div 27 \in Nat /\ n % 27 \in 0 .. 26
        /\ n = (27 * (n \div 27)) + (n % 27)
    OBVIOUS
  <1>3. /\ n \div 36 \in Nat /\ n % 36 \in 0 .. 35
        /\ n = (36 * (n \div 36)) + (n % 36)
    OBVIOUS
  <1>4. /\ n \div 37 \in Nat /\ n % 37 \in 0 .. 36
        /\ n = (37 * (n \div 37)) + (n % 37)
    OBVIOUS
  <1>5. /\ n \div 128 \in Nat /\ n % 128 \in 0 .. 127
        /\ n = (128 * (n \div 128)) + (n % 128)
    OBVIOUS
  <1>6. /\ n \div 180 \in Nat /\ n % 180 \in 0 .. 179
        /\ n = (180 * (n \div 180)) + (n % 180)
    OBVIOUS
  <1> QED
    BY <1>1, <1>2, <1>3, <1>4, <1>5, <1>6

LEMMA NumberOf ==
    ASSUME NEW n \in Nat, n < CallValues
    PROVE  \E a \in 0 .. 36, b \in 0 .. 35, c \in 0 .. 9, d, e, f \in 0 .. 26 :
              n = Number(a, b, c, d, e, f)
  <1>1. PICK q1 \in Nat, f \in 0 .. 26 : n = 27 * q1 + f
    BY Divided
  <1>2. PICK q2 \in Nat, e \in 0 .. 26 : q1 = 27 * q2 + e
    BY Divided
  <1>3. PICK q3 \in Nat, d \in 0 .. 26 : q2 = 27 * q3 + d
    BY Divided
  <1>4. PICK q4 \in Nat, c \in 0 .. 9 : q3 = 10 * q4 + c
    BY Divided
  <1>5. PICK a \in Nat, b \in 0 .. 35 : q4 = 36 * a + b
    BY Divided
  <1>6. n = Number(a, b, c, d, e, f)
    BY <1>1, <1>2, <1>3, <1>4, <1>5 DEF Number
  <1>7. n < 13320 * 27 * 27 * 27
    BY CallValuesIs, CallValuesNat
  <1>8. q1 < 13320 * 27 * 27
    BY <1>1, <1>7
  <1>9. q2 < 13320 * 27
    BY <1>2, <1>8
  <1>10. q3 < 13320
    BY <1>3, <1>9
  <1>11. a \in 0 .. 36
    BY <1>4, <1>5, <1>10
  <1> QED
    BY <1>6, <1>11, Zenon

LEMMA BufferIs ==
    ASSUME NEW a \in 0 .. 36, NEW b \in 0 .. 35, NEW c \in 0 .. 9,
           NEW d \in 0 .. 26, NEW e \in 0 .. 26, NEW f \in 0 .. 26
    PROVE  unpackcall(Number(a, b, c, d, e, f)) = Buffer(a, b, c, d, e, f)
  <1>1. PICK n : n = Number(a, b, c, d, e, f)
    OBVIOUS
  <1>2. Splits(n, a, b, c, d, e, f)
    BY <1>1, NumberSplit, Zenon
  <1>3. ~(n >= CallValues)
    BY <1>2, CallValuesNat DEF Splits
  <1> HIDE DEF Number
  <1>4. unpackcall(n) = Buffer(a, b, c, d, e, f)
    BY <1>2, <1>3 DEF unpackcall, Space, Splits, Buffer
  <1> QED
    BY <1>1, <1>4

(***************************************************************************)
(* A C string in a buffer ends before the first space.                     *)
(***************************************************************************)
LEMMA CStringIs ==
    ASSUME NEW s \in Seq(Int), NEW n \in Nat, n = Len(s), NEW k \in 0 .. n,
           \A i \in 1 .. k : s[i] # Space, k < n => s[k + 1] = Space
    PROVE  /\ CString(s) = SubSeq(s, 1, k)
           /\ CString(s) \in Seq(Int) /\ Len(CString(s)) = k
           /\ \A i \in 1 .. k : CString(s)[i] = s[i]
  <1> DEFINE ends == {i \in 1 .. Len(s) : s[i] = Space}
  <1>1. CASE k = n
    <2>1. ends = {}
      BY <1>1
    <2>2. SubSeq(s, 1, Len(s)) = s
      OBVIOUS
    <2> QED
      BY <1>1, <2>1, <2>2 DEF CString
  <1>2. CASE k < n
    <2>1. k + 1 \in ends
      BY <1>2
    <2>2. \A i \in ends : k + 1 <= i
      OBVIOUS
    <2>3. ends \subseteq Int
      OBVIOUS
    <2>4. Min(ends) = k + 1
      <3> HIDE DEF ends
      <3>1. \A x \in ends : (\A y \in ends : x <= y) => x = k + 1
        BY <2>1, <2>2, <2>3
      <3> QED
        BY <2>1, <2>2, <3>1 DEF Min
    <2>5. ends # {} /\ CString(s) = SubSeq(s, 1, Min(ends) - 1)
      BY <2>1 DEF CString
    <2>6. k + 1 - 1 = k
      OBVIOUS
    <2>7. CString(s) = SubSeq(s, 1, k)
      <3> HIDE DEF ends
      <3> QED
        BY <2>4, <2>5, <2>6
    <2>8. 1 \in 1 .. n + 1 /\ k \in (1 - 1) .. n /\ k - 1 + 1 = k
      OBVIOUS
    <2>9. /\ SubSeq(s, 1, k) \in Seq(Int) /\ Len(SubSeq(s, 1, k)) = k
          /\ \A i \in 1 .. k : SubSeq(s, 1, k)[i] = s[i]
      BY <2>8
    <2> QED
      BY <2>7, <2>9
  <1> QED
    BY <1>1, <1>2

LEMMA FillIs ==
    ASSUME NEW x, NEW n \in 2 .. 6, CallOf(x, n), NEW i \in 1 .. 6
    PROVE  /\ i <= n => Fill(x, i) = x[i] /\ x[i] \in 0 .. 35
           /\ i > n => Fill(x, i) = Space
           /\ Fill(x, i) \in 0 .. 36
  <1>1. \A c \in 0 .. 35 : CodeOf(c) = c
    BY DEF CodeOf, Space, NUL
  <1>2. CodeOf(NUL) = Space
    BY DEF CodeOf
  <1>3. CASE i <= n
    <2>1. i \in 1 .. n
      BY <1>3
    <2>2. At(x, i) = x[i] /\ x[i] \in 0 .. 35
      BY <2>1 DEF At, CallOf
    <2> QED
      BY <1>1, <1>3, <2>2 DEF Fill
  <1>4. CASE i > n
    <2>1. i \notin 1 .. n
      BY <1>4
    <2>2. At(x, i) = NUL
      BY <2>1 DEF At, CallOf
    <2>3. Fill(x, i) = Space
      BY <1>2, <2>2 DEF Fill
    <2> QED
      BY <1>4, <2>3 DEF Space
  <1> QED
    BY <1>3, <1>4

LEMMA FilledCString ==
    ASSUME NEW x, NEW n \in 2 .. 6, CallOf(x, n)
    PROVE  CString(Filled(x)) = x
  <1>1. x \in Seq(Int) /\ Len(x) = n
    BY DEF CallOf
  <1>2. \A i \in 1 .. 6 : Fill(x, i) \in Int
    BY FillIs
  <1>3. PICK y : y = Filled(x)
    OBVIOUS
  <1>4. y \in Seq(Int) /\ Len(y) = 6 /\ \A i \in 1 .. 6 : y[i] = Fill(x, i)
    BY <1>2, <1>3 DEF Filled
  <1>5. \A i \in 1 .. n : y[i] = x[i] /\ x[i] \in 0 .. 35
    <2> SUFFICES ASSUME NEW i \in 1 .. n
                 PROVE  y[i] = x[i] /\ x[i] \in 0 .. 35
      OBVIOUS
    <2>1. i \in 1 .. 6 /\ i <= n
      OBVIOUS
    <2>2. Fill(x, i) = x[i] /\ x[i] \in 0 .. 35
      BY <2>1, FillIs
    <2> QED
      BY <1>4, <2>1, <2>2, Zenon
  <1>6. n < 6 => y[n + 1] = Space
    <2>1. n < 6 => n + 1 \in 1 .. 6 /\ n + 1 > n
      OBVIOUS
    <2> QED
      BY <1>4, <2>1, FillIs
  <1>7. \A i \in 1 .. n : y[i] # Space
    BY <1>5 DEF Space
  <1>8. n \in 0 .. 6 /\ 6 \in Nat
    OBVIOUS
  <1>9. /\ CString(y) \in Seq(Int) /\ Len(CString(y)) = n
        /\ \A i \in 1 .. n : CString(y)[i] = y[i]
    BY <1>4, <1>6, <1>7, <1>8, CStringIs, Zenon
  <1>10. PICK z : z = CString(y)
    OBVIOUS
  <1>11. z = x
    <2>1. z \in Seq(Int) /\ Len(z) = n /\ \A i \in 1 .. n : z[i] = x[i]
      BY <1>5, <1>9, <1>10, Zenon
    <2> QED
      BY <1>1, <2>1, SeqEqual, Zenon
  <1> QED
    BY <1>3, <1>10, <1>11

(***************************************************************************)
(* What fills the places from j on if they are letters or beyond the end.  *)
(***************************************************************************)
LEMMA FillLetters ==
    ASSUME NEW x, NEW n \in 2 .. 6, CallOf(x, n), NEW j \in 3 .. 4,
           \A i \in j .. n : x[i] \in 10 .. 35,
           NEW i \in j .. 6
    PROVE  Fill(x, i) - 10 \in 0 .. 26
  <1>1. i \in 1 .. 6
    OBVIOUS
  <1>2. CASE i <= n
    BY <1>1, <1>2, FillIs
  <1>3. CASE i > n
    BY <1>1, <1>3, FillIs DEF Space
  <1> QED
    BY <1>2, <1>3

LEMMA PackIs ==
    ASSUME NEW x, NEW n \in 2 .. 6, CallOf(x, n)
    PROVE  \E a \in 0 .. 36, b \in 0 .. 35, c \in 0 .. 9, d, e, f \in 0 .. 26 :
              pack_call(x) = Number(a, b, c, d, e, f) /\ Filled(x) = Buffer(a, b, c, d, e, f)
  <1>1. Len(x) = n /\ ~(Len(x) > 6) /\ \A i \in 1 .. n : x[i] \in 0 .. 35
    BY DEF CallOf
  <1>2. /\ Fill(x, 1) \in Int /\ Fill(x, 2) \in Int /\ Fill(x, 3) \in Int
        /\ Fill(x, 4) \in Int /\ Fill(x, 5) \in Int /\ Fill(x, 6) \in Int
    BY FillIs
  <1>3. PICK f1, f2, f3, f4, f5, f6 \in Int :
           /\ f1 = Fill(x, 1) /\ f2 = Fill(x, 2) /\ f3 = Fill(x, 3)
           /\ f4 = Fill(x, 4) /\ f5 = Fill(x, 5) /\ f6 = Fill(x, 6)
    BY <1>2, Zenon
  <1>4. f4 - 10 + 10 = f4 /\ f5 - 10 + 10 = f5 /\ f6 - 10 + 10 = f6 /\ f3 - 10 + 10 = f3
    OBVIOUS
  <1>5. CASE n >= 3 /\ x[3] \in 0 .. 9 /\ \A i \in 4 .. n : x[i] \in 10 .. 35
    <2>1. isdigit(At(x, 3))
      BY <1>1, <1>5 DEF At, isdigit
    <2>2. pack_call(x) = Number(Fill(x, 1), Fill(x, 2), Fill(x, 3),
                                Fill(x, 4) - 10, Fill(x, 5) - 10, Fill(x, 6) - 10)
      BY <1>1, <1>2, <2>1 DEF pack_call, Number, Fill
    <2>3. f1 \in 0 .. 35 /\ f2 \in 0 .. 35 /\ f3 \in 0 .. 9
      BY <1>3, <1>5, FillIs
    <2>4. f4 - 10 \in 0 .. 26 /\ f5 - 10 \in 0 .. 26 /\ f6 - 10 \in 0 .. 26
      <3>1. \A i \in 4 .. 6 : Fill(x, i) - 10 \in 0 .. 26
        BY <1>5, FillLetters
      <3> QED
        BY <1>3, <3>1
    <2>5. f1 # Space /\ f1 \in 0 .. 36
      BY <2>3 DEF Space
    <2>6. Filled(x) = Buffer(f1, f2, f3, f4 - 10, f5 - 10, f6 - 10)
      BY <1>3, <1>4, <2>5, Zenon DEF Filled, Buffer
    <2>7. pack_call(x) = Number(f1, f2, f3, f4 - 10, f5 - 10, f6 - 10)
      BY <1>3, <2>2
    <2> QED
      BY <2>3, <2>4, <2>5, <2>6, <2>7, Zenon
  <1>6. CASE n <= 5 /\ x[2] \in 0 .. 9 /\ \A i \in 3 .. n : x[i] \in 10 .. 35
    <2>1. isdigit(At(x, 2)) /\ ~isdigit(At(x, 3))
      <3>1. isdigit(At(x, 2))
        BY <1>1, <1>6 DEF At, isdigit
      <3>2. n = 2 => At(x, 3) = NUL
        BY <1>1 DEF At
      <3>3. n >= 3 => At(x, 3) = x[3] /\ x[3] \in 10 .. 35
        BY <1>1, <1>6 DEF At
      <3>4. n = 2 \/ n >= 3
        OBVIOUS
      <3> QED
        BY <3>1, <3>2, <3>3, <3>4 DEF isdigit, NUL
    <2>2. CodeOf(At(x, 0)) = Space
      BY DEF At, CodeOf
    <2>3. pack_call(x) = Number(Space, Fill(x, 1), Fill(x, 2),
                                Fill(x, 3) - 10, Fill(x, 4) - 10, Fill(x, 5) - 10)
      BY <1>1, <1>2, <2>1, <2>2 DEF pack_call, Number, Fill
    <2>4. f1 \in 0 .. 35 /\ f2 \in 0 .. 9
      BY <1>3, <1>6, FillIs
    <2>5. f3 - 10 \in 0 .. 26 /\ f4 - 10 \in 0 .. 26 /\ f5 - 10 \in 0 .. 26
      <3>1. \A i \in 3 .. 6 : Fill(x, i) - 10 \in 0 .. 26
        BY <1>6, FillLetters
      <3> QED
        BY <1>3, <3>1
    <2>6. f6 = Space /\ Space \in 0 .. 36
      BY <1>3, <1>6, FillIs DEF Space
    <2>7. Filled(x) = Buffer(Space, f1, f2, f3 - 10, f4 - 10, f5 - 10)
      BY <1>3, <1>4, <2>6, Zenon DEF Filled, Buffer
    <2>8. pack_call(x) = Number(Space, f1, f2, f3 - 10, f4 - 10, f5 - 10)
      BY <1>3, <2>3
    <2> QED
      BY <2>4, <2>5, <2>6, <2>7, <2>8, Zenon
  <1> QED
    BY <1>5, <1>6 DEF CallOf

(***************************************************************************)
(* A callsign comes back from the number it is packed into.                *)
(***************************************************************************)
LEMMA PackedCall ==
    ASSUME NEW x, NEW n \in 2 .. 6, CallOf(x, n)
    PROVE  /\ pack_call(x) \in Nat /\ pack_call(x) < CallValues
           /\ unpackcall(pack_call(x)) = Filled(x)
           /\ CString(unpackcall(pack_call(x))) = x
  <1>1. PICK a \in 0 .. 36, b \in 0 .. 35, c \in 0 .. 9, d, e, f \in 0 .. 26 :
           pack_call(x) = Number(a, b, c, d, e, f) /\ Filled(x) = Buffer(a, b, c, d, e, f)
    BY PackIs, Zenon
  <1>2. Splits(Number(a, b, c, d, e, f), a, b, c, d, e, f)
    BY NumberSplit, Zenon
  <1>3. unpackcall(Number(a, b, c, d, e, f)) = Buffer(a, b, c, d, e, f)
    BY BufferIs, Zenon
  <1>4. Number(a, b, c, d, e, f) \in Nat /\ Number(a, b, c, d, e, f) < CallValues
    BY <1>2, Zenon DEF Splits
  <1> QED
    BY <1>1, <1>3, <1>4, FilledCString, Zenon

(***************************************************************************)
(* The buffer has a digit in place m, letters or spaces after it.          *)
(***************************************************************************)
CallBuffer(y, m) ==
    /\ y \in Seq(Int) /\ Len(y) = 6
    /\ \A i \in 1 .. 6 : y[i] \in 0 .. 36
    /\ \A i \in 1 .. m - 1 : y[i] \in 0 .. 35
    /\ y[m] \in 0 .. 9
    /\ \A i \in m + 1 .. 6 : y[i] \in 10 .. 36
    /\ m = 2 => y[6] = Space

LEMMA UnpackedBuffer ==
    ASSUME NEW v \in Nat, v < CallValues
    PROVE  \E m \in 2 .. 3 : CallBuffer(unpackcall(v), m)
  <1>1. PICK a \in 0 .. 36, b \in 0 .. 35, c \in 0 .. 9, d, e, f \in 0 .. 26 :
           v = Number(a, b, c, d, e, f)
    BY NumberOf, Zenon
  <1>2. unpackcall(v) = Buffer(a, b, c, d, e, f)
    BY <1>1, BufferIs, Zenon
  <1>3. CASE a = Space
    <2>1. PICK y : y = <<b, c, d + 10, e + 10, f + 10, Space>>
      OBVIOUS
    <2>2. unpackcall(v) = y
      BY <1>2, <1>3, <2>1 DEF Buffer
    <2>3. CallBuffer(y, 2)
      BY <2>1 DEF CallBuffer, Space
    <2> QED
      BY <2>2, <2>3
  <1>4. CASE a # Space
    <2>1. PICK y : y = <<a, b, c, d + 10, e + 10, f + 10>>
      OBVIOUS
    <2>2. unpackcall(v) = y
      BY <1>2, <1>4, <2>1 DEF Buffer
    <2>3. CallBuffer(y, 3)
      BY <1>4, <2>1 DEF CallBuffer, Space
    <2> QED
      BY <2>2, <2>3
  <1> QED
    BY <1>3, <1>4

LEMMA BufferCall ==
    ASSUME NEW y, NEW m \in 2 .. 3, CallBuffer(y, m)
    PROVE  \E n \in 2 .. 6 : /\ n >= m /\ CallOf(CString(y), n)
                             /\ n < 6 => y[n + 1] = Space
                             /\ \A i \in 1 .. n : CString(y)[i] = y[i]
  <1>1. /\ y \in Seq(Int) /\ Len(y) = 6
        /\ \A i \in 1 .. m - 1 : y[i] \in 0 .. 35
        /\ y[m] \in 0 .. 9
        /\ \A i \in m + 1 .. 6 : y[i] \in 10 .. 36
        /\ m = 2 => y[6] = Space
    BY DEF CallBuffer
  <1>2. \E n \in m .. 6 : (\A i \in m + 1 .. n : y[i] # Space) /\ (n < 6 => y[n + 1] = Space)
    <2>1. CASE m = 3
      <3>1. CASE y[4] = Space
        BY <2>1, <3>1
      <3>2. CASE y[4] # Space /\ y[5] = Space
        BY <2>1, <3>2
      <3>3. CASE y[4] # Space /\ y[5] # Space /\ y[6] = Space
        BY <2>1, <3>3
      <3>4. CASE y[4] # Space /\ y[5] # Space /\ y[6] # Space
        BY <2>1, <3>4
      <3> QED
        BY <3>1, <3>2, <3>3, <3>4
    <2>2. CASE m = 2
      <3>1. CASE y[3] = Space
        BY <2>2, <3>1
      <3>2. CASE y[3] # Space /\ y[4] = Space
        BY <2>2, <3>2
      <3>3. CASE y[3] # Space /\ y[4] # Space /\ y[5] = Space
        BY <2>2, <3>3
      <3>4. CASE y[3] # Space /\ y[4] # Space /\ y[5] # Space
        BY <1>1, <2>2, <3>4
      <3> QED
        BY <3>1, <3>2, <3>3, <3>4
    <2> QED
      BY <2>1, <2>2
  <1>3. PICK n \in m .. 6 : (\A i \in m + 1 .. n : y[i] # Space) /\ (n < 6 => y[n + 1] = Space)
    BY <1>2
  <1>4. \A i \in 1 .. n : y[i] \in 0 .. 35
    <2> SUFFICES ASSUME NEW i \in 1 .. n PROVE y[i] \in 0 .. 35
      OBVIOUS
    <2>1. i < m => y[i] \in 0 .. 35
      BY <1>1
    <2>2. i > m => y[i] \in 0 .. 35
      BY <1>1, <1>3 DEF Space
    <2>3. i = m => y[i] \in 0 .. 35
      BY <1>1
    <2>4. i < m \/ i > m \/ i = m
      OBVIOUS
    <2> QED
      BY <2>1, <2>2, <2>3, <2>4
  <1>5. \A i \in m + 1 .. n : y[i] \in 10 .. 35
    BY <1>1, <1>3 DEF Space
  <1>6. \A i \in 1 .. n : y[i] # Space
    BY <1>4 DEF Space
  <1>7. n \in 0 .. 6 /\ 6 \in Nat
    OBVIOUS
  <1>8. PICK x : x = CString(y)
    OBVIOUS
  <1>9. x \in Seq(Int) /\ Len(x) = n /\ \A i \in 1 .. n : x[i] = y[i]
    BY <1>1, <1>3, <1>6, <1>7, <1>8, CStringIs, Zenon
  <1>10. (m = 2 => y[6] = Space /\ n <= 5)
    BY <1>1, <1>6
  <1>11. CallOf(x, n)
    <2>1. \A i \in 1 .. n : x[i] \in 0 .. 35
      BY <1>4, <1>9
    <2>2. m \in 1 .. n /\ x[m] \in 0 .. 9
      BY <1>1, <1>9
    <2>3. \A i \in m + 1 .. n : x[i] \in 10 .. 35
      <3> SUFFICES ASSUME NEW i \in m + 1 .. n PROVE x[i] \in 10 .. 35
        OBVIOUS
      <3>1. i \in 1 .. n
        OBVIOUS
      <3> QED
        BY <1>5, <1>9, <3>1, Zenon
    <2>4. CASE m = 2
      BY <1>9, <1>10, <2>1, <2>2, <2>3, <2>4 DEF CallOf
    <2>5. CASE m = 3
      BY <1>9, <2>1, <2>2, <2>3, <2>5 DEF CallOf
    <2> QED
      BY <2>4, <2>5
  <1>12. n \in 2 .. 6 /\ n >= m
    OBVIOUS
  <1> QED
    BY <1>3, <1>8, <1>9, <1>11, <1>12

LEMMA UnpackedNumber ==
    ASSUME NEW v \in Nat, v < CallValues
    PROVE  \E a \in 0 .. 36, b \in 0 .. 35, c \in 0 .. 9, d, e, f \in 0 .. 26 :
              v = Number(a, b, c, d, e, f) /\ unpackcall(v) = Buffer(a, b, c, d, e, f)
  <1>1. PICK a \in 0 .. 36, b \in 0 .. 35, c \in 0 .. 9, d, e, f \in 0 .. 26 :
           v = Number(a, b, c, d, e, f)
    BY NumberOf, Zenon
  <1>2. unpackcall(Number(a, b, c, d, e, f)) = Buffer(a, b, c, d, e, f)
    BY BufferIs, Zenon
  <1> QED
    BY <1>1, <1>2, Zenon

LEMMA UnpackInjective ==
    ASSUME NEW u \in Nat, u < CallValues, NEW v \in Nat, v < CallValues,
           unpackcall(u) = unpackcall(v)
    PROVE  u = v
  <1>1. PICK a \in 0 .. 36, b \in 0 .. 35, c \in 0 .. 9, d, e, f \in 0 .. 26 :
           u = Number(a, b, c, d, e, f) /\ unpackcall(u) = Buffer(a, b, c, d, e, f)
    BY UnpackedNumber, Zenon
  <1>2. PICK g \in 0 .. 36, h \in 0 .. 35, i \in 0 .. 9, j, k, l \in 0 .. 26 :
           v = Number(g, h, i, j, k, l) /\ unpackcall(v) = Buffer(g, h, i, j, k, l)
    BY UnpackedNumber, Zenon
  <1>3. Buffer(a, b, c, d, e, f) = Buffer(g, h, i, j, k, l)
    BY <1>1, <1>2
  <1>4. a = g /\ b = h /\ c = i /\ d = j /\ e = k /\ f = l
    BY <1>3 DEF Buffer, Space
  <1> QED
    BY <1>1, <1>2, <1>4

(***************************************************************************)
(* A value without a gap in its callsign is what that callsign packs into. *)
(***************************************************************************)
LEMMA GaplessPacked ==
    ASSUME NEW v \in Nat, v < CallValues,
           \A i \in 2 .. 6 : At(unpackcall(v), i - 1) = Space => At(unpackcall(v), i) = Space
    PROVE  pack_call(CString(unpackcall(v))) = v
  <1>1. PICK y : y = unpackcall(v)
    OBVIOUS
  <1>2. PICK m \in 2 .. 3 : CallBuffer(y, m)
    BY <1>1, UnpackedBuffer, Zenon
  <1>3. PICK n \in 2 .. 6 : /\ n >= m /\ CallOf(CString(y), n)
                            /\ n < 6 => y[n + 1] = Space
                            /\ \A i \in 1 .. n : CString(y)[i] = y[i]
    BY <1>2, BufferCall, Zenon
  <1>4. PICK x : x = CString(y)
    OBVIOUS
  <1>5. y \in Seq(Int) /\ Len(y) = 6
    BY <1>2 DEF CallBuffer
  <1>6. \A i \in 2 .. 6 : y[i - 1] = Space => y[i] = Space
    <2> SUFFICES ASSUME NEW i \in 2 .. 6
                 PROVE  y[i - 1] = Space => y[i] = Space
      OBVIOUS
    <2>1. i \in 1 .. 6 /\ i - 1 \in 1 .. 6
      OBVIOUS
    <2>2. At(y, i) = y[i] /\ At(y, i - 1) = y[i - 1]
      BY <1>5, <2>1, Zenon DEF At
    <2> QED
      BY <1>1, <2>2, Zenon
  <1>7. \A i \in 1 .. 6 : i > n => y[i] = Space
    <2>1. CASE n = 6
      BY <2>1
    <2>2. CASE n = 5
      BY <1>3, <2>2
    <2>3. CASE n = 4
      BY <1>3, <1>6, <2>3
    <2>4. CASE n = 3
      BY <1>3, <1>6, <2>4
    <2>5. CASE n = 2
      BY <1>3, <1>6, <2>5
    <2> QED
      BY <2>1, <2>2, <2>3, <2>4, <2>5
  <1>8. \A i \in 1 .. 6 : Fill(x, i) = y[i]
    <2> SUFFICES ASSUME NEW i \in 1 .. 6 PROVE Fill(x, i) = y[i]
      OBVIOUS
    <2>1. CASE i <= n
      <3>1. i \in 1 .. n
        BY <2>1
      <3> QED
        BY <1>3, <1>4, <2>1, <3>1, FillIs, Zenon
    <2>2. CASE i > n
      BY <1>3, <1>4, <1>7, <2>2, FillIs
    <2> QED
      BY <2>1, <2>2
  <1>9. Filled(x) = y
    <2>1. PICK z : z = Filled(x)
      OBVIOUS
    <2>2. \A i \in 1 .. 6 : Fill(x, i) \in Int
      BY <1>3, <1>4, FillIs
    <2>3. z \in Seq(Int) /\ Len(z) = 6 /\ \A i \in 1 .. 6 : z[i] = Fill(x, i)
      BY <2>1, <2>2 DEF Filled
    <2>4. \A i \in 1 .. 6 : z[i] = y[i]
      BY <1>8, <2>3, Zenon
    <2>5. z = y
      BY <1>5, <2>3, <2>4, SeqEqual, Zenon
    <2> QED
      BY <2>1, <2>5
  <1>10. /\ pack_call(x) \in Nat /\ pack_call(x) < CallValues
         /\ unpackcall(pack_call(x)) = unpackcall(v)
    BY <1>1, <1>3, <1>4, <1>9, PackedCall, Zenon
  <1> QED
    BY <1>1, <1>4, <1>10, UnpackInjective, Zenon

-----------------------------------------------------------------------------
(* Locators and powers *)

(***************************************************************************)
(* A locator comes back from the fifteen bits it is packed into.           *)
(***************************************************************************)
LEMMA GridPacked ==
    ASSUME NEW w \in Nat, w \div 128 < GridValues, NEW power \in Int,
           power = (w % 128) - 64
    PROVE  pack_grid4_power(unpackgrid(w), power) = w /\ Len(unpackgrid(w)) = 4
  <1>1. PICK g \in Nat, low \in 0 .. 127 : w = 128 * g + low
    BY Divided
  <1>2. w \div 128 = g /\ w % 128 = low
    BY <1>1
  <1>3. PICK east \in Nat, north \in 0 .. 179 : g = 180 * east + north
    BY Divided
  <1>4. g \div 180 = east /\ g % 180 = north /\ east <= 179
    BY <1>2, <1>3 DEF GridValues
  <1>5. PICK lon : lon = 179 - east
    OBVIOUS
  <1>6. lon \in Nat /\ lon <= 179
    BY <1>4, <1>5
  <1>7. PICK p \in Nat, q \in 0 .. 9 : lon = 10 * p + q
    BY <1>6, Divided
  <1>n. north \in Nat
    OBVIOUS
  <1>8. PICK r \in Nat, s \in 0 .. 9 : north = 10 * r + s
    BY <1>n, Divided, Zenon
  <1>9. lon \div 10 = p /\ lon % 10 = q /\ north \div 10 = r /\ north % 10 = s
    BY <1>7, <1>8
  <1>10. p <= 17 /\ r <= 17
    BY <1>6, <1>7, <1>8
  <1>11. unpackgrid(w) = <<10 + p, 10 + r, q, s>>
    <2>1. ~(g >= GridValues)
      BY <1>2 DEF GridValues
    <2>2. unpackgrid(w) = <<10 + (179 - east) \div 10, 10 + north \div 10,
                            (179 - east) % 10, north % 10>>
      BY <1>2, <1>4, <2>1, Zenon DEF unpackgrid
    <2> QED
      BY <1>5, <1>9, <2>2
  <1>12. PICK z : z = <<10 + p, 10 + r, q, s>>
    OBVIOUS
  <1>13. At(z, 1) = 10 + p /\ At(z, 2) = 10 + r /\ At(z, 3) = q /\ At(z, 4) = s /\ Len(z) = 4
    BY <1>12 DEF At
  <1>14. /\ LocatorCode(At(z, 1)) = p /\ LocatorCode(At(z, 2)) = r
         /\ LocatorCode(At(z, 3)) = q /\ LocatorCode(At(z, 4)) = s
    <2>1. p \in 0 .. 17 /\ r \in 0 .. 17
      BY <1>10
    <2>2. \A v \in 0 .. 17 : LocatorCode(10 + v) = v
      BY DEF LocatorCode, isdigit, Space
    <2>3. \A v \in 0 .. 9 : LocatorCode(v) = v
      BY DEF LocatorCode, isdigit
    <2>4. LocatorCode(10 + p) = p /\ LocatorCode(10 + r) = r
      BY <2>1, <2>2
    <2>5. LocatorCode(q) = q /\ LocatorCode(s) = s
      BY <2>3
    <2> QED
      BY <1>13, <2>4, <2>5
  <1>15. pack_grid4_power(z, power) = ((179 - 10 * p - q) * 180 + 10 * r + s) * 128 + power + 64
    BY <1>14 DEF pack_grid4_power
  <1>16. power = low - 64
    BY <1>2
  <1>17. (179 - 10 * p - q) * 180 + 10 * r + s = g
    BY <1>3, <1>5, <1>7, <1>8
  <1>18. ((179 - 10 * p - q) * 180 + 10 * r + s) * 128 + power + 64 = w
    BY <1>1, <1>16, <1>17
  <1> QED
    BY <1>11, <1>12, <1>13, <1>15, <1>18

LEMMA RoundedPower ==
    ASSUME NEW p \in 0 .. 60, PowerDigit(p)
    PROVE  Rounded(p) = p
  <1>1. p % 10 = 0 \/ p % 10 = 3 \/ p % 10 = 7
    BY DEF PowerDigit
  <1> QED
    BY <1>1 DEF Rounded

-----------------------------------------------------------------------------
(* Generating a printed line again *)

(***************************************************************************)
(* A text of n characters, and what joins and cuts do to it.               *)
(***************************************************************************)
Text(s, n) == s \in Seq(Int) /\ n \in Nat /\ Len(s) = n

LEMMA SameText ==
    ASSUME NEW s, NEW tx, NEW n \in Nat, Text(s, n), Text(tx, n), \A i \in 1 .. n : s[i] = tx[i]
    PROVE  s = tx
  BY SeqEqual, Zenon DEF Text

Joined(w, s, n, tx, m) ==
    /\ Text(w, n + m)
    /\ \A i \in 1 .. n : w[i] = s[i]
    /\ \A i \in 1 .. m : w[n + i] = tx[i]

PartOf(w, s, j, k) ==
    /\ Text(w, k - j + 1)
    /\ \A i \in 1 .. k - j + 1 : w[i] = s[j + i - 1]

LEMMA JoinText ==
    ASSUME NEW s, NEW tx, NEW n \in Nat, NEW m \in Nat, Text(s, n), Text(tx, m)
    PROVE  Joined(s \o tx, s, n, tx, m)
  <1>1. PICK w : w = s \o tx
    OBVIOUS
  <1>2. s \in Seq(Int) /\ tx \in Seq(Int) /\ Len(s) = n /\ Len(tx) = m
    BY DEF Text
  <1>3. /\ w \in Seq(Int) /\ Len(w) = n + m
        /\ \A i \in 1 .. n + m : w[i] = IF i <= n THEN s[i] ELSE tx[i - n]
    BY <1>1, <1>2, ConcatProperties, Zenon
  <1>4. Text(w, n + m)
    BY <1>3 DEF Text
  <1>5. ASSUME NEW i \in 1 .. n PROVE w[i] = s[i]
    <2>1. i \in 1 .. n + m /\ i <= n
      OBVIOUS
    <2> QED
      BY <1>3, <2>1, Zenon
  <1>6. ASSUME NEW i \in 1 .. m PROVE w[n + i] = tx[i]
    <2>1. PICK k : k = n + i
      OBVIOUS
    <2>2. k \in 1 .. n + m /\ ~(k <= n) /\ k - n = i
      BY <2>1
    <2>3. w[k] = tx[k - n]
      BY <1>3, <2>2, Zenon
    <2> QED
      BY <2>1, <2>2, <2>3, Zenon
  <1> QED
    BY <1>1, <1>4, <1>5, <1>6, Zenon DEF Joined

LEMMA PartText ==
    ASSUME NEW s, NEW n \in Nat, Text(s, n), NEW k \in 0 .. n, NEW j \in 1 .. k + 1
    PROVE  PartOf(SubSeq(s, j, k), s, j, k)
  <1>1. PICK w : w = SubSeq(s, j, k)
    OBVIOUS
  <1>2. s \in Seq(Int) /\ Len(s) = n
    BY DEF Text
  <1>3. ASSUME NEW i \in j .. k PROVE s[i] \in Int
    <2>1. i \in 1 .. Len(s)
      BY <1>2
    <2> QED
      BY <1>2, <2>1, ElementOfSeq, Zenon
  <1>4. j \in Int /\ k \in Int
    OBVIOUS
  <1>5. /\ w \in Seq(Int)
        /\ Len(w) = IF j <= k THEN k - j + 1 ELSE 0
        /\ \A i \in 1 .. k - j + 1 : w[i] = s[j + i - 1]
    BY <1>1, <1>3, <1>4, SubSeqProperties
  <1>6. Len(w) = k - j + 1 /\ k - j + 1 \in Nat
    <2>1. ~(j <= k) => k - j + 1 = 0
      OBVIOUS
    <2>2. k - j + 1 \in Nat
      OBVIOUS
    <2> QED
      BY <1>5, <2>1, <2>2, Zenon
  <1> QED
    BY <1>1, <1>5, <1>6, Zenon DEF Text, PartOf

LEMMA EmptyText ==
    /\ Text(<< >>, 0)
    /\ \A s : Text(s, 0) => s = << >>
    /\ \A s, n : Text(s, n) /\ n # 0 => s # << >>
  BY DEF Text

LEMMA TextAt ==
    ASSUME NEW s, NEW n \in Nat, Text(s, n)
    PROVE  /\ \A i \in 1 .. n : At(s, i) = s[i] /\ s[i] \in Int
           /\ \A i \in Int : i \notin 1 .. n => At(s, i) = NUL
  <1>1. s \in Seq(Int) /\ Len(s) = n
    BY DEF Text
  <1>2. \A i \in 1 .. n : s[i] \in Int
    BY <1>1, ElementOfSeq, Zenon
  <1> QED
    BY <1>1, <1>2, Zenon DEF At

LEMMA Cut28 == \A v \in Nat : v < CallValues => v % Values28 = v
  <1>1. Values28 = 256 * 1024 * 1024 /\ Values28 \in Nat
    BY DEF Values28
  <1>2. CallValues < Values28
    BY <1>1, CallValuesIs, CallValuesNat
  <1>3. \A v \in Nat : v < Values28 => v % Values28 = v
    BY <1>1
  <1> QED
    BY <1>1, <1>2, <1>3, CallValuesNat

LEMMA Cut22 == /\ Values22 = 4 * 1024 * 1024 /\ Values22 \in Nat
               /\ \A v \in Nat : v < Values22 => v % Values22 = v
  <1>1. Values22 = 4 * 1024 * 1024 /\ Values22 \in Nat
    BY DEF Values22
  <1> QED
    BY <1>1

(***************************************************************************)
(* The characters of a callsign are none of the four.                      *)
(***************************************************************************)
LEMMA CallPlain ==
    ASSUME NEW x, NEW n \in 2 .. 6, CallOf(x, n)
    PROVE  /\ \A i \in 1 .. Len(x) : x[i] \notin {SlashChar, Less}
           /\ At(x, 1) \in 0 .. 35 /\ At(x, 1) # Less
           /\ Slash(x) = n + 1
  <1>1. Len(x) = n /\ \A i \in 1 .. n : x[i] \in 0 .. 35
    BY DEF CallOf
  <1>2. \A i \in 1 .. n : x[i] # SlashChar /\ x[i] # Less
    <2>1. \A c \in 0 .. 35 : c # SlashChar /\ c # Less
      BY DEF SlashChar, Less
    <2> QED
      BY <1>1, <2>1, Zenon
  <1>3. At(x, 1) \in 0 .. 35
    BY <1>1 DEF At
  <1>4. At(x, 1) # Less
    BY <1>3 DEF Less
  <1>5. {i \in 1 .. Len(x) : x[i] = SlashChar} = {}
    BY <1>1, <1>2
  <1>6. Slash(x) = n + 1
    BY <1>1, <1>5 DEF Slash
  <1> QED
    BY <1>1, <1>2, <1>3, <1>4, <1>6

LEMMA GeneratedPlain ==
    ASSUME NEW x, NEW n \in 2 .. 6, CallOf(x, n), NEW g, NEW p
    PROVE  get_wspr_channel_symbols([call |-> x, grid |-> g, power |-> p]) =
              IF n = 2 THEN << >>
              ELSE <<pack_call(x) % Values28, pack_grid4_power(g, p) % Values22>>
  <1>1. Len(x) = n
    BY DEF CallOf
  <1>2. /\ \A i \in 1 .. Len(x) : x[i] \notin {SlashChar, Less}
        /\ At(x, 1) # Less /\ Slash(x) = n + 1
    BY CallPlain
  <1>3. Len(x) \in 3 .. 6 <=> n # 2
    BY <1>1
  <1>4. Slash(x) \notin 2 .. Len(x)
    BY <1>1, <1>2
  <1> QED
    BY <1>2, <1>3, <1>4 DEF get_wspr_channel_symbols

BracketedAgain(c, p, b1, b2, b3, b4, b5, b6) ==
    get_wspr_channel_symbols([call |-> Bracketed(c), grid |-> <<b6, b1, b2, b3, b4, b5>>,
                              power |-> p]) =
       <<pack_call(<<b1, b2, b3, b4, b5, b6>>) % Values28,
         (128 * NHash(c) - (Rounded(p) + 1) + 64) % Values22>>

LEMMA GeneratedBracketed ==
    ASSUME NEW c \in Seq(Int), NEW p, NEW b1 \in Int, NEW b2 \in Int, NEW b3 \in Int,
           NEW b4 \in Int, NEW b5 \in Int, NEW b6 \in Int
    PROVE  BracketedAgain(c, p, b1, b2, b3, b4, b5, b6)
  <1> DEFINE call == Bracketed(c)
             grid == <<b6, b1, b2, b3, b4, b5>>
  <1>1. Less \in Int /\ Greater \in Int
    BY DEF Less, Greater
  <1>2. Len(call) = Len(c) + 2 /\ call[1] = Less /\ \A i \in 1 .. Len(c) : call[i + 1] = c[i]
    BY <1>1 DEF Bracketed
  <1>3. At(call, 1) = Less
    BY <1>2 DEF At
  <1>4. ~ \A i \in 1 .. Len(call) : call[i] \notin {SlashChar, Less}
    BY <1>2
  <1>5. SubSeq(call, 2, Len(call) - 1) = c
    BY <1>1, <1>2 DEF Bracketed
  <1>6. SubSeq(grid, 2, Len(grid)) \o (IF Len(grid) = 6 THEN <<grid[1]>> ELSE << >>)
           = <<b1, b2, b3, b4, b5, b6>>
    <2>1. grid \in Seq(Int) /\ Len(grid) = 6 /\ grid[1] = b6
      OBVIOUS
    <2>2. SubSeq(grid, 2, 6) = <<b1, b2, b3, b4, b5>>
      <3>1. PICK z : z = <<b1, b2, b3, b4, b5>>
        OBVIOUS
      <3>2. z \in Seq(Int) /\ Len(z) = 5
        BY <3>1
      <3>3. PICK w : w = SubSeq(grid, 2, 6)
        OBVIOUS
      <3>4. w \in Seq(Int) /\ Len(w) = 5 /\ \A i \in 1 .. 5 : w[i] = grid[i + 1]
        BY <2>1, <3>3
      <3>5. \A i \in 1 .. 5 : w[i] = z[i]
        BY <3>1, <3>4
      <3> QED
        BY <3>1, <3>2, <3>3, <3>4, <3>5, SeqEqual, Zenon
    <2>3. <<b1, b2, b3, b4, b5>> \o <<b6>> = <<b1, b2, b3, b4, b5, b6>>
      <3>1. PICK z, w, u : /\ z = <<b1, b2, b3, b4, b5, b6>> /\ w = <<b1, b2, b3, b4, b5>>
                           /\ u = <<b6>>
        OBVIOUS
      <3>2. Text(z, 6) /\ Text(w, 5) /\ Text(u, 1)
        BY <3>1 DEF Text
      <3>3. PICK v : v = w \o u
        OBVIOUS
      <3>4. 5 \in Nat /\ 1 \in Nat
        OBVIOUS
      <3>5. Joined(v, w, 5, u, 1)
        BY <3>2, <3>3, <3>4, JoinText, Zenon
      <3>6. Text(v, 6) /\ \A i \in 1 .. 6 : v[i] = z[i]
        BY <3>1, <3>5 DEF Joined
      <3>7. v = z
        BY <3>2, <3>6, SameText
      <3> QED
        BY <3>1, <3>3, <3>7
    <2> HIDE DEF grid
    <2> QED
      BY <2>1, <2>2, <2>3
  <1> HIDE DEF call, grid
  <1>7. get_wspr_channel_symbols([call |-> call, grid |-> grid, power |-> p]) =
              <<pack_call(<<b1, b2, b3, b4, b5, b6>>) % Values28,
                (128 * NHash(c) - (Rounded(p) + 1) + 64) % Values22>>
    BY <1>3, <1>4, <1>5, <1>6, Zenon DEF get_wspr_channel_symbols
  <1> QED
    BY <1>7, Zenon DEF call, grid, BracketedAgain

(***************************************************************************)
(* w is the k characters h, a slash and the l characters r.                *)
(***************************************************************************)
Slashed(w, h, k, r, l) ==
    /\ Text(h, k) /\ Text(r, l) /\ Text(w, k + 1 + l)
    /\ \A i \in 1 .. k : w[i] = h[i] /\ h[i] \in 0 .. 35
    /\ w[k + 1] = SlashChar
    /\ \A i \in 1 .. l : w[k + 1 + i] = r[i] /\ r[i] \in 0 .. 35

LEMMA SlashParts ==
    ASSUME NEW w, NEW h, NEW k \in Nat, NEW r, NEW l \in Nat, Slashed(w, h, k, r, l)
    PROVE  /\ Len(w) = k + 1 + l /\ Slash(w) = k + 1
           /\ SubSeq(w, 1, k) = h /\ SubSeq(w, k + 2, k + 1 + l) = r
           /\ At(w, 1) # Less /\ ~ \A i \in 1 .. Len(w) : w[i] \notin {SlashChar, Less}
  <1>1. /\ Text(h, k) /\ Text(r, l) /\ Text(w, k + 1 + l)
        /\ \A i \in 1 .. k : w[i] = h[i] /\ h[i] \in 0 .. 35
        /\ w[k + 1] = SlashChar
        /\ \A i \in 1 .. l : w[k + 1 + i] = r[i] /\ r[i] \in 0 .. 35
    BY DEF Slashed
  <1>2. Len(w) = k + 1 + l
    BY <1>1 DEF Text
  <1>3. \A i \in 1 .. k : w[i] # SlashChar
    <2>1. \A c \in 0 .. 35 : c # SlashChar
      BY DEF SlashChar
    <2> QED
      BY <1>1, <2>1, Zenon
  <1>4. Slash(w) = k + 1
    <2> DEFINE places == {i \in 1 .. Len(w) : w[i] = SlashChar}
    <2>1. k + 1 \in places
      BY <1>1, <1>2
    <2>2. \A i \in places : k + 1 <= i /\ i \in Int
      BY <1>2, <1>3
    <2>3. Min(places) = k + 1
      <3> HIDE DEF places
      <3>1. \A x \in places : (\A y \in places : x <= y) => x = k + 1
        BY <2>1, <2>2
      <3> QED
        BY <2>1, <2>2, <3>1 DEF Min
    <2> QED
      BY <2>1, <2>3 DEF Slash
  <1>5. SubSeq(w, 1, k) = h
    <2>1. PICK n \in Nat : n = k + 1 + l
      OBVIOUS
    <2>2. k \in 0 .. n /\ 1 \in 1 .. k + 1 /\ k - 1 + 1 = k /\ Text(w, n)
      BY <1>1, <2>1
    <2>3. PICK v : v = SubSeq(w, 1, k)
      OBVIOUS
    <2>4. PartOf(v, w, 1, k)
      BY <2>2, <2>3, PartText, Zenon
    <2>5. Text(v, k) /\ \A i \in 1 .. k : v[i] = w[i]
      BY <2>2, <2>4 DEF PartOf
    <2>6. \A i \in 1 .. k : v[i] = h[i]
      BY <1>1, <2>5, Zenon
    <2>7. v = h
      BY <1>1, <2>5, <2>6, SameText, Zenon
    <2> QED
      BY <2>3, <2>7
  <1>6. SubSeq(w, k + 2, k + 1 + l) = r
    <2>1. PICK n \in Nat : n = k + 1 + l
      OBVIOUS
    <2>2. PICK j \in Nat : j = k + 2
      OBVIOUS
    <2>3. n \in 0 .. n /\ j \in 1 .. n + 1 /\ n - j + 1 = l /\ Text(w, n)
      BY <1>1, <2>1, <2>2
    <2>4. PICK v : v = SubSeq(w, j, n)
      OBVIOUS
    <2>5. PartOf(v, w, j, n)
      BY <2>3, <2>4, PartText, Zenon
    <2>6. Text(v, l) /\ \A i \in 1 .. l : v[i] = w[j + i - 1]
      BY <2>3, <2>5 DEF PartOf
    <2>7. \A i \in 1 .. l : v[i] = r[i]
      <3> SUFFICES ASSUME NEW i \in 1 .. l PROVE v[i] = r[i]
        OBVIOUS
      <3>1. j + i - 1 = k + 1 + i
        BY <2>2
      <3>2. w[k + 1 + i] = r[i]
        BY <1>1
      <3> QED
        BY <2>6, <3>1, <3>2
    <2>8. v = r
      BY <1>1, <2>6, <2>7, SameText, Zenon
    <2> QED
      BY <2>1, <2>2, <2>4, <2>8
  <1>7. At(w, 1) # Less
    <2>1. At(w, 1) = w[1]
      BY <1>2 DEF At
    <2>2. CASE k = 0
      BY <1>1, <2>1, <2>2 DEF SlashChar, Less
    <2>3. CASE k >= 1
      <3>1. w[1] \in 0 .. 35
        BY <1>1, <2>3
      <3> QED
        BY <2>1, <3>1 DEF Less
    <2> QED
      BY <2>2, <2>3
  <1>8. ~ \A i \in 1 .. Len(w) : w[i] \notin {SlashChar, Less}
    <2>1. k + 1 \in 1 .. Len(w)
      BY <1>2
    <2> QED
      BY <1>1, <2>1
  <1> QED
    BY <1>2, <1>4, <1>5, <1>6, <1>7, <1>8

(***************************************************************************)
(* The value of a prefix of k characters, filled up in front.              *)
(***************************************************************************)
PrefixCode(h, k) ==
    (CodeOf(At(h, k - 2)) * 37 + CodeOf(At(h, k - 1))) * 37 + CodeOf(At(h, k))

Parts(h, k, r, l) ==
    IF l = 1 THEN Packed(pack_call(h), PrefixValues - Carry + CodeOf(r[1]), 1)
    ELSE IF l = 2 THEN Packed(pack_call(h), PrefixValues + 26 + 10 * FromZero(r[1]) + FromZero(r[2]), 1)
    ELSE PackedPrefix(pack_call(r), PrefixCode(h, k))

(***************************************************************************)
(* What a power, a packed value and its nadd make of n2.                   *)
(***************************************************************************)
Sum22(m, p, nadd) == 128 * m + p + 1 + nadd + 64
Low22(m, p, nadd) == Sum22(m, p, nadd) % Values22

Generates(line, k, P, p) ==
    get_wspr_channel_symbols(line) =
       IF k = 0 THEN << >> ELSE <<P.n % Values28, Low22(P.m, p, P.nadd)>>

LEMMA GeneratedSlashed ==
    ASSUME NEW w, NEW h, NEW k \in Nat, NEW r, NEW l \in Nat, l >= 1, Slashed(w, h, k, r, l),
           NEW g, NEW p
    PROVE  Generates([call |-> w, grid |-> g, power |-> p], k, Parts(h, k, r, l), Rounded(p))
  <1>1. /\ Len(w) = k + 1 + l /\ Slash(w) = k + 1
        /\ SubSeq(w, 1, k) = h /\ SubSeq(w, k + 2, k + 1 + l) = r
        /\ At(w, 1) # Less /\ ~ \A i \in 1 .. Len(w) : w[i] \notin {SlashChar, Less}
    BY SlashParts
  <1>2. Len(h) = k /\ Len(r) = l
    BY DEF Slashed, Text
  <1>3. /\ SubSeq(w, 1, Slash(w) - 1) = h /\ SubSeq(w, Slash(w) + 1, Len(w)) = r
        /\ 1 + Len(h) - 3 = k - 2 /\ 2 + Len(h) - 3 = k - 1 /\ 3 + Len(h) - 3 = k
    <2>1. Slash(w) - 1 = k /\ Slash(w) + 1 = k + 2
      BY <1>1
    <2>2. 1 + Len(h) - 3 = k - 2 /\ 2 + Len(h) - 3 = k - 1 /\ 3 + Len(h) - 3 = k
      BY <1>2
    <2>3. SubSeq(w, 1, Slash(w) - 1) = h /\ SubSeq(w, Slash(w) + 1, Len(w)) = r
      BY <1>1, <2>1, Zenon
    <2> QED
      BY <2>2, <2>3
  <1>4. pack_prefix(w) = Parts(h, k, r, l)
    BY <1>2, <1>3, Zenon DEF pack_prefix, Parts, PrefixCode
  <1>5. Slash(w) \in 2 .. Len(w) <=> k # 0
    BY <1>1
  <1> QED
    BY <1>1, <1>4, <1>5, Zenon DEF get_wspr_channel_symbols, Generates, Low22, Sum22

-----------------------------------------------------------------------------
(* Prefixes and suffixes *)

LEMMA PrefixLimits ==
    /\ Carry \in Nat /\ Carry = 32 * 1024
    /\ PrefixValues \in Nat /\ PrefixValues = 60 * 1000
  BY DEF Carry, PrefixValues

(***************************************************************************)
(* The characters of a prefix, from its three digits in base 37.           *)
(***************************************************************************)
Head3(a, b, c) ==
    IF c = Space THEN << >>
    ELSE IF b = Space THEN <<c>>
    ELSE IF a = Space THEN <<b, c>>
    ELSE <<a, b, c>>

LEMMA CutHead ==
    ASSUME NEW a \in 0 .. 36, NEW b \in 0 .. 36, NEW c \in 0 .. 36
    PROVE  /\ SubSeq(<<a, b, c>>, 1, 3) = <<a, b, c>>
           /\ SubSeq(<<a, b, c>>, 2, 3) = <<b, c>>
           /\ SubSeq(<<a, b, c>>, 3, 3) = <<c>>
           /\ SubSeq(<<a, b, c>>, 4, 3) = << >>
  <1>1. PICK s : s = <<a, b, c>>
    OBVIOUS
  <1>2. s \in Seq(Int) /\ Len(s) = 3 /\ s[1] = a /\ s[2] = b /\ s[3] = c
    BY <1>1
  <1>3. Text(s, 3) /\ 3 \in Nat /\ 3 \in 0 .. 3 /\ 2 \in 1 .. 3 + 1 /\ 3 \in 1 .. 3 + 1
    BY <1>2 DEF Text
  <1>4. SubSeq(s, 1, 3) = s
    BY <1>2, SubSeqFull
  <1>5. SubSeq(s, 4, 3) = << >>
    BY SubSeqEmpty
  <1>6. SubSeq(s, 2, 3) = <<b, c>>
    <2>1. PICK w, z : w = SubSeq(s, 2, 3) /\ z = <<b, c>>
      OBVIOUS
    <2>2. PartOf(w, s, 2, 3)
      BY <1>3, <2>1, PartText, Zenon
    <2>3. Text(z, 2)
      BY <2>1 DEF Text
    <2>4. Text(w, 2) /\ \A i \in 1 .. 2 : w[i] = z[i]
      BY <1>2, <2>1, <2>2 DEF PartOf
    <2>5. w = z
      BY <2>3, <2>4, SameText
    <2> QED
      BY <2>1, <2>5
  <1>7. SubSeq(s, 3, 3) = <<c>>
    <2>1. PICK w, z : w = SubSeq(s, 3, 3) /\ z = <<c>>
      OBVIOUS
    <2>2. PartOf(w, s, 3, 3)
      BY <1>3, <2>1, PartText, Zenon
    <2>3. Text(z, 1)
      BY <2>1 DEF Text
    <2>4. Text(w, 1) /\ \A i \in 1 .. 1 : w[i] = z[i]
      BY <1>2, <2>1, <2>2 DEF PartOf
    <2>5. w = z
      BY <2>3, <2>4, SameText
    <2> QED
      BY <2>1, <2>5
  <1> QED
    BY <1>1, <1>4, <1>5, <1>6, <1>7

CutPrefix(pfx) ==
    LET spaces == {i \in 1 .. 3 : pfx[i] = Space}
        start  == IF spaces = {} THEN 1 ELSE Max(spaces) + 1
    IN SubSeq(pfx, start, 3)

LEMMA CutIs ==
    ASSUME NEW a \in 0 .. 36, NEW b \in 0 .. 36, NEW c \in 0 .. 36
    PROVE  CutPrefix(<<a, b, c>>) = Head3(a, b, c)
  <1>1. PICK p : p = <<a, b, c>>
    OBVIOUS
  <1>2. PICK spaces : spaces = {i \in 1 .. 3 : p[i] = Space}
    OBVIOUS
  <1>0. \A i : i \in spaces <=> \/ i = 1 /\ a = Space
                                \/ i = 2 /\ b = Space
                                \/ i = 3 /\ c = Space
    BY <1>1, <1>2
  <1>3. PICK start : start = IF spaces = {} THEN 1 ELSE Max(spaces) + 1
    OBVIOUS
  <1>4. CutPrefix(p) = SubSeq(p, start, 3) /\ CutPrefix(p) = CutPrefix(<<a, b, c>>)
    BY <1>1, <1>2, <1>3, Zenon DEF CutPrefix
  <1>5. CASE c = Space
    <2>1. /\ 3 \in spaces
          /\ \A z \in spaces : z \in 1 .. 3
      BY <1>0, <1>5
    <2>2. Max(spaces) = 3
      <3>1. \A y \in spaces : (\A z \in spaces : y >= z) => y = 3
        BY <2>1
      <3>2. \A z \in spaces : 3 >= z
        BY <2>1
      <3> QED
        BY <2>1, <3>1, <3>2 DEF Max
    <2>3. start = 4
      BY <1>3, <2>1, <2>2
    <2>4. Head3(a, b, c) = << >>
      BY <1>5 DEF Head3
    <2>5. SubSeq(p, 4, 3) = << >>
      BY <1>1, CutHead
    <2> QED
      BY <1>4, <2>3, <2>4, <2>5, Zenon
  <1>6. CASE c # Space /\ b = Space
    <2>1. /\ 2 \in spaces
          /\ \A z \in spaces : z \in 1 .. 2
      BY <1>0, <1>6
    <2>2. Max(spaces) = 2
      <3>1. \A y \in spaces : (\A z \in spaces : y >= z) => y = 2
        BY <2>1
      <3>2. \A z \in spaces : 2 >= z
        BY <2>1
      <3> QED
        BY <2>1, <3>1, <3>2 DEF Max
    <2>3. start = 3
      BY <1>3, <2>1, <2>2
    <2>4. Head3(a, b, c) = <<c>>
      BY <1>6 DEF Head3
    <2>5. SubSeq(p, 3, 3) = <<c>>
      BY <1>1, CutHead
    <2> QED
      BY <1>4, <2>3, <2>4, <2>5, Zenon
  <1>7. CASE c # Space /\ b # Space /\ a = Space
    <2>1. /\ 1 \in spaces
          /\ \A z \in spaces : z \in 1 .. 1
      BY <1>0, <1>7
    <2>2. Max(spaces) = 1
      <3>1. \A y \in spaces : (\A z \in spaces : y >= z) => y = 1
        BY <2>1
      <3>2. \A z \in spaces : 1 >= z
        BY <2>1
      <3> QED
        BY <2>1, <3>1, <3>2 DEF Max
    <2>3. start = 2
      BY <1>3, <2>1, <2>2
    <2>4. Head3(a, b, c) = <<b, c>>
      BY <1>7 DEF Head3
    <2>5. SubSeq(p, 2, 3) = <<b, c>>
      BY <1>1, CutHead
    <2> QED
      BY <1>4, <2>3, <2>4, <2>5, Zenon
  <1>8. CASE c # Space /\ b # Space /\ a # Space
    <2>1. spaces = {}
      BY <1>0, <1>8
    <2>3. start = 1
      BY <1>3, <2>1
    <2>4. Head3(a, b, c) = <<a, b, c>>
      BY <1>8 DEF Head3
    <2>5. SubSeq(p, 1, 3) = <<a, b, c>>
      BY <1>1, CutHead
    <2> QED
      BY <1>4, <2>3, <2>4, <2>5, Zenon
  <1> QED
    BY <1>5, <1>6, <1>7, <1>8

Digits3(v, a, b, c) == (v \div (37 * 37)) % 37 = a /\ (v \div 37) % 37 = b /\ v % 37 = c

Prefixed(v, x, a, b, c) == unpackpfx(v, x) = Head3(a, b, c) \o <<SlashChar>> \o x

LEMMA PrefixedIs ==
    ASSUME NEW v, v < PrefixValues, NEW x, NEW a \in 0 .. 36, NEW b \in 0 .. 36,
           NEW c \in 0 .. 36, Digits3(v, a, b, c)
    PROVE  Prefixed(v, x, a, b, c)
  <1>1. unpackpfx(v, x)
          = CutPrefix(<<(v \div (37 * 37)) % 37, (v \div 37) % 37, v % 37>>) \o <<SlashChar>> \o x
    BY Zenon DEF unpackpfx, CutPrefix
  <1>2. <<(v \div (37 * 37)) % 37, (v \div 37) % 37, v % 37>> = <<a, b, c>>
    BY Zenon DEF Digits3
  <1>3. CutPrefix(<<a, b, c>>) = Head3(a, b, c)
    <2>1. \A d \in 0 .. 36, e \in 0 .. 36, f \in 0 .. 36 : CutPrefix(<<d, e, f>>) = Head3(d, e, f)
      BY CutIs
    <2>2. a \in 0 .. 36 /\ b \in 0 .. 36 /\ c \in 0 .. 36
      OBVIOUS
    <2> HIDE <2>2
    <2> QED
      BY <2>1, <2>2, Zenon
  <1> QED
    BY <1>1, <1>2, <1>3, Zenon DEF Prefixed

(***************************************************************************)
(* The three digits of a prefix's value, and what is beyond them.          *)
(***************************************************************************)
Value3(q, a, b, c) == ((q * 37 + a) * 37 + b) * 37 + c

LEMMA PrefixDigits ==
    ASSUME NEW q \in Nat, NEW a \in 0 .. 36, NEW b \in 0 .. 36, NEW c \in 0 .. 36,
           NEW v, v = Value3(q, a, b, c)
    PROVE  v \in Nat /\ Digits3(v, a, b, c)
  <1>1. v \in Nat
    BY DEF Value3
  <1>2. v % 37 = c /\ v \div 37 = (q * 37 + a) * 37 + b
    BY DEF Value3
  <1>3. (v \div 37) % 37 = b
    BY <1>2
  <1>4. v \div (37 * 37) = q * 37 + a
    BY DEF Value3
  <1>5. (v \div (37 * 37)) % 37 = a
    BY <1>4
  <1> QED
    BY <1>1, <1>2, <1>3, <1>5 DEF Digits3

LEMMA PrefixNumber ==
    ASSUME NEW v \in Nat
    PROVE  \E q \in Nat, a, b, c \in 0 .. 36 : v = Value3(q, a, b, c)
  <1>1. PICK q1 \in Nat, c \in 0 .. 36 : v = 37 * q1 + c
    BY Divided, Zenon
  <1>2. PICK q2 \in Nat, b \in 0 .. 36 : q1 = 37 * q2 + b
    BY Divided, Zenon
  <1>3. PICK q3 \in Nat, a \in 0 .. 36 : q2 = 37 * q3 + a
    BY Divided, Zenon
  <1>4. v = Value3(q3, a, b, c)
    BY <1>1, <1>2, <1>3 DEF Value3
  <1> QED
    BY <1>4, Zenon

LEMMA HeadText ==
    ASSUME NEW a \in 0 .. 36, NEW b \in 0 .. 36, NEW c \in 0 .. 36
    PROVE  \E k \in 0 .. 3 :
              /\ Text(Head3(a, b, c), k)
              /\ \A i \in 1 .. k : Head3(a, b, c)[i] \in 0 .. 35
              /\ k = 0 <=> c = Space
              /\ c # Space => PrefixCode(Head3(a, b, c), k)
                                = Value3(0, IF b = Space THEN Space ELSE a, b, c)
  <1> DEFINE h == Head3(a, b, c)
  <1>1. CASE c = Space
    <2>1. h = << >>
      BY <1>1 DEF Head3
    <2> QED
      BY <1>1, <2>1, EmptyText
  <1>2. CASE c # Space /\ b = Space
    <2>1. h = <<c>>
      BY <1>2 DEF Head3
    <2>2. PICK tx : tx = <<c>>
      OBVIOUS
    <2>3. Text(tx, 1) /\ tx[1] = c /\ c \in 0 .. 35 /\ 36 = Space
      BY <1>2, <2>2 DEF Text, Space
    <2>4. At(tx, 1) = c /\ At(tx, 0) = NUL /\ At(tx, -1) = NUL
      BY <2>3, TextAt
    <2>5. CodeOf(At(tx, 1)) = c /\ CodeOf(At(tx, 0)) = Space /\ CodeOf(At(tx, -1)) = Space
      BY <2>3, <2>4 DEF CodeOf, NUL, Space
    <2>6. PrefixCode(tx, 1) = Value3(0, Space, b, c)
      <3>1. PrefixCode(tx, 1) = (CodeOf(At(tx, -1)) * 37 + CodeOf(At(tx, 0))) * 37 + CodeOf(At(tx, 1))
        BY DEF PrefixCode
      <3> QED
        BY <1>2, <2>5, <3>1 DEF Value3, Space
    <2> QED
      BY <1>2, <2>1, <2>2, <2>3, <2>6
  <1>3. CASE c # Space /\ b # Space /\ a = Space
    <2>1. h = <<b, c>>
      BY <1>3 DEF Head3
    <2>2. PICK tx : tx = <<b, c>>
      OBVIOUS
    <2>3. Text(tx, 2) /\ tx[1] = b /\ tx[2] = c /\ b \in 0 .. 35 /\ c \in 0 .. 35
      BY <1>3, <2>2 DEF Text, Space
    <2>4. At(tx, 2) = c /\ At(tx, 1) = b /\ At(tx, 0) = NUL
      BY <2>3, TextAt
    <2>5. CodeOf(At(tx, 2)) = c /\ CodeOf(At(tx, 1)) = b /\ CodeOf(At(tx, 0)) = Space
      BY <2>3, <2>4 DEF CodeOf, NUL, Space
    <2>6. PrefixCode(tx, 2) = Value3(0, a, b, c)
      <3>1. PrefixCode(tx, 2) = (CodeOf(At(tx, 0)) * 37 + CodeOf(At(tx, 1))) * 37 + CodeOf(At(tx, 2))
        BY DEF PrefixCode
      <3> QED
        BY <1>3, <2>5, <3>1 DEF Value3, Space
    <2> QED
      BY <1>3, <2>1, <2>2, <2>3, <2>6
  <1>4. CASE c # Space /\ b # Space /\ a # Space
    <2>1. h = <<a, b, c>>
      BY <1>4 DEF Head3
    <2>2. PICK tx : tx = <<a, b, c>>
      OBVIOUS
    <2>3. /\ Text(tx, 3) /\ tx[1] = a /\ tx[2] = b /\ tx[3] = c
          /\ a \in 0 .. 35 /\ b \in 0 .. 35 /\ c \in 0 .. 35
      BY <1>4, <2>2 DEF Text, Space
    <2>4. At(tx, 3) = c /\ At(tx, 2) = b /\ At(tx, 1) = a
      BY <2>3, TextAt
    <2>5. CodeOf(At(tx, 3)) = c /\ CodeOf(At(tx, 2)) = b /\ CodeOf(At(tx, 1)) = a
      BY <2>3, <2>4 DEF CodeOf, NUL, Space
    <2>6. PrefixCode(tx, 3) = Value3(0, a, b, c)
      <3>1. PrefixCode(tx, 3) = (CodeOf(At(tx, 1)) * 37 + CodeOf(At(tx, 2))) * 37 + CodeOf(At(tx, 3))
        BY DEF PrefixCode
      <3> QED
        BY <2>5, <3>1 DEF Value3
    <2> QED
      BY <1>4, <2>1, <2>2, <2>3, <2>6
  <1> QED
    BY <1>1, <1>2, <1>3, <1>4

(***************************************************************************)
(* A slash between two texts.                                              *)
(***************************************************************************)
LEMMA SlashBetween ==
    ASSUME NEW h, NEW k \in Nat, NEW r, NEW l \in Nat, Text(h, k), Text(r, l),
           \A i \in 1 .. k : h[i] \in 0 .. 35, \A i \in 1 .. l : r[i] \in 0 .. 35
    PROVE  Slashed(h \o <<SlashChar>> \o r, h, k, r, l)
  <1>1. PICK s : s = <<SlashChar>>
    OBVIOUS
  <1>2. Text(s, 1) /\ s[1] = SlashChar
    BY <1>1 DEF Text, SlashChar
  <1>3. Joined(h \o s, h, k, s, 1)
    BY <1>2, JoinText
  <1>4. PICK w : w = h \o s
    OBVIOUS
  <1>5. Text(w, k + 1) /\ (\A i \in 1 .. k : w[i] = h[i]) /\ w[k + 1] = SlashChar
    <2>1. Joined(w, h, k, s, 1)
      BY <1>3, <1>4, Zenon
    <2> QED
      BY <1>2, <2>1 DEF Joined
  <1>6. Joined(w \o r, w, k + 1, r, l)
    BY <1>5, JoinText
  <1>7. PICK z : z = w \o r
    OBVIOUS
  <1>8. /\ Text(z, k + 1 + l) /\ \A i \in 1 .. k + 1 : z[i] = w[i]
        /\ \A i \in 1 .. l : z[k + 1 + i] = r[i]
    BY <1>6, <1>7 DEF Joined
  <1>9. \A i \in 1 .. k : z[i] = h[i] /\ h[i] \in 0 .. 35
    BY <1>5, <1>8
  <1>10. z[k + 1] = SlashChar
    BY <1>5, <1>8
  <1>11. Slashed(z, h, k, r, l)
    BY <1>8, <1>9, <1>10 DEF Slashed
  <1> QED
    BY <1>1, <1>4, <1>7, <1>11

LEMMA SlashBefore ==
    ASSUME NEW h, NEW k \in Nat, Text(h, k), \A i \in 1 .. k : h[i] \in 0 .. 35,
           NEW d \in 0 .. 35, NEW e \in 0 .. 35
    PROVE  /\ Slashed(h \o <<SlashChar, d>>, h, k, <<d>>, 1)
           /\ Slashed(h \o <<SlashChar, d, e>>, h, k, <<d, e>>, 2)
  <1>1. Slashed(h \o <<SlashChar, d>>, h, k, <<d>>, 1)
    <2>1. PICK s, r : s = <<SlashChar, d>> /\ r = <<d>>
      OBVIOUS
    <2>2. Text(s, 2) /\ s[1] = SlashChar /\ s[2] = d /\ Text(r, 1) /\ r[1] = d
      BY <2>1 DEF Text, SlashChar
    <2>3. Joined(h \o s, h, k, s, 2)
      BY <2>2, JoinText
    <2>4. PICK z : z = h \o s
      OBVIOUS
    <2>5. Text(z, k + 2) /\ (\A i \in 1 .. k : z[i] = h[i]) /\ z[k + 1] = SlashChar /\ z[k + 2] = d
      <3>1. Joined(z, h, k, s, 2)
        BY <2>3, <2>4, Zenon
      <3>2. \A i \in 1 .. 2 : z[k + i] = s[i]
        BY <3>1 DEF Joined
      <3>3. Text(z, k + 2) /\ (\A i \in 1 .. k : z[i] = h[i])
        BY <3>1 DEF Joined
      <3>4. z[k + 1] = s[1] /\ z[k + 2] = s[2]
        BY <3>2
      <3> QED
        BY <2>2, <3>3, <3>4
    <2>6. Slashed(z, h, k, r, 1)
      BY <2>2, <2>5 DEF Slashed
    <2> QED
      BY <2>1, <2>4, <2>6
  <1>2. Slashed(h \o <<SlashChar, d, e>>, h, k, <<d, e>>, 2)
    <2>1. PICK s, r : s = <<SlashChar, d, e>> /\ r = <<d, e>>
      OBVIOUS
    <2>2. /\ Text(s, 3) /\ s[1] = SlashChar /\ s[2] = d /\ s[3] = e
          /\ Text(r, 2) /\ r[1] = d /\ r[2] = e
      BY <2>1 DEF Text, SlashChar
    <2>3. Joined(h \o s, h, k, s, 3)
      BY <2>2, JoinText
    <2>4. PICK z : z = h \o s
      OBVIOUS
    <2>5. /\ Text(z, k + 3) /\ (\A i \in 1 .. k : z[i] = h[i])
          /\ z[k + 1] = SlashChar /\ z[k + 2] = d /\ z[k + 3] = e
      <3>1. Joined(z, h, k, s, 3)
        BY <2>3, <2>4, Zenon
      <3>2. \A i \in 1 .. 3 : z[k + i] = s[i]
        BY <3>1 DEF Joined
      <3>3. Text(z, k + 3) /\ (\A i \in 1 .. k : z[i] = h[i])
        BY <3>1 DEF Joined
      <3>4. z[k + 1] = s[1] /\ z[k + 2] = s[2] /\ z[k + 3] = s[3]
        BY <3>2
      <3> QED
        BY <2>2, <3>3, <3>4
    <2>6. Slashed(z, h, k, r, 2)
      BY <2>2, <2>5 DEF Slashed
    <2> QED
      BY <2>1, <2>4, <2>6
  <1> QED
    BY <1>1, <1>2

LEMMA CallText ==
    ASSUME NEW x, NEW n \in 2 .. 6, CallOf(x, n)
    PROVE  n \in Nat /\ Text(x, n) /\ \A i \in 1 .. n : x[i] \in 0 .. 35
  BY DEF CallOf, Text

(***************************************************************************)
(* The text of a prefix with these digits, k characters of them, in front  *)
(* of a callsign; filled up again it has a value without a gap.            *)
(***************************************************************************)
PrefixText(v, x, n, q, a, b, c, k) ==
    /\ v = Value3(q, a, b, c)
    /\ Slashed(unpackpfx(v, x), Head3(a, b, c), k, x, n)
    /\ k = 0 <=> c = Space
    /\ c # Space => PrefixCode(Head3(a, b, c), k)
                      = Value3(0, IF b = Space THEN Space ELSE a, b, c)

LEMMA PrefixedText ==
    ASSUME NEW v \in Nat, v < PrefixValues, NEW x, NEW n \in 2 .. 6, CallOf(x, n)
    PROVE  \E q \in Nat, a, b, c \in 0 .. 36, k \in 0 .. 3 :
              PrefixText(v, x, n, q, a, b, c, k)
  <1>1. PICK q \in Nat, a, b, c \in 0 .. 36 : v = Value3(q, a, b, c)
    BY PrefixNumber, Zenon
  <1>2. Digits3(v, a, b, c)
    BY <1>1, PrefixDigits, Zenon
  <1>3. unpackpfx(v, x) = Head3(a, b, c) \o <<SlashChar>> \o x
    <2>1. Prefixed(v, x, a, b, c)
      BY <1>2, PrefixedIs, Zenon
    <2> QED
      BY <2>1, Zenon DEF Prefixed
  <1>4. PICK k \in 0 .. 3 :
           /\ Text(Head3(a, b, c), k)
           /\ \A i \in 1 .. k : Head3(a, b, c)[i] \in 0 .. 35
           /\ k = 0 <=> c = Space
           /\ c # Space => PrefixCode(Head3(a, b, c), k)
                             = Value3(0, IF b = Space THEN Space ELSE a, b, c)
    BY HeadText, Zenon
  <1>5. k \in Nat
    BY <1>4
  <1>6. n \in Nat /\ Text(x, n) /\ \A i \in 1 .. n : x[i] \in 0 .. 35
    BY CallText
  <1>7. Slashed(unpackpfx(v, x), Head3(a, b, c), k, x, n)
    BY <1>3, <1>4, <1>5, <1>6, SlashBetween, Zenon
  <1> QED
    BY <1>1, <1>4, <1>7, Zenon DEF PrefixText

(***************************************************************************)
(* The value of a suffix of l characters.                                  *)
(***************************************************************************)
SuffixCode(r, l) ==
    PrefixValues + (IF l = 1 THEN CodeOf(r[1]) ELSE 26 + 10 * FromZero(r[1]) + FromZero(r[2]))

SuffixText(v, x, n, r, l) ==
    /\ Slashed(unpackpfx(v, x), x, n, r, l)
    /\ v = SuffixCode(r, l) /\ v - PrefixValues <= 125
    /\ l = 2 => r[1] \in 1 .. 9 /\ r[2] \in 0 .. 9

LEMMA SuffixedText ==
    ASSUME NEW v \in Nat, v >= PrefixValues, NEW x, NEW n \in 2 .. 6, CallOf(x, n),
           unpackpfx(v, x) # << >>
    PROVE  \E l \in 1 .. 2 : \E r : SuffixText(v, x, n, r, l)
  <1>1. n \in Nat /\ Text(x, n) /\ \A i \in 1 .. n : x[i] \in 0 .. 35
    BY CallText
  <1>2. PICK nc \in Nat : nc = v - PrefixValues /\ v = PrefixValues + nc
    BY PrefixLimits
  <1>3. ~(v < PrefixValues)
    BY PrefixLimits
  <1>4. CASE nc <= 35
    <2>0. nc \in Nat
      OBVIOUS
    <2>1. nc \in 0 .. 35 /\ nc \in 0 .. 125
      BY <1>4, <2>0
    <2>2. unpackpfx(v, x) = x \o <<SlashChar, nc>>
      BY <1>2, <1>3, <1>4, Zenon DEF unpackpfx
    <2>3. Slashed(unpackpfx(v, x), x, n, <<nc>>, 1)
      BY <1>1, <2>1, <2>2, SlashBefore, Zenon
    <2>4. CodeOf(nc) = nc
      BY <2>1 DEF CodeOf, NUL, Space
    <2>5. PICK r : r = <<nc>>
      OBVIOUS
    <2>6. v = SuffixCode(r, 1)
      BY <1>2, <2>4, <2>5 DEF SuffixCode
    <2>7. 1 \in 1 .. 2 /\ 1 # 2
      OBVIOUS
    <2>8. v - PrefixValues <= 125
      BY <1>2, <1>4
    <2> QED
      BY <2>3, <2>5, <2>6, <2>7, <2>8, Zenon DEF SuffixText
  <1>5. CASE ~(nc <= 35) /\ nc <= 125
    <2>1. PICK s \in 10 .. 99 : s = nc - 26
      BY <1>5
    <2>2. PICK d, e : d = s \div 10 /\ e = s % 10
      OBVIOUS
    <2>3. d \in 1 .. 9 /\ e \in 0 .. 9 /\ s = 10 * d + e
      BY <2>1, <2>2
    <2>4. unpackpfx(v, x) = x \o <<SlashChar, d, e>>
      <3>1. unpackpfx(v, x) = x \o <<SlashChar, (nc - 26) \div 10, (nc - 26) % 10>>
        BY <1>2, <1>3, <1>5, Zenon DEF unpackpfx
      <3> QED
        BY <2>1, <2>2, <3>1, Zenon
    <2>5. d \in 0 .. 35 /\ e \in 0 .. 35
      BY <2>3
    <2>6. Slashed(unpackpfx(v, x), x, n, <<d, e>>, 2)
      BY <1>1, <2>4, <2>5, SlashBefore, Zenon
    <2>7. FromZero(d) = d /\ FromZero(e) = e
      BY <2>3 DEF FromZero, isalpha
    <2>8. PICK r : r = <<d, e>>
      OBVIOUS
    <2>9. r[1] = d /\ r[2] = e
      BY <2>8
    <2>10. SuffixCode(r, 2) = PrefixValues + (26 + 10 * d + e)
      BY <2>7, <2>9 DEF SuffixCode
    <2>11. v = SuffixCode(r, 2)
      BY <1>2, <2>1, <2>3, <2>10, PrefixLimits
    <2>12. 2 \in 1 .. 2
      OBVIOUS
    <2>13. v - PrefixValues <= 125
      BY <1>2, <1>5
    <2>14. r[1] \in 1 .. 9 /\ r[2] \in 0 .. 9
      BY <2>3, <2>9
    <2> QED
      BY <2>3, <2>6, <2>8, <2>14, <2>11, <2>12, <2>13, Zenon DEF SuffixText
  <1>6. CASE ~(nc <= 35) /\ ~(nc <= 125)
    BY <1>2, <1>3, <1>6, Zenon DEF unpackpfx
  <1> QED
    BY <1>4, <1>5, <1>6

LEMMA PowerParts ==
    ASSUME NEW tx \in 0 .. 62, ~PowerDigit(tx)
    PROVE  /\ Nadd(tx % 10) \in 1 .. 3
           /\ tx - Nadd(tx % 10) \in 0 .. 60
           /\ PowerDigit(tx - Nadd(tx % 10))
           /\ Rounded(tx - Nadd(tx % 10)) = tx - Nadd(tx % 10)
  <1>1. PICK u \in 0 .. 9, s \in 0 .. 6 : tx = 10 * s + u
    <2>1. tx \div 10 \in 0 .. 6 /\ tx % 10 \in 0 .. 9 /\ tx = 10 * (tx \div 10) + (tx % 10)
      OBVIOUS
    <2> QED
      BY <2>1
  <1>2. tx % 10 = u /\ u \notin {0, 3, 7}
    BY <1>1 DEF PowerDigit
  <1>3. \/ u \in {1, 4, 8} /\ Nadd(u) = 1
        \/ u \in {2, 5, 9} /\ Nadd(u) = 2
        \/ u = 6 /\ Nadd(u) = 3
    BY <1>2 DEF Nadd
  <1>4. PICK p : p = tx - Nadd(u)
    OBVIOUS
  <1>5. p \in 0 .. 60 /\ p % 10 \in {0, 3, 7}
    BY <1>1, <1>3, <1>4
  <1>6. Rounded(p) = p
    BY <1>5, RoundedPower DEF PowerDigit
  <1> QED
    BY <1>2, <1>3, <1>4, <1>5, <1>6 DEF PowerDigit

-----------------------------------------------------------------------------
(* Prefixed and suffixed callsigns again *)

LineOf(v, x, p) == [call |-> unpackpfx(v, x), grid |-> << >>, power |-> p]

(***************************************************************************)
(* The line is generated with the prefix's value m, which unpacks to the   *)
(* same text as v and is v when the prefix has no gap.                     *)
(***************************************************************************)
PrefixAgain(v, x, p, m) ==
    /\ m \in Nat /\ m < PrefixValues
    /\ unpackpfx(m, x) = unpackpfx(v, x)
    /\ m = Carry => v = Carry
    /\ v < 37 * 37 * 37 /\ ((v \div 37) % 37 = 36 => v \div (37 * 37) = 36) => m = v
    /\ get_wspr_channel_symbols(LineOf(v, x, p)) =
          <<PackedPrefix(pack_call(x), m).n % Values28,
            Low22(PackedPrefix(pack_call(x), m).m, p, PackedPrefix(pack_call(x), m).nadd)>>

(***************************************************************************)
(* The line of a prefix and a callsign of two characters is generated as   *)
(* that of a callsign and a suffix.                                        *)
(***************************************************************************)
SuffixAgain(v, x, p, h, k) ==
    /\ Slashed(unpackpfx(v, x), h, k, x, 2)
    /\ get_wspr_channel_symbols(LineOf(v, x, p)) =
          <<pack_call(h) % Values28, Low22(SuffixCode(x, 2), p, 1)>>

LEMMA SlashedAgain ==
    ASSUME NEW v, NEW x, NEW h, NEW k \in Nat, NEW r, NEW l \in Nat, l >= 1,
           Slashed(unpackpfx(v, x), h, k, r, l), NEW p, Rounded(p) = p
    PROVE  Generates(LineOf(v, x, p), k, Parts(h, k, r, l), p)
  <1>1. Generates([call |-> unpackpfx(v, x), grid |-> << >>, power |-> p],
                  k, Parts(h, k, r, l), Rounded(p))
    BY GeneratedSlashed, Zenon
  <1> QED
    BY <1>1, Zenon DEF LineOf

Gapless(v, m) ==
    /\ m \in Nat /\ m < PrefixValues
    /\ m = Carry => v = Carry
    /\ v < 37 * 37 * 37 /\ ((v \div 37) % 37 = 36 => v \div (37 * 37) = 36) => m = v

LEMMA CanonicalValue ==
    ASSUME NEW q \in Nat, NEW a \in 0 .. 36, NEW b \in 0 .. 36, NEW c \in 0 .. 36,
           NEW v \in Nat, v = Value3(q, a, b, c), v < PrefixValues, c # Space,
           NEW m, m = Value3(0, IF b = Space THEN Space ELSE a, b, c)
    PROVE  Gapless(v, m)
  <1>1. PICK d \in 0 .. 36 : d = IF b = Space THEN Space ELSE a
    BY DEF Space
  <1>2. m \in Nat /\ m < PrefixValues
    BY <1>1, PrefixLimits DEF Value3
  <1>3. m = Carry => v = Carry
    <2> HAVE m = Carry
    <2>1. Value3(0, d, b, c) = Value3(0, 23, 34, 23)
      BY <1>1, PrefixLimits DEF Value3
    <2>2. d = 23 /\ b = 34 /\ c = 23
      BY <2>1 DEF Value3
    <2>3. a = 23
      BY <1>1, <2>2 DEF Space
    <2>4. q = 0
      <3>1. q >= 1 => v >= PrefixValues
        BY <2>2, <2>3, PrefixLimits DEF Value3
      <3> QED
        BY <3>1, PrefixLimits
    <2> QED
      BY <2>2, <2>3, <2>4, <1>1, <2>1
  <1>4. ASSUME v < 37 * 37 * 37, (v \div 37) % 37 = 36 => v \div (37 * 37) = 36
        PROVE  m = v
    <2>1. q = 0
      BY <1>4 DEF Value3
    <2>2. (v \div 37) % 37 = b /\ v \div (37 * 37) = a
      BY <2>1 DEF Value3
    <2>3. d = a
      BY <1>1, <1>4, <2>2 DEF Space
    <2> QED
      BY <1>1, <2>1, <2>3
  <1> QED
    BY <1>2, <1>3, <1>4 DEF Gapless

LEMMA PrefixedAgain ==
    ASSUME NEW v \in Nat, v < PrefixValues, NEW x, NEW n \in 2 .. 6, CallOf(x, n),
           NEW p, Rounded(p) = p
    PROVE  \/ v % 37 = 36 /\ get_wspr_channel_symbols(LineOf(v, x, p)) = << >>
           \/ n >= 3 /\ \E m : PrefixAgain(v, x, p, m)
           \/ n = 2 /\ \E k \in 1 .. 3 : \E h : SuffixAgain(v, x, p, h, k)
  <1>1. PICK q \in Nat, a, b, c \in 0 .. 36, k \in 0 .. 3 : PrefixText(v, x, n, q, a, b, c, k)
    BY PrefixedText, Zenon
  <1>8. /\ v = Value3(q, a, b, c)
        /\ Slashed(unpackpfx(v, x), Head3(a, b, c), k, x, n)
        /\ k = 0 <=> c = Space
        /\ c # Space => PrefixCode(Head3(a, b, c), k)
                          = Value3(0, IF b = Space THEN Space ELSE a, b, c)
    BY <1>1, Zenon DEF PrefixText
  <1>2. PICK h, P : h = Head3(a, b, c) /\ P = Parts(h, k, x, n)
    OBVIOUS
  <1>3. Generates(LineOf(v, x, p), k, P, p)
    <2>1. n \in Nat /\ n >= 1 /\ k \in Nat
      OBVIOUS
    <2>2. Slashed(unpackpfx(v, x), h, k, x, n)
      BY <1>8, <1>2, Zenon
    <2> QED
      BY <1>2, <2>1, <2>2, SlashedAgain, Zenon
  <1>4. CASE k = 0
    <2>1. v % 37 = 36
      <3>1. c = 36
        BY <1>8, <1>4 DEF Space
      <3> QED
        BY <1>8, <3>1 DEF Value3
    <2> QED
      BY <1>3, <1>4, <2>1 DEF Generates
  <1>5. CASE k # 0 /\ n >= 3
    <2>1. PICK m : m = Value3(0, IF b = Space THEN Space ELSE a, b, c)
      OBVIOUS
    <2>2. c # Space /\ PrefixCode(h, k) = m
      BY <1>8, <1>2, <1>5, <2>1, Zenon
    <2>3. Gapless(v, m)
      BY <1>8, <2>1, <2>2, CanonicalValue, Zenon
    <2>4. unpackpfx(m, x) = unpackpfx(v, x)
      <3>1. PICK d \in 0 .. 36 : d = IF b = Space THEN Space ELSE a
        BY DEF Space
      <3>2. m = Value3(0, d, b, c) /\ 0 \in Nat
        BY <2>1, <3>1
      <3>3. Digits3(m, d, b, c) /\ Digits3(v, a, b, c)
        BY <1>8, <3>2, PrefixDigits, Zenon
      <3>4. Prefixed(m, x, d, b, c) /\ Prefixed(v, x, a, b, c)
        BY <2>3, <3>3, PrefixedIs, Zenon DEF Gapless
      <3>5. Head3(d, b, c) = Head3(a, b, c)
        BY <3>1, Zenon DEF Head3
      <3> QED
        BY <3>4, <3>5, Zenon DEF Prefixed
    <2>5. n # 1 /\ n # 2
      BY <1>5
    <2>6. P = PackedPrefix(pack_call(x), m)
      BY <1>2, <2>2, <2>5, Zenon DEF Parts
    <2>7. get_wspr_channel_symbols(LineOf(v, x, p)) =
             <<PackedPrefix(pack_call(x), m).n % Values28,
               Low22(PackedPrefix(pack_call(x), m).m, p, PackedPrefix(pack_call(x), m).nadd)>>
      BY <1>3, <1>5, <2>6, Zenon DEF Generates
    <2>8. PrefixAgain(v, x, p, m)
      BY <2>3, <2>4, <2>7, Zenon DEF PrefixAgain, Gapless
    <2> QED
      BY <1>5, <2>8, Zenon
  <1>6. CASE k # 0 /\ n = 2
    <2>1. P = Packed(pack_call(h), SuffixCode(x, 2), 1)
      <3>1. P = Packed(pack_call(h), PrefixValues + 26 + 10 * FromZero(x[1]) + FromZero(x[2]), 1)
        BY <1>2, <1>6 DEF Parts
      <3>2. x[1] \in 0 .. 35 /\ x[2] \in 0 .. 35
        BY <1>6 DEF CallOf
      <3>3. FromZero(x[1]) \in Nat /\ FromZero(x[2]) \in Nat
        BY <3>2 DEF FromZero, isalpha
      <3>4. SuffixCode(x, 2) = PrefixValues + (26 + 10 * FromZero(x[1]) + FromZero(x[2]))
        BY DEF SuffixCode
      <3>5. SuffixCode(x, 2) = PrefixValues + 26 + 10 * FromZero(x[1]) + FromZero(x[2])
        BY <3>3, <3>4, PrefixLimits
      <3> QED
        BY <3>1, <3>5, Zenon
    <2>2. P.n = pack_call(h) /\ P.m = SuffixCode(x, 2) /\ P.nadd = 1
      BY <2>1 DEF Packed
    <2>3. Slashed(unpackpfx(v, x), h, k, x, 2)
      BY <1>8, <1>2, <1>6, Zenon
    <2>4. SuffixAgain(v, x, p, h, k)
      BY <1>3, <1>6, <2>2, <2>3, Zenon DEF SuffixAgain, Generates
    <2>5. k \in 1 .. 3
      BY <1>6
    <2> QED
      BY <1>6, <2>4, <2>5, Zenon
  <1>7. n = 2 \/ n >= 3
    OBVIOUS
  <1> QED
    BY <1>4, <1>5, <1>6, <1>7, Zenon

LEMMA LowIs ==
    ASSUME NEW m \in Nat, m < Carry, NEW p \in 0 .. 60, NEW nadd \in 0 .. 1
    PROVE  /\ Low22(m, p, nadd) = Sum22(m, p, nadd)
           /\ Low22(m + Carry, p, nadd) = Low22(m, p, nadd)
  <1>1. PICK z : z = Sum22(m, p, nadd)
    OBVIOUS
  <1>2. z \in Nat /\ z < Values22
    BY <1>1, Cut22, PrefixLimits DEF Sum22
  <1>3. Sum22(m + Carry, p, nadd) = z + Values22
    BY <1>1, Cut22, PrefixLimits DEF Sum22
  <1>4. z % Values22 = z
    BY <1>2, Cut22
  <1>5. (z + Values22) % Values22 = z
    BY <1>2, Cut22
  <1> QED
    BY <1>1, <1>3, <1>4, <1>5, Zenon DEF Low22

LEMMA LowSent ==
    ASSUME NEW m \in Nat, m < Carry, NEW p \in 0 .. 60
    PROVE  Low22(m, p, 0) = Sum22(m, p, 0) /\ Low22(m, p, 1) = Sum22(m, p, 1)
  <1>1. 0 \in 0 .. 1 /\ 1 \in 0 .. 1
    OBVIOUS
  <1> QED
    BY <1>1, LowIs, Zenon

LEMMA LowCarried ==
    ASSUME NEW m \in Nat, m < Carry, NEW p \in 0 .. 60
    PROVE  Low22(m + Carry, p, 1) = Low22(m, p, 1)
  <1>1. 1 \in 0 .. 1
    OBVIOUS
  <1> QED
    BY <1>1, LowIs

(***************************************************************************)
(* Codes are numbers.                                                      *)
(***************************************************************************)
LEMMA CodeIs ==
    /\ \A ch \in 0 .. 35 : CodeOf(ch) = ch /\ FromZero(ch) \in Nat
    /\ \A ch \in 0 .. 9 : FromZero(ch) = ch
    /\ CodeOf(Space) = Space /\ CodeOf(NUL) = Space
  BY DEF CodeOf, NUL, Space, FromZero, isalpha

LEMMA SuffixedAgain ==
    ASSUME NEW v \in Nat, v >= PrefixValues, NEW x, NEW n \in 2 .. 6, CallOf(x, n),
           unpackpfx(v, x) # << >>, NEW p \in 0 .. 60, Rounded(p) = p
    PROVE  /\ v - PrefixValues <= 125
           /\ get_wspr_channel_symbols(LineOf(v, x, p)) =
                 <<pack_call(x) % Values28, Low22(v - Carry, p, 1)>>
  <1>1. PICK l \in 1 .. 2 : \E r : SuffixText(v, x, n, r, l)
    BY SuffixedText, Zenon
  <1>2. PICK r : SuffixText(v, x, n, r, l)
    BY <1>1
  <1>3. PICK P : P = Parts(x, n, r, l)
    OBVIOUS
  <1>4. n \in Nat /\ n # 0 /\ l \in Nat /\ l >= 1
    OBVIOUS
  <1>5. Generates(LineOf(v, x, p), n, P, p)
    BY <1>2, <1>3, <1>4, SlashedAgain, Zenon DEF SuffixText
  <1>6. PICK w \in Nat : w = v - Carry /\ v = w + Carry
    BY PrefixLimits
  <1>7. w < Carry /\ v - PrefixValues <= 125
    <2>1. v - PrefixValues <= 125
      BY <1>2 DEF SuffixText
    <2> QED
      BY <1>6, <2>1, PrefixLimits
  <1>8. Low22(w, p, 1) = Low22(v, p, 1)
    <2>1. Low22(w + Carry, p, 1) = Low22(w, p, 1)
      BY <1>7, LowCarried
    <2> QED
      BY <1>6, <2>1, Zenon
  <1>9. CASE l = 1
    <2>1. v = PrefixValues + CodeOf(r[1]) /\ r[1] \in 0 .. 35
      BY <1>2, <1>9 DEF SuffixText, SuffixCode, Slashed
    <2>2. CodeOf(r[1]) \in Nat
      <3>1. CodeOf(r[1]) = r[1]
        BY <2>1, CodeIs, Zenon
      <3>2. \A d \in 0 .. 35 : d \in Nat
        OBVIOUS
      <3> QED
        BY <2>1, <3>1, <3>2, Zenon
    <2>3. PrefixValues - Carry + CodeOf(r[1]) = w
      BY <1>6, <2>1, <2>2, PrefixLimits
    <2>4. P = Packed(pack_call(x), w, 1)
      BY <1>3, <1>9, <2>3, Zenon DEF Parts
    <2>5. P.n = pack_call(x) /\ P.m = w /\ P.nadd = 1
      BY <2>4 DEF Packed
    <2> QED
      BY <1>4, <1>5, <1>6, <1>7, <2>5, Zenon DEF Generates
  <1>10. CASE l = 2
    <2>1. v = PrefixValues + (26 + 10 * FromZero(r[1]) + FromZero(r[2]))
          /\ r[1] \in 1 .. 9 /\ r[2] \in 0 .. 9
      BY <1>2, <1>10 DEF SuffixText, SuffixCode
    <2>2. FromZero(r[1]) \in Nat /\ FromZero(r[2]) \in Nat
      <3>1. r[1] \in 0 .. 35 /\ r[2] \in 0 .. 35
        BY <2>1
      <3> QED
        BY <3>1, CodeIs, Zenon
    <2>3. PrefixValues + 26 + 10 * FromZero(r[1]) + FromZero(r[2]) = v
      BY <2>1, <2>2, PrefixLimits
    <2>4. 2 # 1
      OBVIOUS
    <2>5. P = Packed(pack_call(x), v, 1)
      BY <1>3, <1>10, <2>3, <2>4, Zenon DEF Parts
    <2>6. P.n = pack_call(x) /\ P.m = v /\ P.nadd = 1
      BY <2>5 DEF Packed
    <2> QED
      BY <1>4, <1>5, <1>6, <1>7, <1>8, <2>6, Zenon DEF Generates
  <1>11. l = 1 \/ l = 2
    OBVIOUS
  <1> QED
    BY <1>9, <1>10, <1>11

-----------------------------------------------------------------------------
(* A payload from its printed line *)

(***************************************************************************)
(* What the six characters of a payload are.                               *)
(***************************************************************************)
LEMMA PayloadCall ==
    ASSUME NEW n1 \in Nat, n1 < CallValues
    PROVE  /\ \E n \in 2 .. 6 : CallOf(CString(unpackcall(n1)), n)
           /\ unpackcall(n1) # << >>
  <1>1. PICK m \in 2 .. 3 : CallBuffer(unpackcall(n1), m)
    BY UnpackedBuffer
  <1>2. PICK y : y = unpackcall(n1)
    OBVIOUS
  <1>3. CallBuffer(y, m)
    BY <1>1, <1>2
  <1>4. PICK n \in 2 .. 6 : CallOf(CString(y), n)
    BY <1>3, BufferCall
  <1>5. y # << >>
    BY <1>3 DEF CallBuffer
  <1> QED
    BY <1>2, <1>4, <1>5

LEMMA NoCallUnpacked ==
    ASSUME NEW n1, n1 >= CallValues
    PROVE  unpackcall(n1) = << >>
  BY DEF unpackcall

LEMMA NoGridUnpacked ==
    ASSUME NEW w \in Nat
    PROVE  /\ w \div 128 >= GridValues => unpackgrid(w) = << >>
           /\ w \div 128 < GridValues => unpackgrid(w) # << >>
  <1>1. GridValues \in Nat /\ w \div 128 \in Nat
    BY DEF GridValues
  <1>2. w \div 128 < GridValues => Len(unpackgrid(w)) = 4
    <2>1. PICK p \in Int : p = (w % 128) - 64
      OBVIOUS
    <2> QED
      BY <2>1, GridPacked, Zenon
  <1>3. w \div 128 < GridValues => unpackgrid(w) # << >>
    BY <1>2
  <1>4. w \div 128 >= GridValues => unpackgrid(w) = << >>
    BY Zenon DEF unpackgrid
  <1> QED
    BY <1>3, <1>4

(***************************************************************************)
(* unpk_ by the kinds of message.                                          *)
(***************************************************************************)
Kinds(u, n1, w, tab) ==
    \/ u = Unpacked(TRUE, Blank, tab)
    \/ /\ n1 < CallValues /\ w \div 128 < GridValues
       /\ \/ /\ Ntype(w) \in 0 .. 62 /\ PowerDigit(Ntype(w))
             /\ u = unpk_type1(CString(unpackcall(n1)), unpackgrid(w), Ntype(w), tab)
          \/ /\ Ntype(w) \in 0 .. 62 /\ ~PowerDigit(Ntype(w))
             /\ u = unpk_type2(CString(unpackcall(n1)), w, Ntype(w), tab)
          \/ Ntype(w) < 0 /\ u = unpk_type3(unpackcall(n1), w, Ntype(w), tab)
          \/ u = Unpacked(FALSE, Blank, tab)

LEMMA UnpkIs ==
    ASSUME NEW n1 \in Nat, NEW w \in Nat, NEW tab
    PROVE  Kinds(unpk_(n1, w, tab), n1, w, tab)
  <1>1. n1 < CallValues <=> ~(n1 >= CallValues)
    BY CallValuesNat
  <1>2. w \div 128 < GridValues <=> ~(w \div 128 >= GridValues)
    BY DEF GridValues
  <1>3. n1 >= CallValues => unpackcall(n1) = << >>
    BY NoCallUnpacked
  <1>4. w \div 128 >= GridValues => unpackgrid(w) = << >>
    BY NoGridUnpacked
  <1>5. n1 < CallValues => unpackcall(n1) # << >>
    BY PayloadCall
  <1>6. w \div 128 < GridValues => unpackgrid(w) # << >>
    BY NoGridUnpacked
  <1> QED
    BY <1>1, <1>2, <1>3, <1>4, <1>5, <1>6, Zenon DEF unpk_, Ntype, Kinds

LEMMA GridLimits ==
    /\ GridValues \in Nat /\ GridValues < Carry /\ Values22 = 128 * Carry
    /\ Carry \in Nat /\ PrefixValues - Carry >= 0 /\ PrefixValues - Carry + 500 < GridValues
  BY Cut22, PrefixLimits DEF GridValues

Power2(w) == Ntype(w) - Nadd(Ntype(w) % 10)

(***************************************************************************)
(* The parts of n2 in a message of type 2.                                 *)
(***************************************************************************)
LEMMA Parts2 ==
    ASSUME NEW w \in Nat, w \div 128 < GridValues, Ntype(w) \in 0 .. 62, ~PowerDigit(Ntype(w))
    PROVE  /\ Power2(w) \in 0 .. 60 /\ PowerDigit(Power2(w)) /\ Rounded(Power2(w)) = Power2(w)
           /\ Nprefix(w) \in Nat
           /\ \/ /\ Nprefix(w) < Carry /\ Nprefix(w) = w \div 128
                 /\ w = Sum22(Nprefix(w), Power2(w), 0)
              \/ /\ Nprefix(w) >= Carry /\ Nprefix(w) - Carry = w \div 128
                 /\ w = Sum22(Nprefix(w) - Carry, Power2(w), 1)
              \/ Nprefix(w) >= PrefixValues /\ Nprefix(w) - PrefixValues > 125
  <1>1. PICK tx : tx = Ntype(w)
    OBVIOUS
  <1>2. PICK nadd : nadd = Nadd(tx % 10)
    OBVIOUS
  <1>3. PICK p : p = tx - nadd
    OBVIOUS
  <1>4. tx \in 0 .. 62 /\ ~PowerDigit(tx)
    BY <1>1
  <1>5. nadd \in 1 .. 3 /\ p \in 0 .. 60 /\ PowerDigit(p) /\ Rounded(p) = p
    BY <1>2, <1>3, <1>4, PowerParts
  <1>6. PICK z \in Nat : z = w \div 128
    OBVIOUS
  <1>7. w = 128 * z + tx + 64
    BY <1>1, <1>6 DEF Ntype
  <1>8. PICK v : v = z + Carry * (nadd - 1)
    OBVIOUS
  <1>9. v = Nprefix(w) /\ p = Power2(w)
    BY <1>1, <1>2, <1>3, <1>6, <1>8, Zenon DEF Nprefix, Power2
  <1>10. z < GridValues
    BY <1>6
  <1>11. CASE nadd = 1
    <2>1. v = z /\ v < Carry
      BY <1>8, <1>10, <1>11, GridLimits
    <2>2. w = Sum22(v, p, 0)
      BY <1>3, <1>5, <1>7, <1>11, <2>1 DEF Sum22
    <2> QED
      BY <1>5, <1>6, <1>9, <2>1, <2>2
  <1>12. CASE nadd = 2
    <2>1. v = z + Carry /\ v \in Nat /\ v >= Carry /\ v - Carry = z
      BY <1>8, <1>12, GridLimits
    <2>2. w = Sum22(z, p, 1)
      BY <1>3, <1>5, <1>7, <1>12 DEF Sum22
    <2> QED
      BY <1>5, <1>6, <1>9, <2>1, <2>2
  <1>13. CASE nadd = 3
    <2>1. v = z + 2 * Carry /\ v \in Nat
      BY <1>8, <1>13, GridLimits
    <2>2. v >= PrefixValues /\ v - PrefixValues > 125
      BY <2>1, PrefixLimits
    <2> QED
      BY <1>5, <1>9, <2>1, <2>2
  <1> QED
    BY <1>5, <1>11, <1>12, <1>13

(***************************************************************************)
(* The numbers that a prefix or suffix of value v is sent with.            *)
(***************************************************************************)
LEMMA PackedValue ==
    ASSUME NEW n, NEW v \in Nat, v # Carry, v < PrefixValues
    PROVE  \/ /\ v < Carry /\ PackedPrefix(n, v).n = n
              /\ PackedPrefix(n, v).m = v /\ PackedPrefix(n, v).nadd = 0
           \/ /\ v > Carry /\ PackedPrefix(n, v).n = n
              /\ PackedPrefix(n, v).m = v - Carry /\ PackedPrefix(n, v).nadd = 1
  <1>1. v < Carry \/ v > Carry
    BY GridLimits
  <1>2. CASE v > Carry
    <2>1. PackedPrefix(n, v) = Packed(n, v - Carry, 1)
      BY <1>2 DEF PackedPrefix
    <2> QED
      BY <1>2, <2>1 DEF Packed
  <1>3. CASE v < Carry
    <2>1. ~(v > Carry)
      BY <1>3, GridLimits
    <2>2. PackedPrefix(n, v) = Packed(n, v, 0)
      BY <2>1 DEF PackedPrefix
    <2> QED
      BY <1>3, <2>2 DEF Packed
  <1> QED
    BY <1>1, <1>2, <1>3

SentAs(P, n, v, p) ==
    /\ P.n = n
    /\ v < Carry => Low22(P.m, p, P.nadd) = Sum22(v, p, 0)
    /\ v >= Carry => Low22(P.m, p, P.nadd) = Sum22(v - Carry, p, 1)

LEMMA LowOf ==
    ASSUME NEW v \in Nat, v # Carry, v < PrefixValues, NEW p \in 0 .. 60, NEW n
    PROVE  SentAs(PackedPrefix(n, v), n, v, p)
  <1>1. CASE v < Carry
    <2>1. PICK P : P = PackedPrefix(n, v)
      OBVIOUS
    <2>2. P.n = n /\ P.m = v /\ P.nadd = 0 /\ ~(v >= Carry)
      BY <1>1, <2>1, PackedValue, GridLimits
    <2>3. Low22(v, p, 0) = Sum22(v, p, 0)
      BY <1>1, LowSent, Zenon
    <2> QED
      BY <2>1, <2>2, <2>3, Zenon DEF SentAs
  <1>2. CASE v >= Carry
    <2>1. PICK P, z : P = PackedPrefix(n, v) /\ z = v - Carry
      OBVIOUS
    <2>2. P.n = n /\ P.m = z /\ P.nadd = 1 /\ ~(v < Carry) /\ z \in Nat /\ z < Carry
      BY <1>2, <2>1, PackedValue, GridLimits, PrefixLimits
    <2>3. Low22(z, p, 1) = Sum22(z, p, 1)
      BY <2>2, LowSent, Zenon
    <2> QED
      BY <2>1, <2>2, <2>3, Zenon DEF SentAs
  <1> QED
    BY <1>1, <1>2, GridLimits

(***************************************************************************)
(* A message of type 2 that is printed.                                    *)
(***************************************************************************)
LEMMA Unpacked2 ==
    ASSUME NEW w \in Nat, w \div 128 < GridValues, Ntype(w) \in 0 .. 62, ~PowerDigit(Ntype(w)),
           NEW x, NEW tab
    PROVE  unpk_type2(x, w, Ntype(w), tab) =
              IF unpackpfx(Nprefix(w), x) = << >> THEN Unpacked(TRUE, Blank, tab)
              ELSE Unpacked(FALSE, LineOf(Nprefix(w), x, Power2(w)),
                            Heard(tab, unpackpfx(Nprefix(w), x)))
  <1>1. PowerDigit(Power2(w))
    BY Parts2
  <1> QED
    BY <1>1, Zenon DEF unpk_type2, Nprefix, Power2, LineOf

LEMMA Shaped ==
    ASSUME NEW line, NEW tab
    PROVE  /\ Unpacked(TRUE, line, tab).noprint = TRUE
           /\ Unpacked(FALSE, line, tab).noprint = FALSE
           /\ Unpacked(TRUE, line, tab).line = line
           /\ Unpacked(FALSE, line, tab).line = line
           /\ Unpacked(TRUE, line, tab).hashtab = tab
           /\ Unpacked(FALSE, line, tab).hashtab = tab
  BY DEF Unpacked

LEMMA NothingPrinted ==
    ASSUME NEW u, NEW tab,
           u = Unpacked(TRUE, Blank, tab) \/ u = Unpacked(FALSE, Blank, tab)
    PROVE  u.noprint \/ u.line = Blank
  BY DEF Unpacked

Shape1(u, x, g, tx, tab) ==
    /\ u.line = [call |-> x, grid |-> g, power |-> tx]
    /\ u.hashtab = Heard(tab, x) /\ ~u.noprint

LEMMA Shaped1 ==
    ASSUME NEW x, NEW g, NEW tx, NEW tab
    PROVE  Shape1(unpk_type1(x, g, tx, tab), x, g, tx, tab)
  BY DEF unpk_type1, Unpacked, Shape1

LEMMA Positive == \A tx \in 0 .. 62 : tx >= 0
  OBVIOUS

Shape3(u, y, w, known, tab) ==
    /\ u.hashtab = tab
    /\ u.line = [call |-> IF known # << >> THEN Bracketed(known) ELSE Unresolved,
                 grid |-> <<y[6]>> \o CString(SubSeq(y, 1, 5)), power |-> -(Ntype(w) + 1)]
    /\ ~u.noprint => PowerDigit(-(Ntype(w) + 1)) /\ Ntype(w) # -64

LEMMA Shaped3 ==
    ASSUME NEW y, NEW w, NEW tab
    PROVE  Shape3(unpk_type3(y, w, Ntype(w), tab), y, w, tab[w \div 128], tab)
  BY DEF unpk_type3, Unpacked, Shape3

(***************************************************************************)
(* A line of type 1 is generated as the payload it came from.              *)
(***************************************************************************)
LEMMA Again1 ==
    ASSUME NEW w \in Nat, w < Values22, w \div 128 < GridValues, Ntype(w) \in 0 .. 62,
           NEW x, NEW n \in 2 .. 6, CallOf(x, n)
    PROVE  get_wspr_channel_symbols([call |-> x, grid |-> unpackgrid(w), power |-> Ntype(w)]) =
              IF n = 2 THEN << >> ELSE <<pack_call(x), w>>
  <1>1. PICK p \in Int : p = Ntype(w) /\ p = (w % 128) - 64
    BY DEF Ntype
  <1>2. pack_grid4_power(unpackgrid(w), Ntype(w)) = w
    BY <1>1, GridPacked, Zenon
  <1>3. w % Values22 = w
    BY Cut22
  <1>4. pack_call(x) % Values28 = pack_call(x)
    BY PackedCall, Cut28, Zenon
  <1> QED
    <2>1. PICK g, q : g = unpackgrid(w) /\ q = Ntype(w)
      OBVIOUS
    <2>2. get_wspr_channel_symbols([call |-> x, grid |-> g, power |-> q]) =
             IF n = 2 THEN << >>
             ELSE <<pack_call(x) % Values28, pack_grid4_power(g, q) % Values22>>
      BY GeneratedPlain
    <2>3. pack_grid4_power(g, q) = w
      BY <1>2, <2>1, Zenon
    <2> QED
      BY <1>3, <1>4, <2>1, <2>2, <2>3, Zenon

(***************************************************************************)
(* A line of type 2 whose prefix has no gap is, too.                       *)
(***************************************************************************)
LEMMA Again2 ==
    ASSUME NEW w \in Nat, w \div 128 < GridValues, Ntype(w) \in 0 .. 62, ~PowerDigit(Ntype(w)),
           NEW x, NEW n \in 2 .. 6, CallOf(x, n), n >= 3,
           unpackpfx(Nprefix(w), x) # << >>,
           Nprefix(w) < PrefixValues =>
              /\ Nprefix(w) # Carry /\ Nprefix(w) < 37 * 37 * 37 /\ Nprefix(w) % 37 # 36
              /\ (Nprefix(w) \div 37) % 37 = 36 => Nprefix(w) \div (37 * 37) = 36
    PROVE  get_wspr_channel_symbols(LineOf(Nprefix(w), x, Power2(w))) = <<pack_call(x), w>>
  <1>1. PICK v, p : v = Nprefix(w) /\ p = Power2(w)
    OBVIOUS
  <1>2. /\ p \in 0 .. 60 /\ Rounded(p) = p
        /\ v \in Nat
        /\ \/ v < Carry /\ w = Sum22(v, p, 0)
           \/ v >= Carry /\ w = Sum22(v - Carry, p, 1)
           \/ v >= PrefixValues /\ v - PrefixValues > 125
    BY <1>1, Parts2, Zenon
  <1>3. pack_call(x) % Values28 = pack_call(x)
    BY PackedCall, Cut28, Zenon
  <1>4. CASE v < PrefixValues
    <2>1. /\ v # Carry /\ v % 37 # 36
          /\ v < 37 * 37 * 37 /\ ((v \div 37) % 37 = 36 => v \div (37 * 37) = 36)
      BY <1>1, <1>4, Zenon
    <2>2. n # 2
      OBVIOUS
    <2>3. PICK m : PrefixAgain(v, x, p, m)
      BY <1>2, <1>4, <2>1, <2>2, PrefixedAgain, Zenon
    <2>4. m = v
      BY <2>1, <2>3, Zenon DEF PrefixAgain
    <2>5. get_wspr_channel_symbols(LineOf(v, x, p)) =
             <<PackedPrefix(pack_call(x), v).n % Values28,
               Low22(PackedPrefix(pack_call(x), v).m, p, PackedPrefix(pack_call(x), v).nadd)>>
      BY <2>3, <2>4, Zenon DEF PrefixAgain
    <2>6. PICK P : P = PackedPrefix(pack_call(x), v)
      OBVIOUS
    <2>7. /\ P.n = pack_call(x)
          /\ v < Carry => Low22(P.m, p, P.nadd) = Sum22(v, p, 0)
          /\ v >= Carry => Low22(P.m, p, P.nadd) = Sum22(v - Carry, p, 1)
      <3>1. SentAs(PackedPrefix(pack_call(x), v), pack_call(x), v, p)
        BY <1>2, <1>4, <2>1, LowOf, Zenon
      <3> QED
        BY <2>6, <3>1, Zenon DEF SentAs
    <2>8. ~(v >= PrefixValues)
      BY <1>2, <1>4, PrefixLimits
    <2>9. Low22(P.m, p, P.nadd) = w
      BY <1>2, <2>7, <2>8, Zenon
    <2> QED
      BY <1>1, <1>3, <2>5, <2>6, <2>7, <2>9, Zenon
  <1>5. CASE ~(v < PrefixValues)
    <2>1. v >= PrefixValues /\ v >= Carry /\ ~(v < Carry)
      BY <1>2, <1>5, PrefixLimits
    <2>2. /\ v - PrefixValues <= 125
          /\ get_wspr_channel_symbols(LineOf(v, x, p)) =
                <<pack_call(x) % Values28, Low22(v - Carry, p, 1)>>
      BY <1>1, <1>2, <2>1, SuffixedAgain, Zenon
    <2>3. PICK z \in Nat : z = v - Carry
      BY <1>2, <2>1, PrefixLimits
    <2>4. ~(v - PrefixValues > 125) /\ z < Carry
      BY <1>2, <2>2, <2>3, PrefixLimits
    <2>5. w = Sum22(z, p, 1)
      BY <1>2, <2>1, <2>3, <2>4, Zenon
    <2>6. Low22(z, p, 1) = Sum22(z, p, 1)
      BY <1>2, <2>4, LowSent, Zenon
    <2> QED
      BY <1>1, <1>3, <2>2, <2>3, <2>5, <2>6, Zenon
  <1> QED
    BY <1>4, <1>5, Zenon

(***************************************************************************)
(* The power of a message with a hash.                                     *)
(***************************************************************************)
LEMMA HashedPower ==
    ASSUME NEW w \in Nat, Ntype(w) < 0, Ntype(w) # -64, PowerDigit(-(Ntype(w) + 1))
    PROVE  /\ -(Ntype(w) + 1) \in 0 .. 60 /\ Rounded(-(Ntype(w) + 1)) = -(Ntype(w) + 1)
           /\ \A h \in Nat : h = w \div 128 => 128 * h - (-(Ntype(w) + 1) + 1) + 64 = w
  <1>1. PICK tx \in -64 .. -1 : tx = Ntype(w) /\ w = 128 * (w \div 128) + tx + 64
    BY DEF Ntype
  <1>2. PICK p : p = -(tx + 1)
    OBVIOUS
  <1>3. p \in 0 .. 62 /\ PowerDigit(p)
    BY <1>1, <1>2
  <1>4. p % 10 \in {0, 3, 7}
    BY <1>3 DEF PowerDigit
  <1>5. p \in 0 .. 60
    BY <1>3, <1>4
  <1>6. Rounded(p) = p
    BY <1>3, <1>5, RoundedPower
  <1>7. \A h \in Nat : h = w \div 128 => 128 * h - (p + 1) + 64 = w
    BY <1>1, <1>2
  <1> QED
    BY <1>1, <1>2, <1>5, <1>6, <1>7, Zenon

(***************************************************************************)
(* A line with a resolved hash and a whole locator is generated as the     *)
(* payload it came from, as the table holds a callsign under its hash.     *)
(***************************************************************************)
Whole(y, b1, b2, b3, b4, b5, b6) ==
    /\ y = <<b1, b2, b3, b4, b5, b6>> /\ CString(y) = y
    /\ <<y[6]>> \o CString(SubSeq(y, 1, 5)) = <<b6, b1, b2, b3, b4, b5>>

LEMMA WholeBuffer ==
    ASSUME NEW v \in Nat, v < CallValues, Len(CString(unpackcall(v))) = 6
    PROVE  \E b1, b2, b3, b4, b5, b6 \in Int :
              Whole(unpackcall(v), b1, b2, b3, b4, b5, b6)
  <1>1. PICK y : y = unpackcall(v)
    OBVIOUS
  <1>2. PICK m \in 2 .. 3 : CallBuffer(y, m)
    BY <1>1, UnpackedBuffer
  <1>3. PICK n \in 2 .. 6 : CallOf(CString(y), n) /\ \A i \in 1 .. n : CString(y)[i] = y[i]
    BY <1>2, BufferCall
  <1>4. n = 6
    BY <1>1, <1>3 DEF CallOf
  <1>5. PICK x : x = CString(y)
    OBVIOUS
  <1>6. Text(y, 6) /\ Text(x, 6) /\ \A i \in 1 .. 6 : x[i] = y[i] /\ x[i] \in 0 .. 35
    BY <1>2, <1>3, <1>4, <1>5 DEF CallBuffer, CallOf, Text
  <1>7. x = y
    BY <1>6, SameText
  <1>8. PICK z : z = SubSeq(y, 1, 5)
    OBVIOUS
  <1>9. PartOf(z, y, 1, 5)
    <2>1. 6 \in Nat /\ 5 \in 0 .. 6 /\ 1 \in 1 .. 5 + 1
      OBVIOUS
    <2> QED
      BY <1>6, <1>8, <2>1, PartText, Zenon
  <1>10. Text(z, 5) /\ \A i \in 1 .. 5 : z[i] = y[i] /\ z[i] \in 0 .. 35
    BY <1>6, <1>9 DEF PartOf
  <1>11. CString(z) = z
    <2>1. Len(z) = 5 /\ \A i \in 1 .. 5 : z[i] # Space
      <3>1. \A d \in 0 .. 35 : d # Space
        BY DEF Space
      <3>2. Len(z) = 5
        BY <1>10 DEF Text
      <3> QED
        BY <1>10, <3>1, <3>2, Zenon
    <2>2. {i \in 1 .. Len(z) : z[i] = Space} = {}
      BY <2>1
    <2> QED
      BY <2>2, Zenon DEF CString
  <1>12. PICK s : s = <<y[6]>>
    OBVIOUS
  <1>13. Text(s, 1) /\ s[1] = y[6]
    BY <1>6, <1>12 DEF Text
  <1>14. PICK u : u = s \o z
    OBVIOUS
  <1>15. Joined(u, s, 1, z, 5)
    <2>1. Joined(s \o z, s, 1, z, 5)
      BY <1>10, <1>13, JoinText
    <2> QED
      BY <1>14, <2>1, Zenon
  <1>16. Text(u, 6) /\ u[1] = y[6] /\ \A i \in 1 .. 5 : u[1 + i] = y[i]
    BY <1>10, <1>13, <1>15 DEF Joined
  <1>17. PICK b1 \in Int, b2 \in Int, b3 \in Int, b4 \in Int, b5 \in Int, b6 \in Int :
            b1 = y[1] /\ b2 = y[2] /\ b3 = y[3] /\ b4 = y[4] /\ b5 = y[5] /\ b6 = y[6]
    <2>1. \A i \in 1 .. 6 : y[i] \in Int
      BY <1>6
    <2>2. y[1] \in Int /\ y[2] \in Int /\ y[3] \in Int /\ y[4] \in Int /\ y[5] \in Int /\ y[6] \in Int
      BY <2>1
    <2> QED
      BY <2>2, Zenon
  <1>18. y = <<b1, b2, b3, b4, b5, b6>>
    <2>1. PICK g : g = <<b1, b2, b3, b4, b5, b6>>
      OBVIOUS
    <2>2. /\ Text(g, 6) /\ g[1] = b1 /\ g[2] = b2 /\ g[3] = b3 /\ g[4] = b4
          /\ g[5] = b5 /\ g[6] = b6
      BY <2>1 DEF Text
    <2>3. \A i \in 1 .. 6 : i = 1 \/ i = 2 \/ i = 3 \/ i = 4 \/ i = 5 \/ i = 6
      OBVIOUS
    <2>4. \A i \in 1 .. 6 : y[i] = g[i]
      BY <1>17, <2>2, <2>3, Zenon
    <2> QED
      BY <1>6, <2>1, <2>2, <2>4, SameText
  <1>19. u = <<b6, b1, b2, b3, b4, b5>>
    <2>1. PICK g : g = <<b6, b1, b2, b3, b4, b5>>
      OBVIOUS
    <2>2. /\ Text(g, 6) /\ g[1] = b6 /\ g[2] = b1 /\ g[3] = b2 /\ g[4] = b3
          /\ g[5] = b4 /\ g[6] = b5
      BY <2>1 DEF Text
    <2>3. \A i \in 1 .. 6 : i = 1 \/ i = 2 \/ i = 3 \/ i = 4 \/ i = 5 \/ i = 6
      OBVIOUS
    <2>4. u[2] = y[1] /\ u[3] = y[2] /\ u[4] = y[3] /\ u[5] = y[4] /\ u[6] = y[5]
      BY <1>16
    <2>5. \A i \in 1 .. 6 : u[i] = g[i]
      BY <1>16, <1>17, <2>2, <2>3, <2>4, Zenon
    <2> QED
      BY <1>16, <2>1, <2>2, <2>5, SameText
  <1> QED
    <2>1. Whole(y, b1, b2, b3, b4, b5, b6)
      BY <1>5, <1>7, <1>8, <1>11, <1>12, <1>14, <1>18, <1>19, Zenon DEF Whole
    <2> QED
      BY <1>1, <2>1, Zenon

LEMMA Again3 ==
    ASSUME NEW v \in Nat, v < CallValues, NEW w \in Nat, w < Values22,
           Ntype(w) < 0, Ntype(w) # -64, PowerDigit(-(Ntype(w) + 1)),
           Len(CString(unpackcall(v))) = 6, NEW c \in Seq(Int), NHash(c) = w \div 128
    PROVE  get_wspr_channel_symbols(
              [call |-> Bracketed(c),
               grid |-> <<unpackcall(v)[6]>> \o CString(SubSeq(unpackcall(v), 1, 5)),
               power |-> -(Ntype(w) + 1)]) = <<v, w>>
  <1>1. PICK b1 \in Int, b2 \in Int, b3 \in Int, b4 \in Int, b5 \in Int, b6 \in Int :
              Whole(unpackcall(v), b1, b2, b3, b4, b5, b6)
    BY WholeBuffer, Zenon
  <1>2. PICK p : p = -(Ntype(w) + 1)
    OBVIOUS
  <1>3. Rounded(p) = p /\ 128 * NHash(c) - (p + 1) + 64 = w
    <2>1. w \div 128 \in Nat
      OBVIOUS
    <2> QED
      BY <1>2, <2>1, HashedPower, Zenon
  <1>4. pack_call(CString(unpackcall(v))) = v
    <2>1. PICK n \in 2 .. 6 : CallOf(CString(unpackcall(v)), n)
      BY PayloadCall
    <2>2. n = 6
      BY <2>1 DEF CallOf
    <2>3. PICK y : y = unpackcall(v) /\ CallOf(y, 6)
      BY <1>1, <2>1, <2>2 DEF Whole
    <2>4. \A i \in 2 .. 6 : At(y, i - 1) # Space
      <3>1. Text(y, 6) /\ 6 \in Nat /\ \A i \in 1 .. 6 : y[i] \in 0 .. 35
        BY <2>3 DEF CallOf, Text
      <3>2. \A i \in 1 .. 6 : At(y, i) = y[i]
        BY <3>1, TextAt
      <3>3. \A i \in 2 .. 6 : i - 1 \in 1 .. 6
        OBVIOUS
      <3>4. \A d \in 0 .. 35 : d # Space
        BY DEF Space
      <3> QED
        BY <3>1, <3>2, <3>3, <3>4, Zenon
    <2> QED
      BY <2>3, <2>4, GaplessPacked
  <1>5. v % Values28 = v /\ w % Values22 = w
    BY Cut28, Cut22
  <1>7. BracketedAgain(c, p, b1, b2, b3, b4, b5, b6)
    BY GeneratedBracketed, Zenon
  <1> QED
    BY <1>1, <1>2, <1>3, <1>4, <1>5, <1>7, Zenon DEF Whole, BracketedAgain

-----------------------------------------------------------------------------
(***************************************************************************)
(* Every payload of 28 and 22 bits packs back, whatever the hash table     *)
(* holds under its hash, as long as that is a callsign of that hash.       *)
(***************************************************************************)
THEOREM EveryPayloadPacksBack ==
    ASSUME NEW n1 \in Nat, NEW n2 \in Nat, n2 < Values22, NEW tab,
           Ntype(n2) < 0 /\ tab[n2 \div 128] # << >> =>
              /\ tab[n2 \div 128] \in Seq(Int)
              /\ NHash(tab[n2 \div 128]) = n2 \div 128
    PROVE  PacksBack(n1, n2, tab)
  <1> DEFINE x == CString(unpackcall(n1))
  <1>1. PICK u : u = unpk_(n1, n2, tab)
    OBVIOUS
  <1>2. SUFFICES ASSUME ~u.noprint, u.line # Blank, Canonical(n1, n2, tab)
                 PROVE  get_wspr_channel_symbols(u.line) = <<n1, n2>>
    BY <1>1, Zenon DEF PacksBack
  <1>3. /\ n1 < CallValues /\ n2 \div 128 < GridValues
        /\ \/ Ntype(n2) \in 0 .. 62 /\ PowerDigit(Ntype(n2))
              /\ u = unpk_type1(x, unpackgrid(n2), Ntype(n2), tab)
           \/ Ntype(n2) \in 0 .. 62 /\ ~PowerDigit(Ntype(n2))
              /\ u = unpk_type2(x, n2, Ntype(n2), tab)
           \/ Ntype(n2) < 0 /\ u = unpk_type3(unpackcall(n1), n2, Ntype(n2), tab)
    <2>1. u # Unpacked(TRUE, Blank, tab) /\ u # Unpacked(FALSE, Blank, tab)
      BY <1>2, NothingPrinted, Zenon
    <2> QED
      BY <1>1, <2>1, UnpkIs, Zenon DEF Kinds
  <1>4. PICK n \in 2 .. 6 : CallOf(x, n)
    BY <1>3, PayloadCall, Zenon
  <1>5. Len(x) = n
    BY <1>4 DEF CallOf
  <1>6. /\ \A i \in 2 .. 6 : At(unpackcall(n1), i - 1) = Space => At(unpackcall(n1), i) = Space
        /\ Ntype(n2) >= 0 => n >= 3
        /\ Ntype(n2) < 0 => tab[n2 \div 128] # << >> /\ n = 6
        /\ (Ntype(n2) \in 0 .. 62 /\ ~PowerDigit(Ntype(n2)) /\ Nprefix(n2) < PrefixValues) =>
             /\ Nprefix(n2) # Carry /\ Nprefix(n2) < 37 * 37 * 37 /\ Nprefix(n2) % 37 # 36
             /\ (Nprefix(n2) \div 37) % 37 = 36 => Nprefix(n2) \div (37 * 37) = 36
    BY <1>2, <1>5, Zenon DEF Canonical, Affixed
  <1>7. pack_call(x) = n1
    BY <1>3, <1>6, GaplessPacked, Zenon
  <1> HIDE DEF x
  <1>8. CASE Ntype(n2) \in 0 .. 62 /\ PowerDigit(Ntype(n2))
             /\ u = unpk_type1(x, unpackgrid(n2), Ntype(n2), tab)
    <2>1. u.line = [call |-> x, grid |-> unpackgrid(n2), power |-> Ntype(n2)]
      <3>1. Shape1(u, x, unpackgrid(n2), Ntype(n2), tab)
        BY <1>8, Shaped1, Zenon
      <3> QED
        BY <3>1, Zenon DEF Shape1
    <2>2. get_wspr_channel_symbols([call |-> x, grid |-> unpackgrid(n2), power |-> Ntype(n2)]) =
              IF n = 2 THEN << >> ELSE <<pack_call(x), n2>>
      BY <1>3, <1>4, <1>8, Again1, Zenon
    <2>3. n # 2
      <3>1. Ntype(n2) >= 0
        <4>1. Ntype(n2) \in 0 .. 62
          BY <1>8, Zenon
        <4> QED
          BY <4>1, Positive, Zenon
      <3>2. n >= 3
        BY <1>6, <3>1, Zenon
      <3> QED
        BY <3>2
    <2> QED
      BY <1>7, <2>1, <2>2, <2>3, Zenon
  <1>9. CASE Ntype(n2) \in 0 .. 62 /\ ~PowerDigit(Ntype(n2))
             /\ u = unpk_type2(x, n2, Ntype(n2), tab)
    <2>1. u = IF unpackpfx(Nprefix(n2), x) = << >> THEN Unpacked(TRUE, Blank, tab)
              ELSE Unpacked(FALSE, LineOf(Nprefix(n2), x, Power2(n2)),
                            Heard(tab, unpackpfx(Nprefix(n2), x)))
      BY <1>3, <1>9, Unpacked2, Zenon
    <2>2. unpackpfx(Nprefix(n2), x) # << >>
      BY <1>2, <2>1, Shaped, Zenon
    <2>3. u.line = LineOf(Nprefix(n2), x, Power2(n2))
      BY <2>1, <2>2, Shaped
    <2>4. n >= 3
      <3>1. Ntype(n2) >= 0
        <4>1. Ntype(n2) \in 0 .. 62
          BY <1>9, Zenon
        <4> QED
          BY <4>1, Positive, Zenon
      <3> QED
        BY <1>6, <3>1, Zenon
    <2>5. get_wspr_channel_symbols(LineOf(Nprefix(n2), x, Power2(n2))) = <<pack_call(x), n2>>
      BY <1>3, <1>4, <1>6, <1>9, <2>2, <2>4, Again2, Zenon
    <2> QED
      BY <1>7, <2>3, <2>5, Zenon
  <1>10. CASE Ntype(n2) < 0 /\ u = unpk_type3(unpackcall(n1), n2, Ntype(n2), tab)
    <2>1. PICK c : c = tab[n2 \div 128]
      OBVIOUS
    <2>2. c # << >> /\ c \in Seq(Int) /\ NHash(c) = n2 \div 128 /\ n = 6
      BY <1>6, <1>10, <2>1, Zenon
    <2>3. /\ u.line = [call |-> Bracketed(c),
                       grid |-> <<unpackcall(n1)[6]>> \o CString(SubSeq(unpackcall(n1), 1, 5)),
                       power |-> -(Ntype(n2) + 1)]
          /\ ~u.noprint => PowerDigit(-(Ntype(n2) + 1)) /\ Ntype(n2) # -64
      <3>1. Shape3(u, unpackcall(n1), n2, c, tab)
        BY <1>10, <2>1, Shaped3, Zenon
      <3> QED
        BY <2>2, <3>1, Zenon DEF Shape3
    <2>4. Len(CString(unpackcall(n1))) = 6
      BY <1>5, <2>2 DEF x
    <2>5. PowerDigit(-(Ntype(n2) + 1)) /\ Ntype(n2) # -64
      BY <1>2, <2>3, Zenon
    <2> QED
      BY <1>3, <1>10, <2>2, <2>3, <2>4, <2>5, Again3, Zenon
  <1> QED
    BY <1>3, <1>8, <1>9, <1>10, Zenon

-----------------------------------------------------------------------------
(* Unpacking what was generated from a printed line *)

LEMMA HeardTwice ==
    ASSUME NEW tab, NEW c
    PROVE  Heard(Heard(tab, c), c) = Heard(tab, c)
  BY DEF Heard

(***************************************************************************)
(* The table after unpacking: as before, or with the callsign of a message *)
(* of type 1 or 2.                                                         *)
(***************************************************************************)
Leaves(n, w, tab, after) ==
    \/ after = tab
    \/ /\ n < CallValues /\ w \div 128 < GridValues /\ Ntype(w) \in 0 .. 62
       /\ \/ PowerDigit(Ntype(w)) /\ after = Heard(tab, CString(unpackcall(n)))
          \/ /\ ~PowerDigit(Ntype(w))
             /\ unpackpfx(Nprefix(w), CString(unpackcall(n))) # << >>
             /\ after = Heard(tab, unpackpfx(Nprefix(w), CString(unpackcall(n))))

LEMMA UnpkLeaves ==
    ASSUME NEW n \in Nat, NEW w \in Nat, NEW tab
    PROVE  Leaves(n, w, tab, unpk_(n, w, tab).hashtab)
  <1>1. PICK u, x : u = unpk_(n, w, tab) /\ x = CString(unpackcall(n))
    OBVIOUS
  <1>2. CASE u = Unpacked(TRUE, Blank, tab) \/ u = Unpacked(FALSE, Blank, tab)
    <2>1. u.hashtab = tab
      BY <1>2 DEF Unpacked
    <2> QED
      BY <1>1, <2>1, Zenon DEF Leaves
  <1>3. CASE /\ n < CallValues /\ w \div 128 < GridValues
             /\ Ntype(w) \in 0 .. 62 /\ PowerDigit(Ntype(w))
             /\ u = unpk_type1(x, unpackgrid(w), Ntype(w), tab)
    <2>1. Shape1(u, x, unpackgrid(w), Ntype(w), tab)
      BY <1>3, Shaped1, Zenon
    <2>2. u.hashtab = Heard(tab, x)
      BY <2>1 DEF Shape1
    <2> QED
      BY <1>1, <1>3, <2>2, Zenon DEF Leaves
  <1>4. CASE /\ n < CallValues /\ w \div 128 < GridValues
             /\ Ntype(w) \in 0 .. 62 /\ ~PowerDigit(Ntype(w))
             /\ u = unpk_type2(x, w, Ntype(w), tab)
    <2>1. u = IF unpackpfx(Nprefix(w), x) = << >> THEN Unpacked(TRUE, Blank, tab)
              ELSE Unpacked(FALSE, LineOf(Nprefix(w), x, Power2(w)),
                            Heard(tab, unpackpfx(Nprefix(w), x)))
      BY <1>4, Unpacked2, Zenon
    <2>2. PICK full, line : full = unpackpfx(Nprefix(w), x) /\ line = LineOf(Nprefix(w), x, Power2(w))
      OBVIOUS
    <2>3. u = IF full = << >> THEN Unpacked(TRUE, Blank, tab)
              ELSE Unpacked(FALSE, line, Heard(tab, full))
      BY <2>1, <2>2, Zenon
    <2>4. u.hashtab = IF full = << >> THEN tab ELSE Heard(tab, full)
      BY <2>3 DEF Unpacked
    <2> QED
      BY <1>1, <1>4, <2>2, <2>4, Zenon DEF Leaves
  <1>5. CASE u = unpk_type3(unpackcall(n), w, Ntype(w), tab)
    <2>1. PICK y : y = unpackcall(n)
      OBVIOUS
    <2>2. Shape3(u, y, w, tab[w \div 128], tab)
      BY <1>5, <2>1, Shaped3, Zenon
    <2>3. u.hashtab = tab
      BY <2>2 DEF Shape3
    <2> QED
      BY <1>1, <2>3, Zenon DEF Leaves
  <1> QED
    BY <1>1, <1>2, <1>3, <1>4, <1>5, UnpkIs, Zenon DEF Kinds

LEMMA HashedLeaves ==
    ASSUME NEW n, NEW w, Ntype(w) \notin 0 .. 62, NEW tab
    PROVE  unpk_(n, w, tab).hashtab = tab
  <1>1. PICK u : u = unpk_(n, w, tab)
    OBVIOUS
  <1>2. \/ u = Unpacked(TRUE, Blank, tab) \/ u = Unpacked(FALSE, Blank, tab)
        \/ u = unpk_type3(unpackcall(n), w, Ntype(w), tab)
    BY <1>1, Zenon DEF unpk_
  <1>3. CASE u = unpk_type3(unpackcall(n), w, Ntype(w), tab)
    <2>1. PICK y : y = unpackcall(n)
      OBVIOUS
    <2>2. Shape3(u, y, w, tab[w \div 128], tab)
      BY <1>3, <2>1, Shaped3, Zenon
    <2> QED
      BY <1>1, <2>2 DEF Shape3
  <1>4. CASE u = Unpacked(TRUE, Blank, tab) \/ u = Unpacked(FALSE, Blank, tab)
    <2>1. u.hashtab = tab
      BY <1>4 DEF Unpacked
    <2> QED
      BY <1>1, <2>1
  <1> QED
    BY <1>2, <1>3, <1>4

(***************************************************************************)
(* What a power and a packed value are taken apart into again.             *)
(***************************************************************************)
LEMMA SumParts ==
    ASSUME NEW z \in Nat, NEW p \in 0 .. 60, PowerDigit(p), NEW d \in 0 .. 1,
           NEW w, w = Sum22(z, p, d)
    PROVE  /\ w \in Nat /\ ~PowerDigit(Ntype(w)) /\ Nprefix(w) = z + Carry * d
  <1>1. PICK tx \in 0 .. 62 : tx = p + 1 + d
    OBVIOUS
  <1>2. w = 128 * z + (tx + 64) /\ tx + 64 \in 0 .. 127
    BY <1>1 DEF Sum22
  <1>3. w \in Nat /\ w % 128 = tx + 64 /\ w \div 128 = z
    BY <1>2
  <1>4. Ntype(w) = tx
    BY <1>3 DEF Ntype
  <1>5. PICK s \in 0 .. 6, u \in {0, 3, 7} : p = 10 * s + u
    <2>1. p = 10 * (p \div 10) + (p % 10) /\ p \div 10 \in 0 .. 6 /\ p % 10 \in {0, 3, 7}
      BY DEF PowerDigit
    <2> QED
      BY <2>1
  <1>6. tx % 10 = u + 1 + d
    BY <1>1, <1>5
  <1>7. u + 1 + d \in {1, 2, 4, 5, 8, 9} /\ Nadd(u + 1 + d) = d + 1
    BY <1>5 DEF Nadd
  <1>8. ~PowerDigit(tx)
    BY <1>6, <1>7 DEF PowerDigit
  <1>9. Nprefix(w) = z + Carry * d
    <2>1. Nadd(Ntype(w) % 10) - 1 = d
      BY <1>4, <1>6, <1>7
    <2> QED
      BY <1>3, <2>1, Zenon DEF Nprefix
  <1> QED
    BY <1>3, <1>4, <1>8, <1>9

(***************************************************************************)
(* Unpacking this payload leaves the table as it is.                       *)
(***************************************************************************)
Kept(again, tab) == unpk_(again[1], again[2], tab).hashtab = tab

(***************************************************************************)
(* The callsign, or the one that a prefix's or suffix's value m gives, is  *)
(* in the table already.                                                   *)
(***************************************************************************)
Holds(tab, c) == Heard(tab, c) = tab

Spared(tab, v, m) ==
    unpackpfx(m, CString(unpackcall(v))) # << >> /\ v < CallValues =>
       Holds(tab, unpackpfx(m, CString(unpackcall(v))))

(***************************************************************************)
(* A line of type 1 leaves the table as its message did.                   *)
(***************************************************************************)
LEMMA Kept1 ==
    ASSUME NEW w \in Nat, PowerDigit(Ntype(w)), NEW x, NEW n \in 2 .. 6, CallOf(x, n),
           NEW tab, Holds(tab, x)
    PROVE  unpk_(pack_call(x), w, tab).hashtab = tab
  <1>1. PICK v : v = pack_call(x)
    OBVIOUS
  <1>2. v \in Nat /\ CString(unpackcall(v)) = x
    BY <1>1, PackedCall, Zenon
  <1>3. Leaves(v, w, tab, unpk_(v, w, tab).hashtab)
    BY <1>2, UnpkLeaves, Zenon
  <1> QED
    BY <1>1, <1>2, <1>3, Zenon DEF Leaves, Holds, Spared

(***************************************************************************)
(* A prefix or suffix of value z, or z + Carry, with a packed callsign     *)
(* leaves what it unpacks to.                                              *)
(***************************************************************************)
LEMMA Kept2 ==
    ASSUME NEW z \in Nat, NEW p \in 0 .. 60, PowerDigit(p), NEW d \in 0 .. 1,
           NEW v \in Nat, NEW tab,
           Spared(tab, v, z + Carry * d)
    PROVE  unpk_(v, Sum22(z, p, d), tab).hashtab = tab
  <1>1. PICK w : w = Sum22(z, p, d)
    OBVIOUS
  <1>2. w \in Nat /\ ~PowerDigit(Ntype(w)) /\ Nprefix(w) = z + Carry * d
    BY <1>1, SumParts, Zenon
  <1>3. Leaves(v, w, tab, unpk_(v, w, tab).hashtab)
    BY <1>2, UnpkLeaves, Zenon
  <1> QED
    BY <1>1, <1>2, <1>3, Zenon DEF Leaves, Holds, Spared

SentIn(P, n, m, p, z, d) ==
    m = z + Carry * d /\ P.n = n /\ Low22(P.m, p, P.nadd) = Sum22(z, p, d)

LEMMA SentValue ==
    ASSUME NEW m \in Nat, m < PrefixValues, m # Carry, NEW n, NEW p \in 0 .. 60
    PROVE  \E z \in Nat : \E d \in 0 .. 1 :
              SentIn(PackedPrefix(n, m), n, m, p, z, d)
  <1>1. SentAs(PackedPrefix(n, m), n, m, p)
    BY LowOf, Zenon
  <1>2. CASE m < Carry
    <2>1. 0 \in 0 .. 1 /\ m = m + Carry * 0
      BY GridLimits
    <2> QED
      BY <1>1, <1>2, <2>1, Zenon DEF SentAs, SentIn
  <1>3. CASE m >= Carry
    <2>1. PICK z \in Nat : z = m - Carry
      BY <1>3, GridLimits
    <2>2. 1 \in 0 .. 1 /\ m = z + Carry * 1
      BY <2>1, GridLimits
    <2> QED
      BY <1>1, <1>3, <2>1, <2>2, Zenon DEF SentAs, SentIn
  <1> QED
    BY <1>2, <1>3, GridLimits

LEMMA KeptPrefix ==
    ASSUME NEW v, v # Carry, NEW x, NEW n \in 2 .. 6, CallOf(x, n),
           NEW p \in 0 .. 60, PowerDigit(p), NEW m, PrefixAgain(v, x, p, m),
           NEW tab, Holds(tab, unpackpfx(v, x))
    PROVE  Kept(get_wspr_channel_symbols(LineOf(v, x, p)), tab)
  <1>0. PICK again : again = get_wspr_channel_symbols(LineOf(v, x, p))
    OBVIOUS
  <1>1. m \in Nat /\ m < PrefixValues /\ m # Carry /\ unpackpfx(m, x) = unpackpfx(v, x)
    BY Zenon DEF PrefixAgain
  <1>2. PICK n1 : n1 = pack_call(x)
    OBVIOUS
  <1>3. n1 \in Nat /\ n1 < CallValues /\ CString(unpackcall(n1)) = x
    BY <1>2, PackedCall, Zenon
  <1>4. n1 % Values28 = n1
    BY <1>3, Cut28
  <1>5. PICK z \in Nat : \E d \in 0 .. 1 :
              SentIn(PackedPrefix(n1, m), n1, m, p, z, d)
    BY <1>1, SentValue, Zenon
  <1>6. PICK d \in 0 .. 1 : SentIn(PackedPrefix(n1, m), n1, m, p, z, d)
    BY <1>5
  <1>7. again = <<n1, Sum22(z, p, d)>>
    BY <1>0, <1>2, <1>4, <1>6, Zenon DEF PrefixAgain, SentIn
  <1>8. again[1] = n1 /\ again[2] = Sum22(z, p, d)
    BY <1>7
  <1>9. unpk_(n1, Sum22(z, p, d), tab).hashtab = tab
    <2>1. Spared(tab, n1, z + Carry * d)
      BY <1>1, <1>3, <1>6, Zenon DEF SentIn, Spared
    <2> QED
      BY <1>3, <2>1, Kept2, Zenon
  <1> QED
    BY <1>0, <1>8, <1>9, Zenon DEF Kept

LEMMA KeptSuffix ==
    ASSUME NEW v \in Nat, v >= PrefixValues, NEW x, NEW n \in 2 .. 6, CallOf(x, n),
           unpackpfx(v, x) # << >>, NEW p \in 0 .. 60, PowerDigit(p), Rounded(p) = p,
           NEW tab, Holds(tab, unpackpfx(v, x))
    PROVE  Kept(get_wspr_channel_symbols(LineOf(v, x, p)), tab)
  <1>0. PICK again : again = get_wspr_channel_symbols(LineOf(v, x, p))
    OBVIOUS
  <1>1. PICK n1 : n1 = pack_call(x)
    OBVIOUS
  <1>2. n1 \in Nat /\ n1 < CallValues /\ CString(unpackcall(n1)) = x
    BY <1>1, PackedCall, Zenon
  <1>3. n1 % Values28 = n1
    BY <1>2, Cut28
  <1>4. /\ v - PrefixValues <= 125
        /\ again = <<n1 % Values28, Low22(v - Carry, p, 1)>>
    BY <1>0, <1>1, SuffixedAgain, Zenon
  <1>5. PICK z \in Nat : z = v - Carry /\ v = z + Carry * 1 /\ z < Carry
    BY <1>4, PrefixLimits
  <1>6. Low22(z, p, 1) = Sum22(z, p, 1)
    BY <1>5, LowSent, Zenon
  <1>7. again = <<n1, Sum22(z, p, 1)>>
    BY <1>3, <1>4, <1>5, <1>6, Zenon
  <1>8. again[1] = n1 /\ again[2] = Sum22(z, p, 1)
    BY <1>7
  <1>9. unpk_(n1, Sum22(z, p, 1), tab).hashtab = tab
    <2>1. Spared(tab, n1, z + Carry * 1)
      BY <1>2, <1>5, Zenon DEF Spared
    <2>2. 1 \in 0 .. 1
      OBVIOUS
    <2> QED
      BY <1>2, <2>1, <2>2, Kept2, Zenon
  <1> QED
    BY <1>0, <1>8, <1>9, Zenon DEF Kept

(***************************************************************************)
(* A head of up to three characters is a callsign, or packs into a number  *)
(* that is none.                                                           *)
(***************************************************************************)
LEMMA HeadPacked ==
    ASSUME NEW h, NEW k \in 1 .. 3, Text(h, k), \A i \in 1 .. k : h[i] \in 0 .. 35
    PROVE  /\ pack_call(h) \in Nat /\ pack_call(h) % Values28 = pack_call(h)
           /\ pack_call(h) < CallValues => CString(unpackcall(pack_call(h))) = h
  <1>1. h \in Seq(Int) /\ Len(h) = k /\ k \in Nat
    BY DEF Text
  <1>2. CASE k \in 2 .. 6 /\ CallOf(h, k)
    <2>1. pack_call(h) \in Nat /\ pack_call(h) < CallValues /\ CString(unpackcall(pack_call(h))) = h
      BY <1>2, PackedCall, Zenon
    <2> QED
      BY <2>1, Cut28
  <1>3. CASE ~(k \in 2 .. 6 /\ CallOf(h, k))
    <2>1. \A i \in 1 .. k : At(h, i) = h[i]
      BY <1>1, TextAt
    <2>2. \A i \in Int : i \notin 1 .. k => At(h, i) = NUL
      BY <1>1, TextAt
    <2>3. ~isdigit(NUL)
      BY DEF isdigit, NUL
    <2>4. ~isdigit(At(h, 3))
      <3>1. CASE k = 3
        <4>1. ~(h[3] \in 0 .. 9)
          <5>1. \A i \in 4 .. k : h[i] \in 10 .. 35
            BY <3>1
          <5> QED
            BY <1>1, <1>3, <3>1, <5>1 DEF CallOf
        <4>2. At(h, 3) = h[3]
          BY <2>1, <3>1
        <4> QED
          BY <4>1, <4>2 DEF isdigit
      <3>2. CASE k # 3
        <4>1. 3 \in Int /\ 3 \notin 1 .. k
          BY <3>2
        <4> QED
          BY <2>2, <2>3, <4>1, Zenon
      <3> QED
        BY <3>1, <3>2
    <2>5. ~isdigit(At(h, 2))
      <3>1. CASE k = 1
        <4>1. 2 \in Int /\ 2 \notin 1 .. k
          BY <3>1
        <4> QED
          BY <2>2, <2>3, <4>1, Zenon
      <3>2. CASE k # 1
        <4>1. At(h, 2) = h[2]
          BY <2>1, <3>2
        <4>2. ~(h[2] \in 0 .. 9)
          <5> SUFFICES ASSUME h[2] \in 0 .. 9
                       PROVE  FALSE
            OBVIOUS
          <5>1. \A i \in 3 .. k : h[i] \in 10 .. 35
            <6>1. k = 3 => h[3] \in 10 .. 35
              <7>1. k = 3 => At(h, 3) = h[3] /\ h[3] \in 0 .. 35
                BY <2>1
              <7> QED
                BY <2>4, <7>1 DEF isdigit
            <6> QED
              BY <6>1
          <5> QED
            BY <1>1, <1>3, <3>2, <5>1 DEF CallOf
        <4> QED
          BY <4>1, <4>2 DEF isdigit
      <3> QED
        BY <3>1, <3>2
    <2>6. \A i \in 1 .. 6 : CodeOf(At(h, i - 6)) = 36
      <3>1. \A i \in 1 .. 6 : i - 6 \in Int /\ i - 6 \notin 1 .. k
        OBVIOUS
      <3>2. CodeOf(NUL) = 36
        BY CodeIs DEF Space
      <3> QED
        BY <2>2, <3>1, <3>2, Zenon
    <2>7. /\ CodeOf(At(h, 1 - 6)) = 36 /\ CodeOf(At(h, 2 - 6)) = 36 /\ CodeOf(At(h, 3 - 6)) = 36
          /\ CodeOf(At(h, 4 - 6)) = 36 /\ CodeOf(At(h, 5 - 6)) = 36 /\ CodeOf(At(h, 6 - 6)) = 36
      <3>1. 1 \in 1 .. 6 /\ 2 \in 1 .. 6 /\ 3 \in 1 .. 6 /\ 4 \in 1 .. 6 /\ 5 \in 1 .. 6 /\ 6 \in 1 .. 6
        OBVIOUS
      <3> QED
        BY <2>6, <3>1, Zenon
    <2>8. ~(Len(h) > 6)
      BY <1>1
    <2>9. pack_call(h) = ((((36 * 36 + 36) * 10 + 36) * 27 + 36 - 10) * 27 + 36 - 10) * 27 + 36 - 10
      BY <2>4, <2>5, <2>7, <2>8, Zenon DEF pack_call
    <2>10. pack_call(h) \in Nat /\ pack_call(h) >= CallValues /\ pack_call(h) < Values28
      BY <2>9, CallValuesIs DEF Values28
    <2>11. pack_call(h) % Values28 = pack_call(h)
      BY <2>10 DEF Values28
    <2>12. ~(pack_call(h) < CallValues)
      BY <2>10, CallValuesNat
    <2> QED
      BY <2>10, <2>11, <2>12
  <1> QED
    BY <1>2, <1>3, Zenon

LEMMA SlashedSame ==
    ASSUME NEW w, NEW z, NEW h, NEW k \in Nat, NEW r, NEW l \in Nat,
           Slashed(w, h, k, r, l), Slashed(z, h, k, r, l)
    PROVE  w = z
  <1>1. k + 1 + l \in Nat /\ Text(w, k + 1 + l) /\ Text(z, k + 1 + l)
    BY DEF Slashed
  <1>2. \A i \in 1 .. k + 1 + l : w[i] = z[i]
    <2> TAKE i \in 1 .. k + 1 + l
    <2>1. CASE i \in 1 .. k
      BY <2>1 DEF Slashed
    <2>2. CASE i = k + 1
      BY <2>2 DEF Slashed
    <2>3. CASE i \notin 1 .. k /\ i # k + 1
      <3>1. PICK j \in 1 .. l : i = k + 1 + j
        <4>1. i - k - 1 \in 1 .. l /\ i = k + 1 + (i - k - 1)
          BY <2>3
        <4> QED
          BY <4>1, Zenon
      <3> QED
        BY <3>1 DEF Slashed
    <2> QED
      BY <2>1, <2>2, <2>3
  <1> QED
    BY <1>1, <1>2, SameText, Zenon

LEMMA ShortSuffix ==
    ASSUME NEW x, CallOf(x, 2), x[1] # 0, NEW y
    PROVE  /\ SuffixCode(x, 2) \in Nat /\ SuffixCode(x, 2) >= PrefixValues
           /\ SuffixCode(x, 2) - PrefixValues <= 500
           /\ unpackpfx(SuffixCode(x, 2), y) = << >>
              \/ unpackpfx(SuffixCode(x, 2), y) = y \o <<SlashChar, x[1], x[2]>>
  <1>1. PICK c, d : c = x[1] /\ d = x[2]
    OBVIOUS
  <1>2. c \in 1 .. 35 /\ d \in 0 .. 9
    <2>1. c \in 0 .. 35 /\ d \in 0 .. 9 /\ c # 0
      BY <1>1 DEF CallOf
    <2> QED
      BY <2>1
  <1>3. /\ FromZero(d) = d
        /\ \/ c \in 1 .. 9 /\ FromZero(c) = c
           \/ c \in 10 .. 35 /\ FromZero(c) = c + 7
    <2>1. \A e \in 0 .. 9 : FromZero(e) = e
      BY CodeIs
    <2>2. \A e \in 10 .. 35 : FromZero(e) = e + 7
      BY DEF FromZero, isalpha
    <2>3. c \in 1 .. 9 \/ c \in 10 .. 35
      BY <1>2
    <2>4. c \in 1 .. 9 => c \in 0 .. 9
      OBVIOUS
    <2>5. FromZero(d) = d
      BY <1>2, <2>1, Zenon
    <2>6. c \in 1 .. 9 => FromZero(c) = c
      BY <2>1, <2>4, Zenon
    <2>7. c \in 10 .. 35 => FromZero(c) = c + 7
      BY <2>2, Zenon
    <2> QED
      BY <2>3, <2>5, <2>6, <2>7, Zenon
  <1>4. PICK nc \in Nat : nc = 26 + 10 * FromZero(c) + FromZero(d)
    BY <1>2, <1>3
  <1>5. PICK v : v = SuffixCode(x, 2)
    OBVIOUS
  <1>6. v = PrefixValues + nc
    BY <1>1, <1>4, <1>5 DEF SuffixCode
  <1>7. v \in Nat /\ v >= PrefixValues /\ ~(v < PrefixValues) /\ v - PrefixValues = nc /\ nc <= 500
    BY <1>2, <1>3, <1>4, <1>6, PrefixLimits
  <1>10. ~(v < PrefixValues) /\ nc = v - PrefixValues
    BY <1>7
  <1>8. CASE c \in 1 .. 9
    <2>1. /\ ~(nc <= 35) /\ nc <= 125 /\ (nc - 26) \div 10 = c /\ (nc - 26) % 10 = d
      <3>1. c \notin 10 .. 35
        BY <1>8
      <3>2. FromZero(c) = c /\ FromZero(d) = d
        BY <1>3, <3>1, Zenon
      <3>3. nc = 26 + 10 * c + d
        BY <1>4, <3>2, Zenon
      <3>4. nc - 26 = 10 * c + d
        BY <1>2, <3>3
      <3> QED
        BY <1>2, <1>8, <3>3, <3>4
    <2>2. unpackpfx(v, y) = y \o <<SlashChar, (nc - 26) \div 10, (nc - 26) % 10>>
      BY <1>10, <2>1, Zenon DEF unpackpfx
    <2>3. unpackpfx(v, y) = y \o <<SlashChar, c, d>>
      BY <2>1, <2>2, Zenon
    <2> QED
      BY <1>1, <1>5, <1>7, <2>3
  <1>9. CASE c \in 10 .. 35
    <2>1. ~(nc <= 35) /\ ~(nc <= 125)
      BY <1>2, <1>3, <1>4, <1>9
    <2>2. unpackpfx(v, y) = << >>
      BY <1>10, <2>1, Zenon DEF unpackpfx
    <2> QED
      BY <1>5, <1>7, <2>2
  <1> QED
    BY <1>3, <1>8, <1>9

(***************************************************************************)
(* A prefix and a callsign of two characters, generated as a callsign and  *)
(* a suffix, leave what they did, or nothing.                              *)
(***************************************************************************)
LEMMA KeptShort ==
    ASSUME NEW v, NEW x, CallOf(x, 2), x[1] # 0, NEW p \in 0 .. 60, PowerDigit(p),
           NEW k \in 1 .. 3, NEW h, SuffixAgain(v, x, p, h, k),
           NEW tab, Holds(tab, unpackpfx(v, x))
    PROVE  Kept(get_wspr_channel_symbols(LineOf(v, x, p)), tab)
  <1>0. PICK again : again = get_wspr_channel_symbols(LineOf(v, x, p))
    OBVIOUS
  <1>1. Slashed(unpackpfx(v, x), h, k, x, 2)
    BY DEF SuffixAgain
  <1>2. k \in Nat /\ Text(h, k) /\ \A i \in 1 .. k : h[i] \in 0 .. 35
    BY <1>1 DEF Slashed
  <1>3. PICK n1 : n1 = pack_call(h)
    OBVIOUS
  <1>4. n1 \in Nat /\ n1 % Values28 = n1 /\ (n1 < CallValues => CString(unpackcall(n1)) = h)
    BY <1>2, <1>3, HeadPacked
  <1>5. PICK m : m = SuffixCode(x, 2)
    OBVIOUS
  <1>6. m \in Nat /\ m >= PrefixValues /\ m - PrefixValues <= 500
    BY <1>5, ShortSuffix, Zenon
  <1>7. PICK z \in Nat : m = z + Carry * 1 /\ m = z + Carry /\ z < Carry
    <2>1. m - Carry \in Nat /\ m = (m - Carry) + Carry * 1 /\ m = (m - Carry) + Carry /\ m - Carry < Carry
      BY <1>6, PrefixLimits
    <2> QED
      BY <2>1, Zenon
  <1>8. Low22(m, p, 1) = Sum22(z, p, 1)
    <2>1. Low22(z + Carry, p, 1) = Low22(z, p, 1) /\ Low22(z, p, 1) = Sum22(z, p, 1)
      BY <1>7, LowSent, LowCarried, Zenon
    <2> QED
      BY <1>7, <2>1, Zenon
  <1>9. again = <<n1, Sum22(z, p, 1)>>
    BY <1>0, <1>3, <1>4, <1>5, <1>8, Zenon DEF SuffixAgain
  <1>10. again[1] = n1 /\ again[2] = Sum22(z, p, 1)
    BY <1>9
  <1>11. Spared(tab, n1, z + Carry * 1)
    <2> SUFFICES ASSUME unpackpfx(m, CString(unpackcall(n1))) # << >>, n1 < CallValues
                 PROVE  Holds(tab, unpackpfx(m, CString(unpackcall(n1))))
      BY <1>7, Zenon DEF Spared
    <2>1. CString(unpackcall(n1)) = h
      BY <1>4
    <2>2. unpackpfx(m, h) = h \o <<SlashChar, x[1], x[2]>>
      BY <1>5, <2>1, ShortSuffix, Zenon
    <2>3. PICK c, d : c = x[1] /\ d = x[2]
      OBVIOUS
    <2>4. c \in 0 .. 35 /\ d \in 0 .. 35
      BY <2>3 DEF CallOf
    <2>5. x = <<c, d>>
      <3>1. PICK r : r = <<c, d>>
        OBVIOUS
      <3>2. Text(r, 2) /\ r[1] = c /\ r[2] = d
        BY <2>4, <3>1 DEF Text
      <3>3. Text(x, 2) /\ \A i \in 1 .. 2 : x[i] = r[i]
        BY <2>3, <3>2 DEF CallOf, Text
      <3> QED
        BY <3>1, <3>2, <3>3, SameText
    <2>6. Slashed(h \o <<SlashChar, c, d>>, h, k, <<c, d>>, 2)
      BY <1>2, <2>4, SlashBefore, Zenon
    <2>7. Slashed(unpackpfx(m, h), h, k, x, 2)
      BY <2>2, <2>3, <2>5, <2>6, Zenon
    <2>8. unpackpfx(m, h) = unpackpfx(v, x)
      <3>1. 2 \in Nat
        OBVIOUS
      <3> QED
        BY <1>1, <1>2, <2>7, <3>1, SlashedSame, Zenon
    <2> QED
      BY <2>1, <2>8, Zenon
  <1>12. unpk_(n1, Sum22(z, p, 1), tab).hashtab = tab
    <2>1. 1 \in 0 .. 1
      OBVIOUS
    <2> QED
      BY <1>4, <1>11, <2>1, Kept2, Zenon
  <1> QED
    BY <1>0, <1>10, <1>12, Zenon DEF Kept

(***************************************************************************)
(* A line with a hash is generated with a hash, and leaves nothing.        *)
(***************************************************************************)
LEMMA UnresolvedIs == \E c \in Seq(Int) : Unresolved = Bracketed(c)
  <1>1. PICK s, d, g : s = <<Less>> /\ d = <<Dot, Dot, Dot>> /\ g = <<Greater>>
    OBVIOUS
  <1>2. Text(s, 1) /\ s[1] = Less /\ Text(g, 1) /\ g[1] = Greater
        /\ Text(d, 3) /\ d[1] = Dot /\ d[2] = Dot /\ d[3] = Dot
    BY <1>1 DEF Text, Less, Greater, Dot
  <1>3. PICK u : u = s \o d
    OBVIOUS
  <1>4. Joined(u, s, 1, d, 3)
    <2>1. Joined(s \o d, s, 1, d, 3)
      BY <1>2, JoinText
    <2> QED
      BY <1>3, <2>1, Zenon
  <1>5. Text(u, 4) /\ u[1] = Less /\ \A i \in 1 .. 3 : u[1 + i] = d[i]
    BY <1>2, <1>4 DEF Joined
  <1>6. PICK z : z = u \o g
    OBVIOUS
  <1>7. Joined(z, u, 4, g, 1)
    <2>1. Joined(u \o g, u, 4, g, 1)
      BY <1>2, <1>5, JoinText
    <2> QED
      BY <1>6, <2>1, Zenon
  <1>8. Text(z, 5) /\ z[5] = Greater /\ \A i \in 1 .. 4 : z[i] = u[i]
    BY <1>2, <1>7 DEF Joined
  <1>9. z[1] = Less /\ z[2] = Dot /\ z[3] = Dot /\ z[4] = Dot
    BY <1>2, <1>5, <1>8
  <1>10. PICK w : w = Unresolved
    OBVIOUS
  <1>11. Text(w, 5) /\ w[1] = Less /\ w[2] = Dot /\ w[3] = Dot /\ w[4] = Dot /\ w[5] = Greater
    BY <1>10 DEF Unresolved, Text, Less, Dot, Greater
  <1>12. w = z
    <2>1. \A i \in 1 .. 5 : i = 1 \/ i = 2 \/ i = 3 \/ i = 4 \/ i = 5
      OBVIOUS
    <2>2. \A i \in 1 .. 5 : w[i] = z[i]
      BY <1>8, <1>9, <1>11, <2>1, Zenon
    <2> QED
      BY <1>8, <1>11, <2>2, SameText
  <1>13. Unresolved = Bracketed(d)
    BY <1>1, <1>3, <1>6, <1>10, <1>12, Zenon DEF Bracketed
  <1> QED
    BY <1>2, <1>13 DEF Text

Brackets(call, c) ==
    /\ At(call, 1) = Less
    /\ ~ \A i \in 1 .. Len(call) : call[i] \notin {SlashChar, Less}
    /\ SubSeq(call, 2, Len(call) - 1) = c

LEMMA BracketsOf ==
    ASSUME NEW c \in Seq(Int)
    PROVE  Brackets(Bracketed(c), c)
  <1> DEFINE call == Bracketed(c)
  <1>1. Less \in Int /\ Greater \in Int
    BY DEF Less, Greater
  <1>2. Len(call) = Len(c) + 2 /\ call[1] = Less /\ \A i \in 1 .. Len(c) : call[i + 1] = c[i]
    BY <1>1 DEF Bracketed
  <1>3. At(call, 1) = Less
    BY <1>2 DEF At
  <1>4. ~ \A i \in 1 .. Len(call) : call[i] \notin {SlashChar, Less}
    BY <1>2
  <1>5. SubSeq(call, 2, Len(call) - 1) = c
    BY <1>1, <1>2 DEF Bracketed
  <1> QED
    BY <1>3, <1>4, <1>5, Zenon DEF Brackets

LEMMA HashedSum ==
    ASSUME NEW h \in Nat, h < Carry, NEW p \in 0 .. 60
    PROVE  \E z \in Nat : z = 128 * h + (63 - p) /\ z < Values22 /\ z = 128 * h - (p + 1) + 64
  <1>1. /\ 128 * h + (63 - p) \in Nat /\ 128 * h + (63 - p) < Values22
        /\ 128 * h + (63 - p) = 128 * h - (p + 1) + 64
    BY GridLimits
  <1> QED
    BY <1>1, Zenon

LEMMA Kept3 ==
    ASSUME NEW c \in Seq(Int), NHash(c) \in Nat, NHash(c) < Carry,
           NEW g, NEW p \in 0 .. 60, Rounded(p) = p, NEW tab
    PROVE  Kept(get_wspr_channel_symbols([call |-> Bracketed(c), grid |-> g, power |-> p]), tab)
  <1>0. PICK again : again = get_wspr_channel_symbols([call |-> Bracketed(c), grid |-> g, power |-> p])
    OBVIOUS
  <1>1. PICK h \in Nat : h = NHash(c) /\ h < Carry
    OBVIOUS
  <1>2. PICK call : call = Bracketed(c) /\ Brackets(call, c)
    BY BracketsOf
  <1>3. PICK w : w = (128 * h - (p + 1) + 64) % Values22
    OBVIOUS
  <1>4. \E n : again = <<n, w>>
    <2>1. again = <<pack_call(SubSeq(g, 2, Len(g)) \o (IF Len(g) = 6 THEN <<g[1]>> ELSE << >>)) % Values28,
                    (128 * NHash(SubSeq(call, 2, Len(call) - 1)) - (Rounded(p) + 1) + 64) % Values22>>
      BY <1>0, <1>2, Zenon DEF get_wspr_channel_symbols, Brackets
    <2>2. (128 * NHash(SubSeq(call, 2, Len(call) - 1)) - (Rounded(p) + 1) + 64) % Values22 = w
      BY <1>1, <1>2, <1>3, Zenon DEF Brackets
    <2> QED
      BY <2>1, <2>2, Zenon
  <1>5. Ntype(w) \notin 0 .. 62
    <2>1. PICK z \in Nat : z = 128 * h + (63 - p) /\ z < Values22 /\ z = 128 * h - (p + 1) + 64
      BY <1>1, HashedSum, Zenon
    <2>2. w = z
      BY <1>3, <2>1, Cut22
    <2>3. z % 128 = 63 - p
      BY <2>1
    <2> QED
      BY <2>2, <2>3 DEF Ntype
  <1>6. PICK n : again = <<n, w>>
    BY <1>4
  <1>7. again[1] = n /\ again[2] = w
    BY <1>6
  <1>8. unpk_(n, w, tab).hashtab = tab
    BY <1>5, HashedLeaves, Zenon
  <1> QED
    BY <1>0, <1>7, <1>8, Zenon DEF Kept

LEMMA BlankLine ==
    ASSUME NEW u, NEW line, NEW tab, u = Unpacked(FALSE, line, tab)
    PROVE  u.line = line /\ u.hashtab = tab
  BY DEF Unpacked

LEMMA NothingNoted ==
    ASSUME NEW u, ~u.noprint, NEW line, NEW tab
    PROVE  u # Unpacked(TRUE, line, tab)
  BY DEF Unpacked

LEMMA BlankAgain == get_wspr_channel_symbols(Blank) = << >>
  <1>1. PICK call, p, g : call = Blank.call /\ p = Blank.power /\ g = Blank.grid
    OBVIOUS
  <1>2. Len(call) = 0
    BY <1>1 DEF Blank
  <1>3. ~(Len(call) \in 3 .. 6) /\ At(call, 1) # Less /\ ~(Slash(call) \in 2 .. Len(call))
    BY <1>2 DEF At, NUL, Less
  <1> QED
    BY <1>1, <1>3, Zenon DEF get_wspr_channel_symbols

(***************************************************************************)
(* Unpacking what was generated from a printed line leaves the table as    *)
(* the message itself left it.                                             *)
(***************************************************************************)
LEMMA RegeneratesTable ==
    ASSUME NEW n1 \in Nat, NEW n2 \in Nat, n2 < Values22, Regenerable(n1, n2), NEW tab,
           \A c \in Seq(Int) : NHash(c) \in Nat /\ NHash(c) < Carry,
           Ntype(n2) < 0 => tab[n2 \div 128] \in Seq(Int),
           NEW u, u = unpk_(n1, n2, tab), ~u.noprint,
           NEW again, again = get_wspr_channel_symbols(u.line), again # << >>
    PROVE  Kept(again, u.hashtab)
  <1> DEFINE x == CString(unpackcall(n1))
  <1>1. u # Unpacked(TRUE, Blank, tab)
    BY NothingNoted
  <1>2. u # Unpacked(FALSE, Blank, tab)
    BY BlankAgain, BlankLine, Zenon
  <1>3. /\ n1 < CallValues /\ n2 \div 128 < GridValues
        /\ \/ /\ Ntype(n2) \in 0 .. 62 /\ PowerDigit(Ntype(n2))
              /\ u = unpk_type1(x, unpackgrid(n2), Ntype(n2), tab)
           \/ /\ Ntype(n2) \in 0 .. 62 /\ ~PowerDigit(Ntype(n2))
              /\ u = unpk_type2(x, n2, Ntype(n2), tab)
           \/ Ntype(n2) < 0 /\ u = unpk_type3(unpackcall(n1), n2, Ntype(n2), tab)
    <2>1. Kinds(u, n1, n2, tab)
      BY UnpkIs, Zenon
    <2> QED
      BY <1>1, <1>2, <2>1, Zenon DEF Kinds
  <1>4. PICK n \in 2 .. 6 : CallOf(x, n)
    BY <1>3, PayloadCall, Zenon
  <1>5. Ntype(n2) \in 0 .. 62 /\ ~PowerDigit(Ntype(n2)) =>
           /\ Nprefix(n2) # Carry
           /\ Nprefix(n2) < PrefixValues => ~(n = 2 /\ x[1] = 0)
    <2>1. Len(x) = n
      BY <1>4 DEF CallOf
    <2> QED
      BY <2>1, Zenon DEF Regenerable, Affixed
  <1> HIDE DEF x
  <1>6. CASE /\ Ntype(n2) \in 0 .. 62 /\ PowerDigit(Ntype(n2))
             /\ u = unpk_type1(x, unpackgrid(n2), Ntype(n2), tab)
    <2>1. Shape1(u, x, unpackgrid(n2), Ntype(n2), tab)
      BY <1>6, Shaped1, Zenon
    <2>2. PICK after : after = u.hashtab
      OBVIOUS
    <2>3. Holds(after, x)
      BY <2>1, <2>2, HeardTwice, Zenon DEF Shape1, Holds
    <2>4. again = IF n = 2 THEN << >> ELSE <<pack_call(x), n2>>
      BY <1>3, <1>4, <1>6, <2>1, Again1, Zenon DEF Shape1
    <2>5. again = <<pack_call(x), n2>>
      BY <2>4, Zenon
    <2>6. again[1] = pack_call(x) /\ again[2] = n2
      BY <2>5
    <2>7. unpk_(pack_call(x), n2, after).hashtab = after
      BY <1>4, <1>6, <2>3, Kept1, Zenon
    <2> QED
      BY <2>2, <2>6, <2>7, Zenon DEF Kept
  <1>7. CASE /\ Ntype(n2) \in 0 .. 62 /\ ~PowerDigit(Ntype(n2))
             /\ u = unpk_type2(x, n2, Ntype(n2), tab)
    <2>1. PICK v, p : v = Nprefix(n2) /\ p = Power2(n2)
      OBVIOUS
    <2>2. p \in 0 .. 60 /\ PowerDigit(p) /\ Rounded(p) = p /\ v \in Nat
      BY <1>3, <1>7, <2>1, Parts2, Zenon
    <2>3. PICK full, line : full = unpackpfx(v, x) /\ line = LineOf(v, x, p)
      OBVIOUS
    <2>4. u = IF full = << >> THEN Unpacked(TRUE, Blank, tab)
              ELSE Unpacked(FALSE, line, Heard(tab, full))
      BY <1>3, <1>7, <2>1, <2>3, Unpacked2, Zenon
    <2>5. full # << >> /\ u = Unpacked(FALSE, line, Heard(tab, full))
      BY <1>1, <2>4, Zenon
    <2>6. PICK after : after = u.hashtab
      OBVIOUS
    <2>7. again = get_wspr_channel_symbols(LineOf(v, x, p)) /\ Holds(after, unpackpfx(v, x))
      <3>1. u.line = line /\ u.hashtab = Heard(tab, full)
        BY <2>5, BlankLine, Zenon
      <3> QED
        BY <2>3, <2>6, <3>1, HeardTwice, Zenon DEF Holds
    <2>8. CASE v < PrefixValues
      <3>1. v # Carry /\ ~(n = 2 /\ x[1] = 0)
        BY <1>5, <1>7, <2>1, <2>8, Zenon
      <3>2. \/ n >= 3 /\ \E m : PrefixAgain(v, x, p, m)
            \/ n = 2 /\ \E k \in 1 .. 3 : \E h : SuffixAgain(v, x, p, h, k)
        BY <1>4, <2>2, <2>7, <2>8, PrefixedAgain, Zenon
      <3>3. CASE \E m : PrefixAgain(v, x, p, m)
        <4>1. PICK m : PrefixAgain(v, x, p, m)
          BY <3>3
        <4>5. Kept(again, after)
          BY <1>4, <2>2, <2>7, <3>1, <4>1, KeptPrefix, Zenon
        <4> QED
          BY <2>6, <4>5, Zenon
      <3>4. CASE n = 2 /\ \E k \in 1 .. 3 : \E h : SuffixAgain(v, x, p, h, k)
        <4>1. PICK k \in 1 .. 3 : \E h : SuffixAgain(v, x, p, h, k)
          BY <3>4
        <4>2. PICK h : SuffixAgain(v, x, p, h, k)
          BY <4>1
        <4>3. CallOf(x, 2) /\ x[1] # 0
          BY <1>4, <3>1, <3>4, Zenon
        <4>5. Kept(again, after)
          BY <2>2, <2>7, <4>2, <4>3, KeptShort, Zenon
        <4> QED
          BY <2>6, <4>5, Zenon
      <3> QED
        BY <3>2, <3>3, <3>4, Zenon
    <2>9. CASE ~(v < PrefixValues)
      <3>1. v >= PrefixValues
        BY <2>2, <2>9, PrefixLimits
      <3>2. Kept(again, after)
        BY <1>4, <2>2, <2>3, <2>5, <2>7, <3>1, KeptSuffix, Zenon
      <3> QED
        BY <2>6, <3>2, Zenon
    <2> QED
      BY <2>8, <2>9, Zenon
  <1>8. CASE Ntype(n2) < 0 /\ u = unpk_type3(unpackcall(n1), n2, Ntype(n2), tab)
    <2>1. PICK y, known : y = unpackcall(n1) /\ known = tab[n2 \div 128]
      OBVIOUS
    <2>2. Shape3(u, y, n2, known, tab)
      BY <1>8, <2>1, Shaped3, Zenon
    <2>3. PowerDigit(-(Ntype(n2) + 1)) /\ Ntype(n2) # -64
      BY <2>2, Zenon DEF Shape3
    <2>4. PICK p : p = -(Ntype(n2) + 1)
      OBVIOUS
    <2>5. p \in 0 .. 60 /\ Rounded(p) = p
      BY <1>8, <2>3, <2>4, HashedPower, Zenon
    <2>6. PICK c \in Seq(Int) : (IF known # << >> THEN Bracketed(known) ELSE Unresolved) = Bracketed(c)
      BY <1>8, <2>1, UnresolvedIs, Zenon
    <2>7. PICK g : u.line = [call |-> Bracketed(c), grid |-> g, power |-> p]
      BY <2>2, <2>4, <2>6, Zenon DEF Shape3
    <2>8. again = get_wspr_channel_symbols([call |-> Bracketed(c), grid |-> g, power |-> p])
      BY <2>7, Zenon
    <2>9. NHash(c) \in Nat /\ NHash(c) < Carry
      OBVIOUS
    <2>10. PICK after : after = u.hashtab
      OBVIOUS
    <2>11. Kept(again, after)
      BY <2>5, <2>8, <2>9, Kept3, Zenon
    <2> QED
      BY <2>10, <2>11, Zenon
  <1> QED
    BY <1>3, <1>6, <1>7, <1>8, Zenon

-----------------------------------------------------------------------------
(* What unpacking gives *)

Lines == [call : Seq(Int), grid : Seq(Int), power : Int]

(***************************************************************************)
(* A callsign in brackets comes from a message with a hash, and is what    *)
(* the table has for it.                                                   *)
(***************************************************************************)
Says(call, w, tab) ==
    At(call, 1) = Less =>
       /\ Ntype(w) < 0
       /\ \/ call = Unresolved
          \/ tab[w \div 128] # << >> /\ call = Bracketed(tab[w \div 128])

LEMMA CallSays ==
    ASSUME NEW x, NEW n \in 2 .. 6, CallOf(x, n), NEW w, NEW tab
    PROVE  Says(x, w, tab)
  <1>1. 1 \in 1 .. n
    OBVIOUS
  <1>2. Len(x) = n /\ x[1] \in 0 .. 35
    BY <1>1 DEF CallOf
  <1>3. At(x, 1) # Less
    <2>1. 1 \in 1 .. Len(x) /\ x[1] # Less
      <3>1. \A c \in 0 .. 35 : c # Less
        BY DEF Less
      <3> QED
        BY <1>1, <1>2, <3>1, Zenon
    <2> QED
      BY <2>1, Zenon DEF At
  <1> QED
    BY <1>3, Zenon DEF Says

(***************************************************************************)
(* A prefixed or suffixed callsign is text that starts with no bracket.    *)
(***************************************************************************)
Unbracketed(call) == call \in Seq(Int) /\ At(call, 1) # Less

LEMMA SlashedFirst ==
    ASSUME NEW w, NEW h, NEW k \in Nat, NEW r, NEW l \in Nat, Slashed(w, h, k, r, l)
    PROVE  Unbracketed(w)
  <1>1. At(w, 1) # Less
    BY SlashParts, Zenon
  <1>2. w \in Seq(Int)
    BY DEF Slashed, Text
  <1> QED
    BY <1>1, <1>2, Zenon DEF Unbracketed

LEMMA AffixedText ==
    ASSUME NEW v \in Nat, NEW x, NEW n \in 2 .. 6, CallOf(x, n), unpackpfx(v, x) # << >>
    PROVE  Unbracketed(unpackpfx(v, x))
  <1>1. CASE v < PrefixValues
    <2>1. PICK q \in Nat, a, b, c \in 0 .. 36, k \in 0 .. 3 : PrefixText(v, x, n, q, a, b, c, k)
      BY <1>1, PrefixedText, Zenon
    <2>2. Slashed(unpackpfx(v, x), Head3(a, b, c), k, x, n)
      BY <2>1, Zenon DEF PrefixText
    <2>3. k \in Nat /\ n \in Nat
      OBVIOUS
    <2> QED
      BY <2>2, <2>3, SlashedFirst, Zenon
  <1>2. CASE v >= PrefixValues
    <2>1. PICK l \in 1 .. 2 : \E r : SuffixText(v, x, n, r, l)
      BY <1>2, SuffixedText, Zenon
    <2>2. PICK r : Slashed(unpackpfx(v, x), x, n, r, l)
      BY <2>1, Zenon DEF SuffixText
    <2>3. l \in Nat /\ n \in Nat
      OBVIOUS
    <2> QED
      BY <2>2, <2>3, SlashedFirst, Zenon
  <1> QED
    BY <1>1, <1>2, PrefixLimits

LEMMA FirstFive ==
    ASSUME NEW z \in Seq(Int), Len(z) = 5
    PROVE  CString(z) \in Seq(Int)
  <1>1. \E k \in 0 .. 5 : (\A i \in 1 .. k : z[i] # Space) /\ (k < 5 => z[k + 1] = Space)
    <2>1. CASE z[1] = Space
      BY <2>1
    <2>2. CASE z[1] # Space /\ z[2] = Space
      BY <2>2
    <2>3. CASE z[1] # Space /\ z[2] # Space /\ z[3] = Space
      BY <2>3
    <2>4. CASE z[1] # Space /\ z[2] # Space /\ z[3] # Space /\ z[4] = Space
      BY <2>4
    <2>5. CASE z[1] # Space /\ z[2] # Space /\ z[3] # Space /\ z[4] # Space /\ z[5] = Space
      BY <2>5
    <2>6. CASE z[1] # Space /\ z[2] # Space /\ z[3] # Space /\ z[4] # Space /\ z[5] # Space
      BY <2>6
    <2> QED
      BY <2>1, <2>2, <2>3, <2>4, <2>5, <2>6
  <1>2. PICK k \in 0 .. 5 : (\A i \in 1 .. k : z[i] # Space) /\ (k < 5 => z[k + 1] = Space)
    BY <1>1
  <1>3. 5 \in Nat
    OBVIOUS
  <1> QED
    BY <1>2, <1>3, CStringIs, Zenon

(***************************************************************************)
(* Parts of lines are text.                                                *)
(***************************************************************************)
LEMMA GridText ==
    ASSUME NEW w \in Nat
    PROVE  unpackgrid(w) \in Seq(Int)
  <1>1. PICK g \in Nat : g = w \div 128
    OBVIOUS
  <1>2. PICK lon \in Int, lat \in Nat : lon = 179 - g \div 180 /\ lat = g % 180
    OBVIOUS
  <1>3. unpackgrid(w) = IF g >= GridValues THEN << >>
                        ELSE <<10 + lon \div 10, 10 + lat \div 10, lon % 10, lat % 10>>
    BY <1>1, <1>2, Zenon DEF unpackgrid
  <1>4. PICK p \in Int, q \in Int, r \in Int, s \in Int :
          p = 10 + lon \div 10 /\ q = 10 + lat \div 10 /\ r = lon % 10 /\ s = lat % 10
    <2>1. \A n \in Int : n \div 10 \in Int /\ n % 10 \in Int
      OBVIOUS
    <2> QED
      BY <1>2, <2>1
  <1>5. unpackgrid(w) = << >> \/ unpackgrid(w) = <<p, q, r, s>>
    BY <1>3, <1>4, Zenon
  <1>6. << >> \in Seq(Int) /\ <<p, q, r, s>> \in Seq(Int)
    OBVIOUS
  <1> QED
    BY <1>5, <1>6, Zenon

LEMMA LocatorText ==
    ASSUME NEW v \in Nat, v < CallValues
    PROVE  <<unpackcall(v)[6]>> \o CString(SubSeq(unpackcall(v), 1, 5)) \in Seq(Int)
  <1>1. PICK y : y = unpackcall(v)
    OBVIOUS
  <1>2. PICK m \in 2 .. 3 : CallBuffer(y, m)
    BY <1>1, UnpackedBuffer
  <1>3. Text(y, 6) /\ y[6] \in Int
    <2>1. \A i \in 1 .. 6 : y[i] \in 0 .. 36
      BY <1>2, Zenon DEF CallBuffer
    <2>2. 6 \in 1 .. 6 /\ 6 \in Nat
      OBVIOUS
    <2>3. y[6] \in Int
      BY <2>1, <2>2
    <2> QED
      BY <1>2, <2>2, <2>3, Zenon DEF CallBuffer, Text
  <1>4. PICK z : z = SubSeq(y, 1, 5)
    OBVIOUS
  <1>5. PartOf(z, y, 1, 5)
    <2>1. 6 \in Nat /\ 5 \in 0 .. 6 /\ 1 \in 1 .. 5 + 1
      OBVIOUS
    <2> QED
      BY <1>3, <1>4, <2>1, PartText, Zenon
  <1>6. z \in Seq(Int) /\ Len(z) = 5
    BY <1>5 DEF PartOf, Text
  <1>7. PICK s : s = CString(z)
    OBVIOUS
  <1>8. s \in Seq(Int)
    BY <1>6, <1>7, FirstFive
  <1>9. <<y[6]>> \o s \in Seq(Int)
    BY <1>3, <1>8
  <1> QED
    BY <1>1, <1>4, <1>7, <1>9

LEMMA BracketedText ==
    ASSUME NEW c \in Seq(Int)
    PROVE  Bracketed(c) \in Seq(Int)
  BY DEF Bracketed, Less, Greater

LEMMA NtypeInt ==
    ASSUME NEW w \in Nat
    PROVE  Ntype(w) \in Int /\ -(Ntype(w) + 1) \in Int
  BY DEF Ntype

LEMMA BlankIsLine == Blank \in Lines
  BY DEF Blank, Lines

LineOn(line, call) == line \in Lines /\ line.call = call

LEMMA IsLine ==
    ASSUME NEW call \in Seq(Int), NEW grid \in Seq(Int), NEW power \in Int,
           NEW line, line = [call |-> call, grid |-> grid, power |-> power]
    PROVE  LineOn(line, call)
  BY DEF Lines, LineOn

(***************************************************************************)
(* What unpacking may give: a line, the callsign in it for the table, and  *)
(* a callsign in brackets only from the table.                             *)
(***************************************************************************)
After(u, tab) ==
    \/ u.hashtab = tab
    \/ u.line.call \in Seq(Int) /\ u.hashtab = Heard(tab, u.line.call)

Gives(u, n1, w, tab) ==
    /\ u.line \in Lines /\ After(u, tab)
    /\ ~u.noprint => n1 < CallValues /\ Says(u.line.call, w, tab)

LEMMA BlankSays ==
    ASSUME NEW w, NEW tab
    PROVE  Says(Blank.call, w, tab)
  BY DEF Blank, Says, At, NUL, Less

LEMMA UnbracketedSays ==
    ASSUME NEW call, Unbracketed(call), NEW w, NEW tab
    PROVE  call \in Seq(Int) /\ Says(call, w, tab)
  BY Zenon DEF Unbracketed, Says

LEMMA UnpkGives ==
    ASSUME NEW n1 \in Nat, NEW w \in Nat, NEW tab,
           Ntype(w) < 0 => tab[w \div 128] \in Seq(Int)
    PROVE  Gives(unpk_(n1, w, tab), n1, w, tab)
  <1>1. PICK u, x : u = unpk_(n1, w, tab) /\ x = CString(unpackcall(n1))
    OBVIOUS
  <1>2. Kinds(u, n1, w, tab)
    BY <1>1, UnpkIs, Zenon
  <1>3. CASE u = Unpacked(TRUE, Blank, tab)
    <2>1. u.noprint /\ u.line = Blank /\ u.hashtab = tab
      BY <1>3 DEF Unpacked
    <2> QED
      BY <1>1, <2>1, BlankIsLine, Zenon DEF Gives, After
  <1>4. CASE n1 < CallValues /\ u = Unpacked(FALSE, Blank, tab)
    <2>1. u.line = Blank /\ u.hashtab = tab
      BY <1>4 DEF Unpacked
    <2>2. Says(u.line.call, w, tab)
      BY <2>1, BlankSays, Zenon
    <2> QED
      BY <1>1, <1>4, <2>1, <2>2, BlankIsLine, Zenon DEF Gives, After
  <1>5. ASSUME n1 < CallValues
        PROVE  \E n \in 2 .. 6 : CallOf(x, n) /\ x \in Seq(Int)
    BY <1>1, <1>5, PayloadCall, Zenon DEF CallOf
  <1>6. CASE /\ n1 < CallValues
             /\ u = unpk_type1(x, unpackgrid(w), Ntype(w), tab)
    <2>1. Shape1(u, x, unpackgrid(w), Ntype(w), tab)
      BY <1>6, Shaped1, Zenon
    <2>2. PICK n \in 2 .. 6 : CallOf(x, n) /\ x \in Seq(Int)
      BY <1>5, <1>6, Zenon
    <2>3. PICK g \in Seq(Int), tx \in Int : g = unpackgrid(w) /\ tx = Ntype(w)
      BY GridText, NtypeInt, Zenon
    <2>4. u.line = [call |-> x, grid |-> g, power |-> tx] /\ u.hashtab = Heard(tab, x)
      BY <2>1, <2>3, Zenon DEF Shape1
    <2>5. u.line \in Lines /\ u.line.call = x
      <3>1. PICK line : line = u.line
        OBVIOUS
      <3>2. LineOn(line, x)
        BY <2>2, <2>3, <2>4, <3>1, IsLine, Zenon
      <3> QED
        BY <3>1, <3>2, Zenon DEF LineOn
    <2>6. Says(x, w, tab)
      BY <2>2, CallSays, Zenon
    <2> QED
      BY <1>1, <1>6, <2>2, <2>4, <2>5, <2>6, Zenon DEF Gives, After
  <1>7. CASE /\ n1 < CallValues /\ w \div 128 < GridValues
             /\ Ntype(w) \in 0 .. 62 /\ ~PowerDigit(Ntype(w))
             /\ u = unpk_type2(x, w, Ntype(w), tab)
    <2>1. PICK n \in 2 .. 6 : CallOf(x, n) /\ x \in Seq(Int)
      BY <1>5, <1>7, Zenon
    <2>2. PICK v, p : v = Nprefix(w) /\ p = Power2(w)
      OBVIOUS
    <2>3. p \in 0 .. 60 /\ v \in Nat
      BY <1>7, <2>2, Parts2, Zenon
    <2>4. p \in Int
      BY <2>3
    <2>5. PICK full, line : full = unpackpfx(v, x) /\ line = LineOf(v, x, p)
      OBVIOUS
    <2>6. u = IF full = << >> THEN Unpacked(TRUE, Blank, tab)
              ELSE Unpacked(FALSE, line, Heard(tab, full))
      BY <1>7, <2>2, <2>5, Unpacked2, Zenon
    <2>7. CASE full # << >>
      <3>1. Unbracketed(full)
        BY <2>1, <2>3, <2>5, <2>7, AffixedText, Zenon
      <3>2. full \in Seq(Int) /\ Says(full, w, tab)
        BY <3>1, UnbracketedSays, Zenon
      <3>3. u.line = line /\ u.hashtab = Heard(tab, full)
        <4>1. u = Unpacked(FALSE, line, Heard(tab, full))
          BY <2>6, <2>7, Zenon
        <4> QED
          BY <4>1, BlankLine, Zenon
      <3>4. << >> \in Seq(Int)
        OBVIOUS
      <3>5. line \in Lines /\ line.call = full
        BY <2>4, <2>5, <3>2, <3>4, IsLine, Zenon DEF LineOf, LineOn
      <3> QED
        BY <1>1, <1>7, <3>2, <3>3, <3>5, Zenon DEF Gives, After
    <2>8. CASE full = << >>
      BY <1>3, <2>6, <2>8, Zenon
    <2> QED
      BY <2>7, <2>8, Zenon
  <1>8. CASE /\ n1 < CallValues /\ Ntype(w) < 0
             /\ u = unpk_type3(unpackcall(n1), w, Ntype(w), tab)
    <2>1. PICK known \in Seq(Int) : known = tab[w \div 128]
      BY <1>8
    <2>2. PICK g \in Seq(Int), p \in Int :
             /\ g = <<unpackcall(n1)[6]>> \o CString(SubSeq(unpackcall(n1), 1, 5))
             /\ p = -(Ntype(w) + 1)
      BY <1>8, LocatorText, NtypeInt, Zenon
    <2>3. PICK call : call = IF known # << >> THEN Bracketed(known) ELSE Unresolved
      OBVIOUS
    <2>4. u.hashtab = tab /\ u.line = [call |-> call, grid |-> g, power |-> p]
      <3>1. PICK y : y = unpackcall(n1)
        OBVIOUS
      <3>2. Shape3(u, y, w, known, tab)
        BY <1>8, <2>1, <3>1, Shaped3, Zenon
      <3> QED
        BY <2>2, <2>3, <3>1, <3>2, Zenon DEF Shape3
    <2>5. call \in Seq(Int)
      BY <2>1, <2>3, BracketedText, UnresolvedIs, Zenon
    <2>6. u.line \in Lines /\ u.line.call = call
      <3>1. PICK line : line = u.line
        OBVIOUS
      <3>2. LineOn(line, call)
        BY <2>2, <2>4, <2>5, <3>1, IsLine, Zenon
      <3> QED
        BY <3>1, <3>2, Zenon DEF LineOn
    <2>7. Says(call, w, tab)
      BY <1>8, <2>1, <2>3, Zenon DEF Says
    <2> QED
      BY <1>1, <1>8, <2>4, <2>6, <2>7, Zenon DEF Gives, After
  <1> QED
    BY <1>1, <1>2, <1>3, <1>4, <1>6, <1>7, <1>8, Zenon DEF Kinds

(***************************************************************************)
(* Whatever a line is generated as is a payload.                           *)
(***************************************************************************)
LEMMA AtInt ==
    ASSUME NEW s \in Seq(Int), NEW i \in Int
    PROVE  At(s, i) \in Int
  <1>1. \A k \in 1 .. Len(s) : s[k] \in Int
    OBVIOUS
  <1>2. NUL \in Int
    BY DEF NUL
  <1> QED
    BY <1>1, <1>2, Zenon DEF At

LEMMA CodeInt ==
    ASSUME NEW s \in Seq(Int), NEW i \in Int
    PROVE  CodeOf(At(s, i)) \in Int /\ LocatorCode(At(s, i)) \in Int /\ FromZero(At(s, i)) \in Int
  <1>1. PICK ch \in Int : ch = At(s, i)
    BY AtInt
  <1>2. CodeOf(ch) \in Int /\ LocatorCode(ch) \in Int /\ FromZero(ch) \in Int
    BY DEF CodeOf, LocatorCode, FromZero, Space
  <1> QED
    BY <1>1, <1>2

LEMMA PartSeq ==
    ASSUME NEW s \in Seq(Int), NEW n \in Nat, n = Len(s), NEW j \in Nat \ {0}, NEW k \in Int, k <= n
    PROVE  SubSeq(s, j, k) \in Seq(Int)
  <1>1. ASSUME NEW i \in j .. k PROVE s[i] \in Int
    <2>1. i \in 1 .. Len(s)
      OBVIOUS
    <2> QED
      BY <2>1, ElementOfSeq, Zenon
  <1>2. j \in Int
    OBVIOUS
  <1> QED
    BY <1>1, <1>2, SubSeqProperties

LEMMA PackInt ==
    ASSUME NEW call \in Seq(Int)
    PROVE  pack_call(call) \in Int
  <1>1. PICK shift \in Int :
           shift = IF isdigit(At(call, 3)) THEN 0 ELSE IF isdigit(At(call, 2)) THEN 1 ELSE 6
    OBVIOUS
  <1>2. \A i \in 1 .. 6 : CodeOf(At(call, i - shift)) \in Int
    <2>1. \A i \in 1 .. 6 : i - shift \in Int
      OBVIOUS
    <2> QED
      BY <2>1, CodeInt, Zenon
  <1>3. PICK a, b, c, d, e, f \in Int :
           /\ a = CodeOf(At(call, 1 - shift)) /\ b = CodeOf(At(call, 2 - shift))
           /\ c = CodeOf(At(call, 3 - shift)) /\ d = CodeOf(At(call, 4 - shift))
           /\ e = CodeOf(At(call, 5 - shift)) /\ f = CodeOf(At(call, 6 - shift))
    <2>1. 1 \in 1 .. 6 /\ 2 \in 1 .. 6 /\ 3 \in 1 .. 6 /\ 4 \in 1 .. 6 /\ 5 \in 1 .. 6 /\ 6 \in 1 .. 6
      OBVIOUS
    <2> QED
      BY <1>2, <2>1, Zenon
  <1>4. pack_call(call) = IF Len(call) > 6 THEN 0
                          ELSE ((((a * 36 + b) * 10 + c) * 27 + d - 10) * 27 + e - 10) * 27 + f - 10
    BY <1>1, <1>3, Zenon DEF pack_call
  <1>5. ((((a * 36 + b) * 10 + c) * 27 + d - 10) * 27 + e - 10) * 27 + f - 10 \in Int
    OBVIOUS
  <1>6. 0 \in Int
    OBVIOUS
  <1> QED
    BY <1>4, <1>5, <1>6, Zenon

LEMMA GridInt ==
    ASSUME NEW grid \in Seq(Int), NEW power \in Int
    PROVE  pack_grid4_power(grid, power) \in Int
  <1>1. PICK a, b, c, d \in Int :
           /\ a = LocatorCode(At(grid, 1)) /\ b = LocatorCode(At(grid, 2))
           /\ c = LocatorCode(At(grid, 3)) /\ d = LocatorCode(At(grid, 4))
    <2>1. \A i \in Int : LocatorCode(At(grid, i)) \in Int
      BY CodeInt
    <2>2. 1 \in Int /\ 2 \in Int /\ 3 \in Int /\ 4 \in Int
      OBVIOUS
    <2> QED
      BY <2>1, <2>2, Zenon
  <1>2. pack_grid4_power(grid, power) =
           ((179 - 10 * a - c) * 180 + 10 * b + d) * 128 + power + 64
    BY <1>1, Zenon DEF pack_grid4_power
  <1> QED
    BY <1>2

LEMMA RoundedInt ==
    ASSUME NEW power \in Int
    PROVE  Rounded(power) \in Int
  <1>1. PICK p \in Int : p = IF power > 60 THEN 60 ELSE power
    OBVIOUS
  <1>2. PICK k \in 1 .. 10 : k = (p % 10) + 1
    OBVIOUS
  <1>3. Rounded(power) = p + <<0, -1, 1, 0, -1, 2, 1, 0, -1, 1>>[k]
    BY <1>1, <1>2, Zenon DEF Rounded
  <1> QED
    BY <1>3

AllInt(P) == P.n \in Int /\ P.m \in Int /\ P.nadd \in Int

LEMMA PackedInt ==
    ASSUME NEW n \in Int, NEW m \in Int, NEW nadd \in Int
    PROVE  AllInt(Packed(n, m, nadd))
  BY DEF Packed, AllInt

LEMMA PrefixInt ==
    ASSUME NEW call \in Seq(Int), Slash(call) \in 2 .. Len(call)
    PROVE  AllInt(pack_prefix(call))
  <1>1. PICK i1 : i1 = Slash(call) /\ i1 \in 2 .. Len(call)
    OBVIOUS
  <1>2. PICK head, rest : head = SubSeq(call, 1, i1 - 1) /\ rest = SubSeq(call, i1 + 1, Len(call))
    OBVIOUS
  <1>3. head \in Seq(Int) /\ rest \in Seq(Int)
    BY <1>1, <1>2
  <1>4. PICK k \in Nat : k = Len(head)
    BY <1>3
  <1>5. PICK a, b, c \in Int :
           /\ a = CodeOf(At(head, 1 + Len(head) - 3)) /\ b = CodeOf(At(head, 2 + Len(head) - 3))
           /\ c = CodeOf(At(head, 3 + Len(head) - 3))
    <2>1. \A i \in Int : CodeOf(At(head, i)) \in Int
      BY <1>3, CodeInt
    <2>2. 1 + k - 3 \in Int /\ 2 + k - 3 \in Int /\ 3 + k - 3 \in Int
      OBVIOUS
    <2> QED
      BY <1>4, <2>1, <2>2, Zenon
  <1>6. PICK ph, pr \in Int : ph = pack_call(head) /\ pr = pack_call(rest)
    BY <1>3, PackInt
  <1>7. PICK v \in Int : v = (a * 37 + b) * 37 + c
    OBVIOUS
  <1>8. pack_prefix(call) =
           IF Len(rest) = 1 THEN Packed(ph, PrefixValues - Carry + CodeOf(rest[1]), 1)
           ELSE IF Len(rest) = 2 THEN
                  Packed(ph, PrefixValues + 26 + 10 * FromZero(rest[1]) + FromZero(rest[2]), 1)
           ELSE PackedPrefix(pr, v)
    BY <1>1, <1>2, <1>5, <1>6, <1>7, Zenon DEF pack_prefix
  <1>9. CASE Len(rest) = 1
    <2>1. rest[1] = At(rest, 1)
      BY <1>9 DEF At
    <2>2. PICK m \in Int : m = PrefixValues - Carry + CodeOf(rest[1])
      <3>1. CodeOf(rest[1]) \in Int
        BY <1>3, <2>1, CodeInt
      <3> QED
        BY <3>1, PrefixLimits
    <2> QED
      BY <1>8, <1>9, <2>2, PackedInt
  <1>10. CASE Len(rest) = 2
    <2>1. rest[1] = At(rest, 1) /\ rest[2] = At(rest, 2)
      BY <1>10 DEF At
    <2>2. PICK m \in Int : m = PrefixValues + 26 + 10 * FromZero(rest[1]) + FromZero(rest[2])
      <3>1. FromZero(rest[1]) \in Int /\ FromZero(rest[2]) \in Int
        BY <1>3, <2>1, CodeInt
      <3> QED
        BY <3>1, PrefixLimits
    <2>3. pack_prefix(call) = Packed(ph, m, 1)
      BY <1>8, <1>10, <2>2
    <2> QED
      BY <2>3, PackedInt
  <1>11. CASE Len(rest) # 1 /\ Len(rest) # 2
    <2>1. pack_prefix(call) = PackedPrefix(pr, v)
      BY <1>8, <1>11
    <2>2. PackedPrefix(pr, v) = IF v > Carry THEN Packed(pr, v - Carry, 1) ELSE Packed(pr, v, 0)
      BY Zenon DEF PackedPrefix
    <2>3. v - Carry \in Int
      BY PrefixLimits
    <2> QED
      BY <2>1, <2>2, <2>3, PackedInt
  <1> QED
    BY <1>9, <1>10, <1>11

IsPayload(again) == again[1] \in Nat /\ again[2] \in Nat

LEMMA CutsInt ==
    ASSUME NEW n \in Int, NEW m \in Int, NEW again, again = <<n % Values28, m % Values22>>
    PROVE  IsPayload(again)
  <1>1. Values28 \in Nat \ {0} /\ Values22 \in Nat \ {0}
    BY DEF Values28, Values22
  <1>2. n % Values28 \in Nat /\ m % Values22 \in Nat
    BY <1>1
  <1> QED
    BY <1>2 DEF IsPayload

LEMMA AgainPayload ==
    ASSUME NEW line \in Lines, \A c \in Seq(Int) : NHash(c) \in Nat,
           NEW again, again = get_wspr_channel_symbols(line), again # << >>
    PROVE  IsPayload(again)
  <1>1. PICK call \in Seq(Int), grid \in Seq(Int), power \in Int :
           call = line.call /\ grid = line.grid /\ power = line.power
    BY DEF Lines
  <1>2. PICK p \in Int : p = Rounded(power)
    BY RoundedInt
  <1>3. PICK turned \in Seq(Int) :
           turned = SubSeq(grid, 2, Len(grid)) \o (IF Len(grid) = 6 THEN <<grid[1]>> ELSE << >>)
    <2>1. PICK n \in Nat : n = Len(grid)
      OBVIOUS
    <2>2. PICK later \in Seq(Int) : later = SubSeq(grid, 2, n)
      <3>1. SubSeq(grid, 2, n) \in Seq(Int)
        BY <2>1, PartSeq
      <3> QED
        BY <3>1, Zenon
    <2>3. PICK first \in Seq(Int) : first = IF n = 6 THEN <<grid[1]>> ELSE << >>
      <3>1. CASE n = 6
        <4>1. grid[1] \in Int
          <5>1. 1 \in 1 .. Len(grid)
            BY <2>1, <3>1
          <5> QED
            BY <5>1, ElementOfSeq, Zenon
        <4>2. <<grid[1]>> \in Seq(Int)
          BY <4>1
        <4> QED
          BY <3>1, <4>2, Zenon
      <3>2. CASE n # 6
        <4>1. << >> \in Seq(Int)
          OBVIOUS
        <4> QED
          BY <3>2, <4>1, Zenon
      <3> QED
        BY <3>1, <3>2
    <2>4. later \o first \in Seq(Int)
      OBVIOUS
    <2> QED
      BY <2>1, <2>2, <2>3, <2>4, Zenon
  <1>4. PICK inner \in Seq(Int) : inner = SubSeq(call, 2, Len(call) - 1)
    <2>1. PICK n \in Nat : n = Len(call)
      OBVIOUS
    <2>2. SubSeq(call, 2, n - 1) \in Seq(Int)
      BY <2>1, PartSeq
    <2> QED
      BY <2>1, <2>2, Zenon
  <1>6. PICK P : P = pack_prefix(call)
    OBVIOUS
  <1>7. \/ again = <<pack_call(call) % Values28, pack_grid4_power(grid, power) % Values22>>
        \/ again = <<pack_call(turned) % Values28,
                     (128 * NHash(inner) - (p + 1) + 64) % Values22>>
        \/ /\ Slash(call) \in 2 .. Len(call)
           /\ again = <<P.n % Values28, (128 * P.m + p + 1 + P.nadd + 64) % Values22>>
    BY <1>1, <1>2, <1>3, <1>4, <1>6, ZenonT(60) DEF get_wspr_channel_symbols
  <1>8. CASE again = <<pack_call(call) % Values28, pack_grid4_power(grid, power) % Values22>>
    BY <1>8, PackInt, GridInt, CutsInt
  <1>9. CASE again = <<pack_call(turned) % Values28,
                       (128 * NHash(inner) - (p + 1) + 64) % Values22>>
    <2>1. PICK m \in Int : m = 128 * NHash(inner) - (p + 1) + 64
      <3>1. PICK h \in Nat : h = NHash(inner)
        OBVIOUS
      <3> QED
        BY <3>1
    <2> QED
      BY <1>9, <2>1, PackInt, CutsInt
  <1>10. CASE /\ Slash(call) \in 2 .. Len(call)
              /\ again = <<P.n % Values28, (128 * P.m + p + 1 + P.nadd + 64) % Values22>>
    <2>1. P.n \in Int /\ P.m \in Int /\ P.nadd \in Int
      BY <1>6, <1>10, PrefixInt DEF AllInt
    <2>2. PICK a \in Int, b \in Int, d \in Int : a = P.n /\ b = P.m /\ d = P.nadd
      BY <2>1, Zenon
    <2>3. PICK m \in Int : m = 128 * b + p + 1 + d + 64
      OBVIOUS
    <2>4. again = <<a % Values28, m % Values22>>
      BY <1>10, <2>2, <2>3, Zenon
    <2> QED
      BY <2>4, CutsInt, Zenon
  <1> QED
    BY <1>7, <1>8, <1>9, <1>10

-----------------------------------------------------------------------------
(* The hash table *)

(***************************************************************************)
(* The hashes that callsigns are vouched for under (Vouched), as pairs.    *)
(***************************************************************************)
Known == spelled \cup {m[2] : m \in misread}

Names == {<<NHash(c), c>> : c \in Known} \cup torn

(***************************************************************************)
(* Every entry is one of the pairs.                                        *)
(***************************************************************************)
Listed(tab, names) ==
    /\ tab \in [Hashes -> Seq(Int)]
    /\ \A h \in Hashes : tab[h] # << >> => <<h, tab[h]>> \in names

LEMMA EmptyTable == \A names : Listed(NoTable, names)
  <1>1. << >> \in Seq(Int)
    OBVIOUS
  <1> QED
    BY <1>1 DEF NoTable, Listed

LEMMA ListedMore ==
    ASSUME NEW tab, NEW names, Listed(tab, names), NEW more, names \subseteq more
    PROVE  Listed(tab, more)
  BY DEF Listed

LEMMA HeardListed ==
    ASSUME NEW tab, NEW names, Listed(tab, names),
           NEW c \in Seq(Int), <<NHash(c), c>> \in names
    PROVE  Listed(Heard(tab, c), names)
  <1>1. Heard(tab, c) \in [Hashes -> Seq(Int)]
    BY DEF Listed, Heard
  <1>2. \A h \in Hashes : Heard(tab, c)[h] = IF h = NHash(c) THEN c ELSE tab[h]
    BY DEF Listed, Heard
  <1> QED
    BY <1>1, <1>2 DEF Listed

(***************************************************************************)
(* A line cut short enters what is left of it.                             *)
(***************************************************************************)
LEMMA TornListed ==
    ASSUME NEW tab, NEW names, Listed(tab, names),
           NEW h \in Hashes, NEW c \in Seq(Int), <<h, c>> \in names
    PROVE  Listed([tab EXCEPT ![h] = c], names)
  <1>1. [tab EXCEPT ![h] = c] \in [Hashes -> Seq(Int)]
    BY DEF Listed
  <1>2. \A k \in Hashes : [tab EXCEPT ![h] = c][k] = IF k = h THEN c ELSE tab[k]
    BY DEF Listed
  <1> QED
    BY <1>1, <1>2 DEF Listed

(***************************************************************************)
(* Its hash is one of the instance, and its call a string.                 *)
(***************************************************************************)
LEMMA CutIsEntry ==
    ASSUME NEW h \in Hashes, NEW call \in Seq(Int), NEW before \in Seq(Int),
           NEW cut \in CutLine(h, call, before), cut # << >>
    PROVE  cut \in Hashes \X Seq(Int)
  <1>1. \A n \in LeadingDigits(h) : n \in Hashes
    <2>1. \A g \in Hashes : g \in Nat /\ (g >= 10 => g \div 10 \in Hashes)
      BY CoreAssumption
    <2>2. PICK n0 \in Nat : n0 = h
      BY <2>1
    <2>3. PICK n1 \in Nat : n1 = n0 \div 10
      OBVIOUS
    <2>4. PICK n2 \in Nat : n2 = n1 \div 10
      OBVIOUS
    <2>5. PICK n3 \in Nat : n3 = n2 \div 10
      OBVIOUS
    <2>6. PICK n4 \in Nat : n4 = n3 \div 10
      OBVIOUS
    <2>7. h \div 100 = n2 /\ h \div 1000 = n3 /\ h \div 10000 = n4
      BY <2>2, <2>3, <2>4, <2>5, <2>6
    <2>8. /\ n1 > 0 => n0 >= 10
          /\ n2 > 0 => n1 >= 10 /\ n0 >= 10
          /\ n3 > 0 => n2 >= 10 /\ n1 >= 10 /\ n0 >= 10
          /\ n4 > 0 => n3 >= 10 /\ n2 >= 10 /\ n1 >= 10 /\ n0 >= 10
      BY <2>3, <2>4, <2>5, <2>6
    <2>9. /\ n1 > 0 => n1 \in Hashes
          /\ n2 > 0 => n2 \in Hashes
          /\ n3 > 0 => n3 \in Hashes
          /\ n4 > 0 => n4 \in Hashes
      BY <2>1, <2>2, <2>3, <2>4, <2>5, <2>6, <2>8
    <2>10. h \div 10 = n1
      BY <2>2, <2>3
    <2>11. LeadingDigits(h) = {h} \cup {n \in {n1, n2, n3, n4} : n > 0}
      BY <2>7, <2>10 DEF LeadingDigits
    <2> QED
      BY <2>9, <2>11
  <1>2. \A k \in 1 .. Len(call) : SubSeq(call, 1, k) \in Seq(Int)
    <2> SUFFICES ASSUME NEW k \in 1 .. Len(call)
                 PROVE  SubSeq(call, 1, k) \in Seq(Int)
      OBVIOUS
    <2>1. PICK n \in Nat : n = Len(call)
      OBVIOUS
    <2>2. k \in Int /\ k <= n /\ 1 \in Nat \ {0}
      BY <2>1
    <2> QED
      BY <2>1, <2>2, PartSeq, Zenon
  <1>3. CASE \E n \in LeadingDigits(h) : cut = <<n, before>>
    BY <1>1, <1>3
  <1>4. CASE \E k \in 1 .. Len(call) : cut = <<h, SubSeq(call, 1, k)>>
    <2>1. PICK start \in Seq(Int) : cut = <<h, start>>
      BY <1>2, <1>4, Zenon
    <2> QED
      BY <2>1
  <1> QED
    BY <1>3, <1>4, Zenon DEF CutLine

(***************************************************************************)
(* What a message leaves in the table is vouched for, if its callsign is.  *)
(***************************************************************************)
LEMMA AfterListed ==
    ASSUME NEW u, NEW tab, After(u, tab), NEW names, Listed(tab, names),
           u.hashtab # tab => <<NHash(u.line.call), u.line.call>> \in names
    PROVE  Listed(u.hashtab, names)
  <1>1. CASE u.hashtab = tab
    BY <1>1, Zenon
  <1>2. CASE u.hashtab # tab
    <2>1. PICK c : c = u.line.call
      OBVIOUS
    <2>2. c \in Seq(Int) /\ u.hashtab = Heard(tab, c) /\ <<NHash(c), c>> \in names
      BY <1>2, <2>1, Zenon DEF After
    <2> QED
      BY <2>2, HeardListed, Zenon
  <1> QED
    BY <1>1, <1>2

(***************************************************************************)
(* A payload of any type 1 to 3 leaves at most its callsign, also one with *)
(* a hash the table does not know of.                                      *)
(***************************************************************************)
LEMMA UnpkAfter ==
    ASSUME NEW n \in Nat, NEW w \in Nat, NEW tab, NEW v, v = unpk_(n, w, tab)
    PROVE  After(v, tab)
  <1>1. CASE v.hashtab = tab
    BY <1>1 DEF After
  <1>2. CASE v.hashtab # tab
    <2>1. PICK after : after = v.hashtab
      OBVIOUS
    <2>2. Leaves(n, w, tab, after)
      BY <2>1, UnpkLeaves, Zenon
    <2>3. Ntype(w) \in 0 .. 62
      BY <1>2, <2>1, <2>2, Zenon DEF Leaves
    <2>4. Ntype(w) < 0 => tab[w \div 128] \in Seq(Int)
      <3>1. PICK ntype : ntype = Ntype(w)
        OBVIOUS
      <3>2. ~(ntype < 0)
        BY <2>3, <3>1
      <3> QED
        BY <3>1, <3>2, Zenon
    <2> QED
      BY <2>4, UnpkGives, Zenon DEF Gives
  <1> QED
    BY <1>1, <1>2

-----------------------------------------------------------------------------
(* Messages *)

(***************************************************************************)
(* nhash gives fifteen bits.                                               *)
(***************************************************************************)
FifteenBits == \A c \in Seq(Int) : NHash(c) \in Nat /\ NHash(c) < Carry

(***************************************************************************)
(* What a payload on the air is.                                           *)
(***************************************************************************)
Sendable(payload) ==
    /\ payload[1] \in Nat
    /\ payload[2] \in Nat /\ payload[2] < Values22
    /\ Ntype(payload[2]) < 0 => payload[2] \div 128 \in Hashes

LEMMA OnAirSendable ==
    ASSUME NEW air \in Airs, NEW payload \in air
    PROVE  Sendable(payload)
  BY CoreAssumption, Zenon DEF Sendable

LEMMA PayloadGives ==
    ASSUME NEW payload, Sendable(payload), NEW tab, NEW names, Listed(tab, names),
           NEW u, u = unpk_(payload[1], payload[2], tab)
    PROVE  Gives(u, payload[1], payload[2], tab)
  <1>1. PICK n1 \in Nat, n2 \in Nat : n1 = payload[1] /\ n2 = payload[2]
    BY Zenon DEF Sendable
  <1>2. Ntype(n2) < 0 => tab[n2 \div 128] \in Seq(Int)
    <2>1. Ntype(n2) < 0 => n2 \div 128 \in Hashes
      BY <1>1, Zenon DEF Sendable
    <2> QED
      BY <2>1 DEF Listed
  <1>3. Gives(unpk_(n1, n2, tab), n1, n2, tab)
    BY <1>2, UnpkGives, Zenon
  <1> QED
    BY <1>1, <1>3, Zenon

(***************************************************************************)
(* The signal generated for subtraction: what unpacking it leaves is its   *)
(* own callsign, and nothing if the payload is generated again as one of   *)
(* the same callsign.                                                      *)
(***************************************************************************)
Subtracts(payload, tab, u, again, v) ==
    /\ u = unpk_(payload[1], payload[2], tab) /\ ~u.noprint
    /\ again = get_wspr_channel_symbols(u.line) /\ again # << >>
    /\ v = unpk_(again[1], again[2], u.hashtab)

LEMMA AgainLeaves ==
    ASSUME FifteenBits, NEW payload, Sendable(payload), NEW tab, NEW names, Listed(tab, names),
           NEW u, NEW again, NEW v, Subtracts(payload, tab, u, again, v)
    PROVE  /\ After(v, u.hashtab)
           /\ Regenerable(payload[1], payload[2]) => v.hashtab = u.hashtab
  <1>0. /\ u = unpk_(payload[1], payload[2], tab) /\ ~u.noprint
        /\ again = get_wspr_channel_symbols(u.line) /\ again # << >>
        /\ v = unpk_(again[1], again[2], u.hashtab)
    BY Zenon DEF Subtracts
  <1>1. Gives(u, payload[1], payload[2], tab)
    BY <1>0, PayloadGives, Zenon
  <1>2. PICK line \in Lines : line = u.line
    BY <1>1, Zenon DEF Gives
  <1>3. \A c \in Seq(Int) : NHash(c) \in Nat /\ NHash(c) < Carry
    BY DEF FifteenBits
  <1>4. PICK n \in Nat, w \in Nat : n = again[1] /\ w = again[2]
    <2>1. IsPayload(again)
      BY <1>0, <1>2, <1>3, AgainPayload, Zenon
    <2> QED
      BY <2>1, Zenon DEF IsPayload
  <1>5. After(v, u.hashtab)
    BY <1>0, <1>4, UnpkAfter, Zenon
  <1>6. ASSUME Regenerable(payload[1], payload[2])
        PROVE  v.hashtab = u.hashtab
    <2>1. PICK n1 \in Nat, n2 \in Nat : n1 = payload[1] /\ n2 = payload[2]
      BY Zenon DEF Sendable
    <2>2. n2 < Values22 /\ (Ntype(n2) < 0 => n2 \div 128 \in Hashes)
      BY <2>1, Zenon DEF Sendable
    <2>3. Ntype(n2) < 0 => tab[n2 \div 128] \in Seq(Int)
      BY <2>2 DEF Listed
    <2>4. Regenerable(n1, n2) /\ u = unpk_(n1, n2, tab)
      BY <1>0, <1>6, <2>1, Zenon
    <2>5. Kept(again, u.hashtab)
      BY <1>0, <1>3, <2>2, <2>3, <2>4, RegeneratesTable, Zenon
    <2> QED
      BY <1>0, <2>5, Zenon DEF Kept
  <1> QED
    BY <1>5, <1>6

(***************************************************************************)
(* What becomes of a message: the table, the histories and the spots.      *)
(***************************************************************************)
Generated(u) == options.subtraction /\ ~u.noprint

Spot(payload, u, freq) ==
    [call |-> Callsign(payload, u.line), freq |-> freq, line |-> u.line,
     hash |-> payload[2] \div 128]

Settles(payload, u, again, v, freq) ==
    /\ u = unpk_(payload[1], payload[2], hashtab)
    /\ again = IF Generated(u) THEN get_wspr_channel_symbols(u.line) ELSE payload
    /\ v = IF Generated(u) /\ ~(again = << >>)
           THEN unpk_(again[1], again[2], u.hashtab) ELSE u
    /\ hashtab' = v.hashtab
    /\ spelled' = IF u.hashtab = hashtab THEN spelled ELSE spelled \cup {u.line.call}
    /\ misread' = IF v.hashtab = u.hashtab THEN misread
                  ELSE misread \cup {<<payload, v.line.call>>}
    /\ \/ decodes' = decodes
       \/ /\ ~u.noprint /\ ~Dupe(Callsign(payload, u.line), freq)
          /\ decodes' = Append(decodes, Spot(payload, u, freq))

LEMMA DecodedSettles ==
    ASSUME Decoded
    PROVE  \E payload \in onair, freq \in Freqs : \E u, again, v :
              Settles(payload, u, again, v, freq)
  <1> DEFINE U(p) == unpk_(p[1], p[2], hashtab)
             Again(p) == IF options.subtraction /\ ~U(p).noprint
                         THEN get_wspr_channel_symbols(U(p).line) ELSE p
             V(p) == IF options.subtraction /\ ~U(p).noprint /\ ~(Again(p) = << >>)
                     THEN unpk_(Again(p)[1], Again(p)[2], U(p).hashtab) ELSE U(p)
             Prints(p, f) == /\ ~U(p).noprint /\ ~(Again(p) = << >>)
                             /\ ~Dupe(Callsign(p, U(p).line), f)
  <1>1. PICK payload \in onair, freq \in Freqs :
           /\ hashtab' = V(payload).hashtab
           /\ spelled' = IF U(payload).hashtab = hashtab THEN spelled
                         ELSE spelled \cup {U(payload).line.call}
           /\ misread' = IF V(payload).hashtab = U(payload).hashtab THEN misread
                         ELSE misread \cup {<<payload, V(payload).line.call>>}
           /\ decodes' = IF Prints(payload, freq) /\ Len(decodes) < MaxSpots
                         THEN Append(decodes,
                                     [call |-> Callsign(payload, U(payload).line),
                                      freq |-> freq, line |-> U(payload).line,
                                      hash |-> payload[2] \div 128])
                         ELSE decodes
    BY Zenon DEF Decoded
  <1>2. PICK u, again, v : u = U(payload) /\ again = Again(payload) /\ v = V(payload)
    OBVIOUS
  <1>3. again = IF Generated(u) THEN get_wspr_channel_symbols(u.line) ELSE payload
    BY <1>2, Zenon DEF Generated
  <1>4. v = IF Generated(u) /\ ~(again = << >>)
            THEN unpk_(again[1], again[2], u.hashtab) ELSE u
    BY <1>2, Zenon DEF Generated
  <1>5. u = unpk_(payload[1], payload[2], hashtab)
    BY <1>2
  <1> HIDE DEF U, Again, V
  <1>6. /\ hashtab' = v.hashtab
        /\ spelled' = IF u.hashtab = hashtab THEN spelled ELSE spelled \cup {u.line.call}
        /\ misread' = IF v.hashtab = u.hashtab THEN misread
                      ELSE misread \cup {<<payload, v.line.call>>}
    BY <1>1, <1>2, Zenon
  <1>7. decodes' = decodes \/ (~u.noprint /\ ~Dupe(Callsign(payload, u.line), freq)
                               /\ decodes' = Append(decodes, Spot(payload, u, freq)))
    BY <1>1, <1>2, Zenon DEF Spot
  <1>8. Settles(payload, u, again, v, freq)
    BY <1>3, <1>4, <1>5, <1>6, <1>7, Zenon DEF Settles
  <1> QED
    BY <1>8, Zenon

-----------------------------------------------------------------------------
(* The spots *)

Spots == [call : Seq(Int), freq : Int, line : Lines, hash : Int]

(***************************************************************************)
(* Sorting loses no spot and doubles none: the places of the spots are a   *)
(* permutation, because each spot has its own number of spots before it.   *)
(***************************************************************************)
Permutes(p, n) == p \in [1 .. n -> 1 .. n] /\ \A i, j \in 1 .. n : i # j => p[i] # p[j]

LEMMA SortedPermutes ==
    ASSUME NEW ds \in Seq(Spots), NEW n \in Nat, n = Len(ds)
    PROVE  \E p : Permutes(p, n) /\ Sorted(ds) = [k \in 1 .. n |-> ds[p[k]]]
  <1> DEFINE freq(i) == ds[i].freq
             before(i, j) == freq(i) < freq(j) \/ (freq(i) = freq(j) /\ i < j)
             Ahead(i) == {j \in 1 .. n : before(j, i)}
             rank == [i \in 1 .. n |-> Cardinality(Ahead(i))]
             place(k) == CHOOSE i \in 1 .. n : Cardinality(Ahead(i)) = k - 1
             p == [k \in 1 .. n |-> place(k)]
  <1>1. \A i \in 1 .. n : freq(i) \in Int
    <2>1. \A i \in 1 .. n : ds[i] \in Spots
      BY ElementOfSeq
    <2> QED
      BY <2>1 DEF Spots
  <1>2. \A i \in 1 .. n : ~before(i, i)
    BY <1>1
  <1>3. \A i, j, k \in 1 .. n : before(i, j) /\ before(j, k) => before(i, k)
    BY <1>1
  <1>4. \A i, j \in 1 .. n : i # j => before(i, j) \/ before(j, i)
    BY <1>1
  <1>5. IsFiniteSet(1 .. n) /\ Cardinality(1 .. n) = n
    <2>1. 1 \in Int /\ n \in Int
      OBVIOUS
    <2>2. IsFiniteSet(1 .. n) /\ Cardinality(1 .. n) = IF 1 > n THEN 0 ELSE n - 1 + 1
      BY <2>1, FS_Interval
    <2> QED
      BY <2>2
  <1>6. IsFiniteSet(0 .. n - 1) /\ Cardinality(0 .. n - 1) = n
    <2>1. 0 \in Int /\ n - 1 \in Int
      OBVIOUS
    <2>2. /\ IsFiniteSet(0 .. n - 1)
          /\ Cardinality(0 .. n - 1) = IF 0 > n - 1 THEN 0 ELSE n - 1 - 0 + 1
      BY <2>1, FS_Interval
    <2> QED
      BY <2>2
  <1> HIDE DEF freq, before
  <1>7. ASSUME NEW i \in 1 .. n
        PROVE  IsFiniteSet(Ahead(i)) /\ Cardinality(Ahead(i)) \in 0 .. n - 1
    <2>1. Ahead(i) \in SUBSET (1 .. n) /\ Ahead(i) # 1 .. n
      BY <1>2
    <2> HIDE DEF Ahead
    <2>2. /\ IsFiniteSet(Ahead(i)) /\ Cardinality(Ahead(i)) <= n
          /\ Cardinality(Ahead(i)) # n
      BY <1>5, <2>1, FS_Subset
    <2>3. Cardinality(Ahead(i)) \in Nat
      BY <2>2, FS_CardinalityType
    <2> QED
      BY <2>2, <2>3
  <1>8. ASSUME NEW i \in 1 .. n, NEW j \in 1 .. n, before(i, j)
        PROVE  Cardinality(Ahead(i)) # Cardinality(Ahead(j))
    <2>1. Ahead(i) \in SUBSET Ahead(j) /\ i \in Ahead(j) /\ i \notin Ahead(i)
      BY <1>2, <1>3, <1>8
    <2> HIDE DEF Ahead
    <2>2. IsFiniteSet(Ahead(j)) /\ Ahead(i) # Ahead(j)
      BY <1>7, <2>1
    <2> QED
      BY <2>1, <2>2, FS_Subset
  <1>9. rank \in Injection(1 .. n, 0 .. n - 1)
    <2>1. rank \in [1 .. n -> 0 .. n - 1]
      BY <1>7
    <2>2. \A i, j \in 1 .. n : rank[i] = rank[j] => i = j
      BY <1>4, <1>8
    <2> QED
      BY <2>1, <2>2 DEF Injection, IsInjective
  <1>10. rank \in Surjection(1 .. n, 0 .. n - 1)
    <2> HIDE DEF rank
    <2> QED
      BY <1>5, <1>6, <1>9, FS_Injection
  <1>11. ASSUME NEW k \in 1 .. n
         PROVE  place(k) \in 1 .. n /\ Cardinality(Ahead(place(k))) = k - 1
    <2>1. k - 1 \in 0 .. n - 1
      OBVIOUS
    <2>2. PICK i \in 1 .. n : rank[i] = k - 1
      BY <1>10, <2>1 DEF Surjection
    <2>3. Cardinality(Ahead(i)) = k - 1
      BY <2>2
    <2> HIDE DEF Ahead
    <2> QED
      BY <2>3
  <1>12. Permutes(p, n)
    <2> HIDE DEF Ahead
    <2>1. \A k \in 1 .. n : place(k) \in 1 .. n
      BY <1>11
    <2>2. \A i, j \in 1 .. n : i # j => place(i) # place(j)
      <3> SUFFICES ASSUME NEW i \in 1 .. n, NEW j \in 1 .. n, i # j
                   PROVE  place(i) # place(j)
        OBVIOUS
      <3>1. i - 1 # j - 1
        OBVIOUS
      <3>2. Cardinality(Ahead(place(i))) = i - 1 /\ Cardinality(Ahead(place(j))) = j - 1
        BY <1>11
      <3> HIDE DEF place
      <3> QED
        BY <3>1, <3>2
    <2> HIDE DEF place
    <2> QED
      BY <2>1, <2>2 DEF Permutes
  <1>13. Sorted(ds) = [k \in 1 .. n |-> ds[place(k)]]
    <2>1. DOMAIN ds = 1 .. n
      OBVIOUS
    <2> QED
      BY <2>1 DEF Sorted, before, freq
  <1>14. Sorted(ds) = [k \in 1 .. n |-> ds[p[k]]]
    <2> HIDE DEF place
    <2> QED
      BY <1>13
  <1> HIDE DEF p
  <1> QED
    BY <1>12, <1>14

(***************************************************************************)
(* Spots of one callsign are 4 Hz apart or more; a callsign in brackets is *)
(* vouched for under the hash of its message.                              *)
(***************************************************************************)
Apart(a, b) == a.call = b.call => a.freq - b.freq >= 4 \/ b.freq - a.freq >= 4

Distinct(ds) == \A i, j \in DOMAIN ds : i # j => Apart(ds[i], ds[j])

Named(spot, names) ==
    spot.call # Unresolved /\ At(spot.call, 1) = Less =>
       \E c : <<spot.hash, c>> \in names /\ spot.call = Bracketed(c)

AllNamed(ds, names) == \A i \in DOMAIN ds : Named(ds[i], names)

Sound(ds, names) == ds \in Seq(Spots) /\ Distinct(ds) /\ AllNamed(ds, names)

LEMMA NoSpots ==
    ASSUME NEW names
    PROVE  Sound(<< >>, names)
  BY DEF Sound, Distinct, AllNamed

LEMMA MoreNames ==
    ASSUME NEW ds, NEW names, Sound(ds, names), NEW more, names \subseteq more
    PROVE  Sound(ds, more)
  BY Zenon DEF Sound, AllNamed, Named

LEMMA SortedSound ==
    ASSUME NEW ds, NEW names, Sound(ds, names)
    PROVE  Sound(Sorted(ds), names)
  <1>1. ds \in Seq(Spots) /\ Distinct(ds) /\ AllNamed(ds, names)
    BY DEF Sound
  <1>2. PICK n \in Nat : n = Len(ds) /\ DOMAIN ds = 1 .. n
    BY <1>1
  <1>3. PICK p : Permutes(p, n) /\ Sorted(ds) = [k \in 1 .. n |-> ds[p[k]]]
    BY <1>1, <1>2, SortedPermutes
  <1>4. PICK after : after = Sorted(ds)
    OBVIOUS
  <1>5. \A k \in 1 .. n : p[k] \in 1 .. n
    BY <1>3 DEF Permutes
  <1>6. \A i \in 1 .. n : ds[i] \in Spots
    BY <1>1, <1>2, ElementOfSeq
  <1>7. DOMAIN after = 1 .. n /\ \A k \in 1 .. n : after[k] = ds[p[k]]
    BY <1>3, <1>4
  <1>8. after \in Seq(Spots)
    <2>1. \A k \in 1 .. n : after[k] \in Spots
      BY <1>5, <1>6, <1>7, Zenon
    <2>2. after \in [1 .. n -> Spots]
      BY <1>3, <1>4, <1>7, <2>1
    <2> QED
      BY <2>2, SeqDef
  <1>9. Distinct(after)
    <2>1. \A i, j \in 1 .. n : i # j => p[i] # p[j]
      BY <1>3 DEF Permutes
    <2>2. ASSUME NEW i \in 1 .. n, NEW j \in 1 .. n, i # j
          PROVE  Apart(after[i], after[j])
      <3>1. Apart(ds[p[i]], ds[p[j]])
        <4>1. p[i] # p[j] /\ p[i] \in 1 .. n /\ p[j] \in 1 .. n
          BY <1>5, <2>1, <2>2, Zenon
        <4> QED
          BY <1>1, <1>2, <4>1, Zenon DEF Distinct
      <3> QED
        BY <1>7, <3>1, Zenon
    <2> QED
      BY <1>7, <2>2, Zenon DEF Distinct
  <1>10. AllNamed(after, names)
    BY <1>1, <1>2, <1>5, <1>7, Zenon DEF AllNamed
  <1> QED
    BY <1>4, <1>8, <1>9, <1>10, Zenon DEF Sound

(***************************************************************************)
(* One more spot, far from those of its namesign.                          *)
(***************************************************************************)
LEMMA AppendedSound ==
    ASSUME NEW ds, NEW names, Sound(ds, names), NEW spot \in Spots, Named(spot, names),
           \A i \in DOMAIN ds : Apart(ds[i], spot) /\ Apart(spot, ds[i])
    PROVE  Sound(Append(ds, spot), names)
  <1>1. ds \in Seq(Spots) /\ Distinct(ds) /\ AllNamed(ds, names)
    BY DEF Sound
  <1>2. PICK n \in Nat : n = Len(ds) /\ DOMAIN ds = 1 .. n
    BY <1>1
  <1>3. PICK after : after = Append(ds, spot)
    OBVIOUS
  <1>4. /\ after \in Seq(Spots) /\ DOMAIN after = 1 .. n + 1
        /\ \A i \in 1 .. n : after[i] = ds[i]
        /\ after[n + 1] = spot
    BY <1>1, <1>2, <1>3, AppendProperties
  <1>5. \A i \in 1 .. n + 1 : i \in 1 .. n \/ i = n + 1
    OBVIOUS
  <1>6. Distinct(after)
    <2>1. \A i, j \in 1 .. n : i # j => Apart(after[i], after[j])
      BY <1>1, <1>2, <1>4, Zenon DEF Distinct
    <2>2. \A i \in 1 .. n : Apart(after[i], after[n + 1]) /\ Apart(after[n + 1], after[i])
      BY <1>2, <1>4, Zenon
    <2> QED
      BY <1>4, <1>5, <2>1, <2>2, Zenon DEF Distinct
  <1>7. AllNamed(after, names)
    BY <1>1, <1>2, <1>4, <1>5, Zenon DEF AllNamed
  <1> QED
    BY <1>3, <1>4, <1>6, <1>7, Zenon DEF Sound

(***************************************************************************)
(* The invariant: both tables hold what is vouched for, so that the file   *)
(* may be taken over in the next run, and so do the spots.                 *)
(***************************************************************************)
CutShape == cut_line # << >> => cut_line \in Hashes \X Seq(Int)

OnlyIrregular == \A m \in misread : ~Regenerable(m[1][1], m[1][2])

TablesSound ==
    /\ onair \in Airs
    /\ Listed(hashtab, Names) /\ Listed(hash_file, Names) /\ CutShape
    /\ ~options.usehashtable => hash_file = NoTable

CoreSound == TablesSound /\ Sound(decodes, Names) /\ OnlyIrregular

LEMMA NamesGrow ==
    ASSUME spelled \subseteq spelled', misread \subseteq misread', torn \subseteq torn'
    PROVE  Names \subseteq Names'
  <1>1. Known \subseteq Known'
    BY DEF Known
  <1> QED
    BY <1>1 DEF Names

LEMMA SameNames == UNCHANGED history => Names' = Names /\ (OnlyIrregular => OnlyIrregular')
  BY DEF history, Names, Known, OnlyIrregular

(***************************************************************************)
(* The callsign by which a message is compared.                            *)
(***************************************************************************)
LEMMA CallsignIs ==
    ASSUME NEW payload, Sendable(payload), NEW tab,
           NEW u, Gives(u, payload[1], payload[2], tab), ~u.noprint
    PROVE  /\ Callsign(payload, u.line) \in Seq(Int)
           /\ Says(Callsign(payload, u.line), payload[2], tab)
  <1>1. PICK n1 \in Nat, w \in Nat : n1 = payload[1] /\ w = payload[2]
    BY Zenon DEF Sendable
  <1>2. PICK call : call = Callsign(payload, u.line)
    OBVIOUS
  <1>3. n1 < CallValues /\ Says(u.line.call, w, tab) /\ u.line \in Lines
    BY <1>1, Zenon DEF Gives
  <1>4. call = IF u.line = Blank THEN CString(unpackcall(n1)) ELSE u.line.call
    BY <1>1, <1>2, Zenon DEF Callsign
  <1>5. CASE u.line = Blank
    <2>1. PICK n \in 2 .. 6 : CallOf(call, n)
      BY <1>3, <1>4, <1>5, PayloadCall, Zenon
    <2> QED
      BY <1>1, <1>2, <2>1, CallSays, Zenon DEF CallOf
  <1>6. CASE u.line # Blank
    <2>1. u.line.call \in Seq(Int)
      BY <1>3 DEF Lines
    <2> QED
      BY <1>1, <1>2, <1>3, <1>4, <1>6, <2>1, Zenon
  <1> QED
    BY <1>5, <1>6

(***************************************************************************)
(* The table after a message, and after the subtraction of its signal.     *)
(***************************************************************************)
LEMMA SettlesTable ==
    ASSUME FifteenBits, CoreSound, NEW payload \in onair, NEW freq, NEW u, NEW again, NEW v,
           Settles(payload, u, again, v, freq), torn' = torn
    PROVE  Names \subseteq Names' /\ Listed(hashtab', Names') /\ OnlyIrregular'
  <1>1. /\ onair \in Airs /\ Listed(hashtab, Names) /\ OnlyIrregular
    BY DEF CoreSound, TablesSound
  <1>2. Sendable(payload)
    BY <1>1, OnAirSendable
  <1>3. /\ u = unpk_(payload[1], payload[2], hashtab)
        /\ hashtab' = v.hashtab
        /\ spelled' = IF u.hashtab = hashtab THEN spelled ELSE spelled \cup {u.line.call}
        /\ misread' = IF v.hashtab = u.hashtab THEN misread
                      ELSE misread \cup {<<payload, v.line.call>>}
    BY Zenon DEF Settles
  <1>4. Names \subseteq Names'
    BY <1>3, NamesGrow
  <1>5. PICK names : names = Names'
    OBVIOUS
  <1>6. PICK tab : tab = hashtab
    OBVIOUS
  <1>7. Listed(tab, names)
    BY <1>1, <1>4, <1>5, <1>6, ListedMore, Zenon
  <1>8. After(u, tab)
    BY <1>2, <1>3, <1>6, <1>7, PayloadGives, Zenon DEF Gives
  <1>9. u.hashtab # tab => <<NHash(u.line.call), u.line.call>> \in names
    <2>1. u.hashtab # tab => u.line.call \in Known'
      BY <1>3, <1>6 DEF Known
    <2> QED
      BY <1>5, <2>1 DEF Names
  <1>10. Listed(u.hashtab, names)
    BY <1>7, <1>8, <1>9, AfterListed, Zenon
  <1>11. CASE v.hashtab = u.hashtab
    <2>1. misread' = misread
      BY <1>3, <1>11, Zenon
    <2> QED
      BY <1>1, <1>3, <1>4, <1>5, <1>10, <1>11, <2>1, Zenon DEF OnlyIrregular
  <1>12. CASE v.hashtab # u.hashtab
    <2>1. Generated(u) /\ again # << >>
      BY <1>12, Zenon DEF Settles
    <2>2. again = get_wspr_channel_symbols(u.line) /\ v = unpk_(again[1], again[2], u.hashtab)
      BY <2>1, Zenon DEF Settles
    <2>3. ~u.noprint
      BY <2>1 DEF Generated
    <2>4. u = unpk_(payload[1], payload[2], tab)
      BY <1>3, <1>6, Zenon
    <2>5. After(v, u.hashtab) /\ ~Regenerable(payload[1], payload[2])
      <3>1. Subtracts(payload, tab, u, again, v)
        BY <2>1, <2>2, <2>3, <2>4, Zenon DEF Subtracts
      <3>2. /\ After(v, u.hashtab)
            /\ Regenerable(payload[1], payload[2]) => v.hashtab = u.hashtab
        BY <1>2, <1>7, <3>1, AgainLeaves
      <3> QED
        BY <1>12, <3>2
    <2>6. misread' = misread \cup {<<payload, v.line.call>>}
      BY <1>3, <1>12, Zenon
    <2>7. <<NHash(v.line.call), v.line.call>> \in names
      <3>1. <<payload, v.line.call>>[2] = v.line.call
        OBVIOUS
      <3>2. v.line.call \in Known'
        BY <2>6, <3>1 DEF Known
      <3> QED
        BY <1>5, <3>2 DEF Names
    <2>8. Listed(v.hashtab, names)
      BY <1>10, <2>5, <2>7, AfterListed, Zenon
    <2>9. OnlyIrregular'
      <3>1. SUFFICES ASSUME NEW m \in misread' PROVE ~Regenerable(m[1][1], m[1][2])
        BY DEF OnlyIrregular
      <3>2. CASE m \in misread
        BY <1>1, <3>2 DEF OnlyIrregular
      <3>3. CASE m = <<payload, v.line.call>>
        <4>1. m[1] = payload
          BY <3>3
        <4> QED
          BY <2>5, <4>1, Zenon
      <3> QED
        BY <2>6, <3>1, <3>2, <3>3
    <2> QED
      BY <1>3, <1>4, <1>5, <2>8, <2>9, Zenon
  <1> QED
    BY <1>11, <1>12

(***************************************************************************)
(* The spot of a message that names a hash has the callsign that the table *)
(* had for it.                                                             *)
(***************************************************************************)
LEMMA SettlesSpots ==
    ASSUME CoreSound, NEW payload \in onair, NEW freq \in Freqs, NEW u, NEW again, NEW v,
           Settles(payload, u, again, v, freq)
    PROVE  Sound(decodes', Names)
  <1>1. onair \in Airs /\ Listed(hashtab, Names) /\ Sound(decodes, Names)
    BY DEF CoreSound, TablesSound
  <1>2. Sendable(payload)
    BY <1>1, OnAirSendable
  <1>3. PICK n1 \in Nat, n2 \in Nat : n1 = payload[1] /\ n2 = payload[2]
    BY <1>2, Zenon DEF Sendable
  <1>4. PICK tab, names : tab = hashtab /\ names = Names
    OBVIOUS
  <1>5. u = unpk_(payload[1], payload[2], tab)
    BY <1>4, Zenon DEF Settles
  <1>6. Gives(u, payload[1], payload[2], tab)
    BY <1>1, <1>2, <1>4, <1>5, PayloadGives, Zenon
  <1>7. CASE decodes' = decodes
    BY <1>1, <1>7, Zenon
  <1>8. CASE /\ ~u.noprint /\ ~Dupe(Callsign(payload, u.line), freq)
             /\ decodes' = Append(decodes, Spot(payload, u, freq))
    <2>1. PICK call : call = Callsign(payload, u.line)
      OBVIOUS
    <2>2. PICK spot : spot = Spot(payload, u, freq)
      OBVIOUS
    <2>3. call \in Seq(Int) /\ Says(call, n2, tab)
      BY <1>2, <1>3, <1>6, <1>8, <2>1, CallsignIs, Zenon
    <2>4. u.line \in Lines
      BY <1>6, Zenon DEF Gives
    <2>5. /\ spot \in Spots /\ spot.call = call /\ spot.freq = freq /\ freq \in Int
          /\ spot.hash = n2 \div 128
      <3>1. n2 \div 128 \in Int /\ freq \in Int
        BY CoreAssumption
      <3>2. spot = [call |-> call, freq |-> freq, line |-> u.line, hash |-> n2 \div 128]
        BY <1>3, <2>1, <2>2, Zenon DEF Spot
      <3> QED
        BY <2>3, <2>4, <3>1, <3>2 DEF Spots
    <2>6. Named(spot, names)
      <3>1. SUFFICES ASSUME call # Unresolved, At(call, 1) = Less
                     PROVE  \E c : <<n2 \div 128, c>> \in names /\ call = Bracketed(c)
        BY <2>5, Zenon DEF Named
      <3>2. PICK c : c = tab[n2 \div 128]
        OBVIOUS
      <3>3. Ntype(n2) < 0 /\ c # << >> /\ call = Bracketed(c)
        BY <2>3, <3>1, <3>2, Zenon DEF Says
      <3>4. n2 \div 128 \in Hashes
        BY <1>2, <1>3, <3>3, Zenon DEF Sendable
      <3>5. <<n2 \div 128, c>> \in names
        BY <1>1, <1>4, <3>2, <3>3, <3>4, Zenon DEF Listed
      <3> QED
        BY <3>3, <3>5
    <2>7. ASSUME NEW i \in DOMAIN decodes
          PROVE  Apart(decodes[i], spot) /\ Apart(spot, decodes[i])
      <3>1. decodes \in Seq(Spots)
        BY <1>1, Zenon DEF Sound
      <3>2. PICK e \in Spots : e = decodes[i]
        BY <3>1, ElementOfSeq
      <3>3. e.freq \in Int
        BY DEF Spots
      <3>4. ~(e.call = call /\ freq - e.freq < 4 /\ e.freq - freq < 4)
        BY <1>8, <2>1, <3>2, Zenon DEF Dupe
      <3>5. Apart(e, spot) /\ Apart(spot, e)
        BY <2>5, <3>3, <3>4 DEF Apart
      <3> QED
        BY <3>2, <3>5, Zenon
    <2>8. PICK ds : ds = decodes
      OBVIOUS
    <2>9. Sound(Append(ds, spot), names)
      BY <1>1, <1>4, <2>5, <2>6, <2>7, <2>8, AppendedSound, Zenon
    <2> QED
      BY <1>4, <1>8, <2>2, <2>8, <2>9, Zenon
  <1> QED
    BY <1>7, <1>8, Zenon DEF Settles

LEMMA DecodedSound ==
    ASSUME FifteenBits, CoreSound, Decoded
    PROVE  CoreSound'
  <1>1. PICK payload \in onair, freq \in Freqs : \E u, again, v :
           Settles(payload, u, again, v, freq)
    BY DecodedSettles, Zenon
  <1>2. PICK u, again, v : Settles(payload, u, again, v, freq)
    BY <1>1, Zenon
  <1>3. /\ torn' = torn /\ onair' = onair /\ options' = options
        /\ hash_file' = hash_file /\ cut_line' = cut_line
    BY DEF Decoded, file
  <1>4. Names \subseteq Names' /\ Listed(hashtab', Names') /\ OnlyIrregular'
    BY <1>2, <1>3, SettlesTable, Zenon
  <1>5. Sound(decodes', Names)
    BY <1>2, SettlesSpots, Zenon
  <1>6. PICK ds, names, more : ds = decodes' /\ names = Names /\ more = Names'
    OBVIOUS
  <1>7. Sound(ds, more)
    BY <1>4, <1>5, <1>6, MoreNames, Zenon
  <1>8. /\ onair \in Airs /\ Listed(hash_file, Names) /\ CutShape
        /\ ~options.usehashtable => hash_file = NoTable
    BY DEF CoreSound, TablesSound
  <1>9. Listed(hash_file, more)
    BY <1>4, <1>6, <1>8, ListedMore, Zenon
  <1>10. CutShape'
    BY <1>3, <1>8 DEF CutShape
  <1>11. TablesSound'
    BY <1>3, <1>4, <1>6, <1>8, <1>9, <1>10, Zenon DEF TablesSound
  <1> QED
    BY <1>4, <1>6, <1>7, <1>11, Zenon DEF CoreSound

(***************************************************************************)
(* The next run takes over the whole lines, and what was read of the last. *)
(***************************************************************************)
LEMMA LoadTableSound ==
    ASSUME CoreSound, LoadTable
    PROVE  CoreSound'
  <1>1. /\ onair \in Airs /\ Listed(hash_file, Names) /\ CutShape /\ OnlyIrregular
        /\ ~options.usehashtable => hash_file = NoTable
        /\ Sound(decodes, Names)
    BY DEF CoreSound, TablesSound
  <1>2. /\ onair' = onair /\ options' = options /\ hash_file' = hash_file
        /\ cut_line' = cut_line /\ decodes' = decodes
        /\ spelled' = spelled /\ misread' = misread
        /\ torn' = IF options.usehashtable /\ cut_line # << >>
                   THEN torn \cup {cut_line} ELSE torn
        /\ hashtab' = IF options.usehashtable /\ cut_line # << >>
                      THEN [hash_file EXCEPT ![cut_line[1]] = cut_line[2]]
                      ELSE IF options.usehashtable THEN hash_file ELSE NoTable
    BY DEF LoadTable, file
  <1>3. Names \subseteq Names'
    BY <1>2, NamesGrow
  <1>4. PICK names : names = Names'
    OBVIOUS
  <1>5. Listed(hash_file, names) /\ Sound(decodes, names)
    BY <1>1, <1>3, <1>4, ListedMore, MoreNames, Zenon
  <1>6. Listed(hashtab', names)
    <2>1. CASE options.usehashtable /\ cut_line # << >>
      <3>1. PICK h \in Hashes, c \in Seq(Int) : cut_line = <<h, c>>
        BY <1>1, <2>1 DEF CutShape
      <3>2. <<h, c>> \in names
        BY <1>2, <1>4, <2>1, <3>1 DEF Names
      <3>3. hashtab' = [hash_file EXCEPT ![h] = c]
        BY <1>2, <2>1, <3>1
      <3> QED
        BY <1>5, <3>2, <3>3, TornListed, Zenon
    <2>2. CASE ~(options.usehashtable /\ cut_line # << >>)
      BY <1>2, <1>5, <2>2, EmptyTable, Zenon
    <2> QED
      BY <2>1, <2>2
  <1>7. CutShape' /\ OnlyIrregular'
    BY <1>1, <1>2 DEF CutShape, OnlyIrregular
  <1> QED
    BY <1>1, <1>2, <1>4, <1>5, <1>6, <1>7, Zenon DEF CoreSound, TablesSound

(***************************************************************************)
(* The core is killed in the middle of the file it writes.                 *)
(***************************************************************************)
LEMMA DiesSavingSound ==
    ASSUME CoreSound, DiesSaving
    PROVE  CoreSound'
  <1>1. /\ onair \in Airs /\ Listed(hashtab, Names) /\ Sound(decodes, Names) /\ OnlyIrregular
    BY DEF CoreSound, TablesSound
  <1>2. /\ onair' = onair /\ options' = options /\ hashtab' = hashtab /\ decodes' = decodes
        /\ options.usehashtable /\ UNCHANGED history
    BY DEF DiesSaving
  <1>3. Names' = Names /\ OnlyIrregular'
    BY <1>1, <1>2, SameNames
  <1>4. PICK last \in Hashes :
           /\ hash_file' = [h \in Hashes |-> IF h < last THEN hashtab[h] ELSE << >>]
           /\ \E before \in {h \in Hashes : h < last /\ hashtab[h] # << >>} :
                cut_line' \in CutLine(last, hashtab[last], hashtab[before])
    BY Zenon DEF DiesSaving
  <1>5. PICK before \in Hashes : cut_line' \in CutLine(last, hashtab[last], hashtab[before])
    BY <1>4, Zenon
  <1>6. Listed(hash_file', Names)
    <2>1. << >> \in Seq(Int)
      OBVIOUS
    <2> QED
      BY <1>1, <1>4, <2>1 DEF Listed
  <1>7. CutShape'
    <2>1. SUFFICES ASSUME cut_line' # << >> PROVE cut_line' \in Hashes \X Seq(Int)
      BY DEF CutShape
    <2>2. hashtab[last] \in Seq(Int) /\ hashtab[before] \in Seq(Int)
      BY <1>1 DEF Listed
    <2> QED
      BY <1>5, <2>1, <2>2, CutIsEntry, Zenon
  <1> QED
    BY <1>1, <1>2, <1>3, <1>6, <1>7 DEF CoreSound, TablesSound

LEMMA CoreInitSound ==
    ASSUME CoreInit
    PROVE  CoreSound
  <1>1. /\ onair \in Airs /\ hashtab = NoTable /\ hash_file = NoTable /\ cut_line = << >>
        /\ decodes = << >> /\ misread = {}
    BY DEF CoreInit
  <1>2. Sound(<< >>, Names) /\ Listed(NoTable, Names)
    BY NoSpots, EmptyTable
  <1>3. CutShape /\ OnlyIrregular
    BY <1>1 DEF CutShape, OnlyIrregular
  <1> QED
    BY <1>1, <1>2, <1>3 DEF CoreSound, TablesSound

LEMMA NextRunSound ==
    ASSUME CoreSound, NextRun
    PROVE  CoreSound'
  <1>1. /\ Listed(hash_file, Names) /\ CutShape /\ OnlyIrregular
        /\ ~options.usehashtable => hash_file = NoTable
    BY DEF CoreSound, TablesSound
  <1>2. /\ onair' \in Airs /\ options' = options /\ hash_file' = hash_file
        /\ cut_line' = cut_line /\ decodes' = << >> /\ hashtab' = NoTable
        /\ IF options.usehashtable THEN UNCHANGED history
           ELSE spelled' = {} /\ misread' = {} /\ torn' = {}
    BY DEF NextRun, file
  <1>3. PICK names : names = Names'
    OBVIOUS
  <1>4. Sound(<< >>, names) /\ Listed(NoTable, names)
    BY NoSpots, EmptyTable
  <1>5. Listed(hash_file, names) /\ OnlyIrregular'
    <2>1. CASE options.usehashtable
      BY <1>1, <1>2, <1>3, <2>1, SameNames
    <2>2. CASE ~options.usehashtable
      <3>1. OnlyIrregular'
        BY <1>2, <2>2 DEF OnlyIrregular
      <3> QED
        BY <1>1, <1>4, <2>2, <3>1
    <2> QED
      BY <2>1, <2>2
  <1>6. CutShape'
    BY <1>1, <1>2 DEF CutShape
  <1> QED
    BY <1>1, <1>2, <1>3, <1>4, <1>5, <1>6 DEF CoreSound, TablesSound

LEMMA CoreNextSound ==
    ASSUME FifteenBits, CoreSound, [CoreNext]_coreVars
    PROVE  CoreSound'
  <1>1. CASE LoadTable
    BY <1>1, LoadTableSound
  <1>2. CASE Decoded
    BY <1>2, DecodedSound
  <1>3. CASE DiesSaving
    BY <1>3, DiesSavingSound
  <1>4. CASE NextRun
    BY <1>4, NextRunSound
  <1>5. /\ onair \in Airs /\ Listed(hashtab, Names) /\ Listed(hash_file, Names) /\ CutShape
        /\ ~options.usehashtable => hash_file = NoTable
        /\ Sound(decodes, Names) /\ OnlyIrregular
    BY DEF CoreSound, TablesSound
  <1>6. CASE PrintSpots
    <2>1. /\ onair' = onair /\ options' = options /\ hashtab' = hashtab /\ UNCHANGED history
          /\ decodes' = Sorted(decodes)
          /\ hash_file' = IF options.usehashtable THEN NoTable ELSE hash_file
          /\ cut_line' = IF options.usehashtable THEN << >> ELSE cut_line
      BY <1>6 DEF PrintSpots
    <2>2. Sound(Sorted(decodes), Names)
      BY <1>5, SortedSound
    <2>3. Listed(NoTable, Names)
      BY EmptyTable
    <2>4. Names' = Names /\ OnlyIrregular'
      BY <1>5, <2>1, SameNames
    <2>5. CutShape'
      BY <1>5, <2>1 DEF CutShape
    <2> QED
      BY <1>5, <2>1, <2>2, <2>3, <2>4, <2>5 DEF CoreSound, TablesSound
  <1>7. CASE SaveTable
    <2>1. /\ onair' = onair /\ options' = options /\ hashtab' = hashtab /\ UNCHANGED history
          /\ decodes' = decodes /\ cut_line' = cut_line
          /\ hash_file' = IF options.usehashtable THEN hashtab ELSE hash_file
      BY <1>7 DEF SaveTable
    <2>2. Names' = Names /\ OnlyIrregular'
      BY <1>5, <2>1, SameNames
    <2>3. CutShape'
      BY <1>5, <2>1 DEF CutShape
    <2> QED
      BY <1>5, <2>1, <2>2, <2>3 DEF CoreSound, TablesSound
  <1>8. CASE BeginPass \/ NotDecoded \/ EndPass \/ CoreDies \/ UNCHANGED coreVars
    <2>1. /\ onair' = onair /\ options' = options /\ hashtab' = hashtab /\ UNCHANGED history
          /\ decodes' = decodes /\ cut_line' = cut_line /\ hash_file' = hash_file
      BY <1>8 DEF BeginPass, NotDecoded, EndPass, CoreDies, coreVars, file
    <2>2. Names' = Names /\ OnlyIrregular'
      BY <1>5, <2>1, SameNames
    <2>3. CutShape'
      BY <1>5, <2>1 DEF CutShape
    <2> QED
      BY <1>5, <2>1, <2>2, <2>3 DEF CoreSound, TablesSound
  <1> QED
    BY <1>1, <1>2, <1>3, <1>4, <1>6, <1>7, <1>8 DEF CoreNext

(***************************************************************************)
(* Every signal that wsprd subtracts is the one it decoded                 *)
(* (SubtractsDecoded), in every frame of every run, whatever the tables    *)
(* hold by then, unless it names a hash as a line cut short by a kill did: *)
(* for any hash function of fifteen bits.                                  *)
(***************************************************************************)
THEOREM SignalsSubtracted ==
    ASSUME FifteenBits
    PROVE  CoreSpec => []SubtractsDecoded
  <1>1. CoreInit => CoreSound
    BY CoreInitSound
  <1>2. CoreSound /\ [CoreNext]_coreVars => CoreSound'
    BY CoreNextSound
  <1>3. CoreSound => SubtractsDecoded
    <2>1. SUFFICES ASSUME CoreSound, NEW payload \in onair, ~TornName(payload)
                   PROVE  PacksBack(payload[1], payload[2], hashtab)
      BY Zenon DEF SubtractsDecoded
    <2>2. onair \in Airs /\ Listed(hashtab, Names)
      BY <2>1 DEF CoreSound, TablesSound
    <2>3. Sendable(payload)
      BY <2>1, <2>2, OnAirSendable, Zenon
    <2>4. PICK n1 \in Nat, n2 \in Nat : n1 = payload[1] /\ n2 = payload[2]
      BY <2>3, Zenon DEF Sendable
    <2>5. PICK tab, h : tab = hashtab /\ h = n2 \div 128
      OBVIOUS
    <2>6. Ntype(n2) < 0 /\ tab[h] # << >> => tab[h] \in Seq(Int) /\ NHash(tab[h]) = h
      <3>1. SUFFICES ASSUME Ntype(n2) < 0, tab[h] # << >>
                     PROVE  tab[h] \in Seq(Int) /\ NHash(tab[h]) = h
        OBVIOUS
      <3>2. h \in Hashes
        BY <2>3, <2>4, <2>5, <3>1, Zenon DEF Sendable
      <3>3. tab[h] \in Seq(Int) /\ <<h, tab[h]>> \in Names
        BY <2>2, <2>5, <3>1, <3>2 DEF Listed
      <3>4. <<h, tab[h]>> \notin torn
        BY <2>1, <2>4, <2>5, <3>1, Zenon DEF TornName
      <3>5. PICK c \in Known : <<h, tab[h]>> = <<NHash(c), c>>
        BY <3>3, <3>4 DEF Names
      <3> QED
        BY <3>3, <3>5
    <2>7. n2 < Values22
      BY <2>3, <2>4, Zenon DEF Sendable
    <2>8. PacksBack(n1, n2, tab)
      BY <2>5, <2>6, <2>7, EveryPayloadPacksBack, Zenon
    <2> QED
      BY <2>4, <2>5, <2>8, Zenon
  <1> QED
    BY <1>1, <1>2, <1>3, PTL DEF CoreSpec

(***************************************************************************)
(* In every frame of every run, whatever payloads are on the air and       *)
(* wherever earlier runs were killed, the core reports a callsign once     *)
(* within 4 Hz, and puts a name to a hash only if what it has read vouches *)
(* for it; only NYN prefixes and calls like K1/03 put a name there that    *)
(* nobody sent (CoreSpotsHonest). For any hash function of fifteen bits.   *)
(***************************************************************************)
THEOREM SpotsHonest ==
    ASSUME FifteenBits
    PROVE  CoreSpec => []CoreSpotsHonest
  <1>1. CoreInit => CoreSound
    BY CoreInitSound
  <1>2. CoreSound /\ [CoreNext]_coreVars => CoreSound'
    BY CoreNextSound
  <1>3. CoreSound => CoreSpotsHonest
    <2>1. SUFFICES ASSUME Sound(decodes, Names), OnlyIrregular
                   PROVE  CoreSpotsHonest
      BY DEF CoreSound
    <2>2. decodes \in Seq(Spots) /\ Distinct(decodes) /\ AllNamed(decodes, Names)
      BY <2>1, Zenon DEF Sound
    <2>3. PICK n \in Nat : DOMAIN decodes = 1 .. n
      BY <2>2
    <2>4. ASSUME NEW i \in 1 .. n, NEW j \in 1 .. n, i < j, decodes[i].call = decodes[j].call
          PROVE  \/ decodes[i].freq - decodes[j].freq >= 4
                 \/ decodes[j].freq - decodes[i].freq >= 4
      <3>1. i # j
        BY <2>4
      <3> QED
        BY <2>2, <2>3, <2>4, <3>1, Zenon DEF Distinct, Apart
    <2>5. ASSUME NEW i \in 1 .. n, decodes[i].call # Unresolved, At(decodes[i].call, 1) = Less
          PROVE  \E c \in Known \cup {p[2] : p \in torn} :
                    decodes[i].call = Bracketed(c) /\ Vouched(decodes[i].hash, c)
      <3>1. PICK h : h = decodes[i].hash
        OBVIOUS
      <3>2. PICK c : <<h, c>> \in Names /\ decodes[i].call = Bracketed(c)
        BY <2>2, <2>3, <2>5, <3>1, Zenon DEF AllNamed, Named
      <3>3. CASE <<h, c>> \in torn
        <4>1. c \in {p[2] : p \in torn}
          <5>1. c = <<h, c>>[2]
            OBVIOUS
          <5> QED
            BY <3>3, <5>1
        <4>2. Vouched(h, c)
          BY <3>3 DEF Vouched
        <4> QED
          BY <3>1, <3>2, <4>1, <4>2, Zenon
      <3>4. CASE \E k \in Known : <<h, c>> = <<NHash(k), k>>
        <4>1. c \in Known /\ NHash(c) = h
          BY <3>4
        <4>2. Vouched(h, c)
          BY <4>1, Zenon DEF Vouched, Known
        <4> QED
          BY <3>1, <3>2, <4>1, <4>2, Zenon
      <3> QED
        BY <3>2, <3>3, <3>4 DEF Names
    <2> QED
      BY <2>1, <2>3, <2>4, <2>5, Zenon DEF CoreSpotsHonest, Known, OnlyIrregular
  <1> QED
    BY <1>1, <1>2, <1>3, PTL DEF CoreSpec

-----------------------------------------------------------------------------
(* The Fano decoder: metrics of paths *)

(***************************************************************************)
(* A set of natural numbers has a least one.                               *)
(***************************************************************************)
LEMMA LeastNatural ==
    ASSUME NEW S \in SUBSET Nat, S # {}
    PROVE  \E n \in S : \A m \in S : n <= m
<1>1. \E R : IsWellFoundedOn(R, Nat) /\ \A x, y \in Nat : y < x => <<y, x>> \in R
  <2>1. IsWellFoundedOn(OpToRel(<, Nat), Nat)
    BY NatLessThanWellFounded
  <2>2. \A x, y \in Nat : y < x => <<y, x>> \in OpToRel(<, Nat)
    BY DEF OpToRel
  <2> QED
    BY <2>1, <2>2, Zenon
<1>2. PICK R : IsWellFoundedOn(R, Nat) /\ \A x, y \in Nat : y < x => <<y, x>> \in R
  BY <1>1
<1>3. PICK x \in S : \A y \in S : ~(<<y, x>> \in R)
  BY <1>2, WFMin
<1>4. \A y \in S : ~(y < x)
  BY <1>2, <1>3, Zenon
<1> QED
  BY <1>4

(***************************************************************************)
(* The bits tried, and the metric of each branch at each node of a path.   *)
(***************************************************************************)
Paths == [Bits -> {0, 1}]

Agree(m, p, k) == \A i \in 0 .. k - 1 : m[i] = p[i]

(***************************************************************************)
(* The metric of a branch depends on the bits before it, and no others.    *)
(***************************************************************************)
IsMetric(mu) ==
    /\ \A p \in Paths, k \in Bits, b \in {0, 1} : mu[p][k][b] \in Int
    /\ \A p \in Paths, q \in Paths, k \in Bits : Agree(p, q, k) => mu[p][k] = mu[q][k]

Scored(mu, p, g, n) ==
    g[0] = 0 /\ \A k \in 0 .. n - 1 : g[k + 1] = g[k] + mu[p][k][p[k]]

IsScore(mu, p, g) == g \in [0 .. nbits -> Int] /\ Scored(mu, p, g, nbits)

LEMMA Sizes ==
    /\ nbits \in Nat /\ nbits > 0 /\ tail \in Int /\ tail > 0
    /\ delta \in Nat /\ delta > 0 /\ maxcycles \in Nat
  BY FanoAssumption DEF tail

(***************************************************************************)
(* Every path has a score.                                                 *)
(***************************************************************************)
LEMMA ScoreExists ==
    ASSUME NEW mu, IsMetric(mu), NEW p \in Paths
    PROVE  \E g : IsScore(mu, p, g)
<1>1. nbits \in Nat /\ Bits = 0 .. nbits - 1
  BY Sizes DEF Bits
<1> DEFINE P(n) == \E g \in [0 .. n -> Int] : Scored(mu, p, g, n)
           S == {n \in 0 .. nbits : ~P(n)}
<1>2. P(0)
  <2>1. [i \in 0 .. 0 |-> 0] \in [0 .. 0 -> Int]
    OBVIOUS
  <2>2. Scored(mu, p, [i \in 0 .. 0 |-> 0], 0)
    BY DEF Scored
  <2> QED
    BY <2>1, <2>2
<1>3. ASSUME NEW n \in 0 .. nbits - 1, P(n)
      PROVE  P(n + 1)
  <2>1. PICK g \in [0 .. n -> Int] : Scored(mu, p, g, n)
    BY <1>3
  <2>2. PICK x \in Int : x = mu[p][n][p[n]]
    <3>1. n \in Bits /\ p[n] \in {0, 1}
      BY <1>1 DEF Paths
    <3> QED
      BY <3>1 DEF IsMetric
  <2> DEFINE h == [i \in 0 .. n + 1 |-> IF i = n + 1 THEN g[n] + x ELSE g[i]]
  <2>3. h \in [0 .. n + 1 -> Int]
    BY <2>1
  <2>4. Scored(mu, p, h, n + 1)
    <3>1. h[0] = 0
      BY <1>1, <2>1 DEF Scored
    <3>2. ASSUME NEW k \in 0 .. (n + 1) - 1
          PROVE  h[k + 1] = h[k] + mu[p][k][p[k]]
      <4>1. CASE k = n
        BY <1>1, <2>1, <2>2, <4>1
      <4>2. CASE k # n
        <5>1. k \in 0 .. n - 1
          BY <1>1, <4>2
        <5>2. g[k + 1] = g[k] + mu[p][k][p[k]]
          BY <2>1, <5>1, Zenon DEF Scored
        <5>3. h[k + 1] = g[k + 1] /\ h[k] = g[k]
          BY <5>1
        <5> QED
          BY <5>2, <5>3, Zenon
      <4> QED
        BY <4>1, <4>2
    <3> QED
      BY <3>1, <3>2, Zenon DEF Scored
  <2> QED
    BY <2>3, <2>4, Zenon
<1> HIDE DEF P
<1>4. SUFFICES ASSUME S # {} PROVE FALSE
  <2>1. P(nbits)
    BY <1>1, <1>4
  <2> QED
    BY <2>1, Zenon DEF IsScore, P
<1>5. PICK n \in S : \A m \in S : n <= m
  <2>1. S \in SUBSET Nat
    BY <1>1
  <2> HIDE DEF S
  <2> QED
    BY <1>4, <2>1, LeastNatural
<1>6. n # 0 /\ n - 1 \in 0 .. nbits - 1 /\ n - 1 \notin S
  BY <1>1, <1>2, <1>5
<1>7. P(n - 1)
  BY <1>1, <1>6
<1>8. P((n - 1) + 1)
  BY <1>3, <1>6, <1>7
<1>9. (n - 1) + 1 = n
  BY <1>1, <1>5
<1> QED
  BY <1>5, <1>8, <1>9

(***************************************************************************)
(* Paths that agree have the same metric up to there.                      *)
(***************************************************************************)
LEMMA ScoresAgree ==
    ASSUME NEW mu, IsMetric(mu), NEW m \in Paths, NEW g, NEW n \in 0 .. nbits, Scored(mu, m, g, n),
           NEW p \in Paths, NEW h, Scored(mu, p, h, n), Agree(m, p, n), NEW k \in 0 .. n
    PROVE  g[k] = h[k]
<1>1. nbits \in Nat /\ Bits = 0 .. nbits - 1
  BY Sizes DEF Bits
<1> DEFINE S == {i \in 0 .. n : g[i] # h[i]}
<1>2. SUFFICES ASSUME S # {} PROVE FALSE
  OBVIOUS
<1>3. PICK i \in S : \A j \in S : i <= j
  <2>1. S \in SUBSET Nat
    BY <1>1
  <2> HIDE DEF S
  <2> QED
    BY <1>2, <2>1, LeastNatural
<1>4. i # 0
  BY <1>3 DEF Scored
<1>5. PICK j \in 0 .. n - 1 : i = j + 1
  <2>1. i - 1 \in 0 .. n - 1 /\ i = (i - 1) + 1
    BY <1>1, <1>3, <1>4
  <2> QED
    BY <2>1
<1>6. g[j] = h[j]
  BY <1>1, <1>3, <1>5
<1>7. mu[m][j] = mu[p][j] /\ m[j] = p[j]
  <2>1. j \in Bits
    BY <1>1
  <2>2. Agree(m, p, j) /\ m[j] = p[j]
    BY <1>1 DEF Agree
  <2> QED
    BY <2>1, <2>2 DEF IsMetric
<1>8. g[j + 1] = g[j] + mu[m][j][m[j]] /\ h[j + 1] = h[j] + mu[p][j][p[j]]
  BY Zenon DEF Scored
<1> QED
  BY <1>3, <1>5, <1>6, <1>7, <1>8

(***************************************************************************)
(* A message whose metric falls below r somewhere.                         *)
(***************************************************************************)
Dips(mu, m, r) == \E g : IsScore(mu, m, g) /\ \E j \in 0 .. nbits : g[j] < r

LEMMA DipsBelow ==
    ASSUME NEW mu, NEW m, NEW r \in Int, NEW s \in Int, Dips(mu, m, r), r <= s
    PROVE  Dips(mu, m, s)
<1>1. PICK g : IsScore(mu, m, g) /\ \E j \in 0 .. nbits : g[j] < r
  BY DEF Dips
<1>2. PICK j \in 0 .. nbits : g[j] < r
  BY <1>1
<1>3. g[j] \in Int
  BY <1>1 DEF IsScore
<1>4. g[j] < s
  BY <1>2, <1>3
<1> QED
  BY <1>1, <1>4 DEF Dips

(***************************************************************************)
(* If a message follows a path to node n and takes a branch there that the *)
(* threshold refuses, its metric falls below the threshold.                *)
(***************************************************************************)
LEMMA RefusedDips ==
    ASSUME NEW mu, IsMetric(mu), NEW m \in Paths, NEW p \in Paths, NEW n \in 0 .. nbits - 1,
           NEW g, Scored(mu, p, g, n), Agree(m, p, n), NEW r \in Int, g[n] \in Int,
           g[n] + mu[p][n][m[n]] < r
    PROVE  Dips(mu, m, r)
<1>1. nbits \in Nat /\ n \in Bits /\ n \in 0 .. nbits /\ n + 1 \in 0 .. nbits
  BY Sizes DEF Bits
<1>2. PICK h : IsScore(mu, m, h)
  BY ScoreExists
<1>3. Scored(mu, m, h, n)
  <2>1. \A k \in 0 .. n - 1 : k \in 0 .. nbits - 1
    BY <1>1
  <2> QED
    BY <1>2, <2>1 DEF IsScore, Scored
<1>4. h[n] = g[n]
  <2>1. n \in 0 .. n
    BY <1>1
  <2> QED
    BY <1>1, <1>3, <2>1, ScoresAgree
<1>5. mu[m][n] = mu[p][n]
  BY <1>1 DEF IsMetric
<1>6. h[n + 1] = h[n] + mu[m][n][m[n]]
  BY <1>2 DEF IsScore, Scored
<1>7. h[n + 1] < r
  BY <1>4, <1>5, <1>6
<1> QED
  BY <1>1, <1>2, <1>7 DEF Dips

-----------------------------------------------------------------------------
(* What has been searched *)

(***************************************************************************)
(* The thresholds are the multiples of delta.                              *)
(***************************************************************************)
Multiple(x) == \E q \in Int : x = delta * q

LEMMA Multiples ==
    /\ Multiple(0)
    /\ \A x \in Int : Multiple(x) => Multiple(x + delta) /\ Multiple(x - delta)
    /\ \A x, q \in Int : Multiple(x) => Multiple(x + delta * q)
    /\ \A x, y \in Int : Multiple(x) /\ Multiple(y) /\ x < y => x + delta <= y
<1>1. delta \in Nat /\ delta > 0
  BY Sizes
<1>2. Multiple(0)
  <2>1. 0 = delta * 0
    BY <1>1
  <2> QED
    BY <2>1 DEF Multiple
<1>3. ASSUME NEW x \in Int, NEW q \in Int, Multiple(x)
      PROVE  Multiple(x + delta * q)
  <2>1. PICK p \in Int : x = delta * p
    BY <1>3 DEF Multiple
  <2>2. x + delta * q = delta * (p + q)
    BY <1>1, <2>1, Z3
  <2> QED
    BY <2>2 DEF Multiple
<1>4. ASSUME NEW x \in Int, Multiple(x)
      PROVE  Multiple(x + delta) /\ Multiple(x - delta)
  <2>1. x + delta = x + delta * 1 /\ x - delta = x + delta * (-1)
    BY <1>1
  <2>2. Multiple(x + delta * 1) /\ Multiple(x + delta * (-1))
    BY <1>3, <1>4
  <2> QED
    BY <2>1, <2>2
<1>5. ASSUME NEW x \in Int, NEW y \in Int, Multiple(x), Multiple(y), x < y
      PROVE  x + delta <= y
  <2>1. PICK p \in Int : x = delta * p
    BY <1>5 DEF Multiple
  <2>2. PICK q \in Int : y = delta * q
    BY <1>5 DEF Multiple
  <2>3. p < q
    <3>1. SUFFICES ASSUME p >= q PROVE FALSE
      OBVIOUS
    <3>2. PICK d \in Nat : p = q + d
      <4>1. p - q \in Nat /\ p = q + (p - q)
        BY <3>1
      <4> QED
        BY <4>1
    <3>3. delta * p = delta * q + delta * d /\ delta * d >= 0
      BY <1>1, <3>2, Z3
    <3> QED
      BY <1>1, <1>5, <2>1, <2>2, <3>3
  <2>4. PICK d \in Nat : q = (p + 1) + d
    <3>1. q - (p + 1) \in Nat /\ q = (p + 1) + (q - (p + 1))
      BY <2>3
    <3> QED
      BY <3>1
  <2>5. delta * q = delta * p + delta + delta * d /\ delta * d >= 0
    BY <1>1, <2>4, Z3
  <2> QED
    BY <1>1, <2>1, <2>2, <2>5
<1> QED
  BY <1>2, <1>3, <1>4, <1>5

(***************************************************************************)
(* Every message that follows the path to node k, or follows it there and  *)
(* takes branch b, falls below r.                                          *)
(***************************************************************************)
Stuck(mu, p, k, r) == \A m \in Tree : Agree(m, p, k) => Dips(mu, m, r)

Refuted(mu, p, k, b, r) == \A m \in Tree : Agree(m, p, k) /\ m[k] = b => Dips(mu, m, r)

(***************************************************************************)
(* The better branch comes first, and in the tail there is one branch.     *)
(***************************************************************************)
InOrder(mu, p, br, k) ==
    /\ k >= tail => p[k] = 0 /\ br[k] = 0
    /\ k < tail /\ br[k] = 0 => mu[p][k][p[k]] >= mu[p][k][1 - p[k]]
    /\ k < tail /\ br[k] = 1 => mu[p][k][p[k]] <= mu[p][k][1 - p[k]]

(***************************************************************************)
(* The better branch of node k has been searched in vain with a threshold  *)
(* that neither the present one nor any node since has fallen below.       *)
(***************************************************************************)
Tried(mu, p, g, th, n, k) ==
    \E r \in Int : /\ Multiple(r) /\ r <= th
                   /\ \A j \in k .. n : r <= g[j]
                   /\ Refuted(mu, p, k, 1 - p[k], r)

(***************************************************************************)
(* The threshold the root has been left with last: no message stays above  *)
(* the next one, and no node of the path has fallen below it.              *)
(***************************************************************************)
Rooted(mu, g, th, n) ==
    \E r \in Int : /\ Multiple(r) /\ r <= th
                   /\ \A j \in 0 .. n : r <= g[j]
                   /\ r = 0 \/ \A m \in Tree : Dips(mu, m, r + delta)

SearchTyped(n, p, br, g, th) ==
    /\ n \in 0 .. nbits /\ p \in Paths /\ br \in [Bits -> {0, 1}]
    /\ g \in [0 .. nbits -> Int] /\ th \in Int /\ Multiple(th) /\ th <= g[n]

Search(mu, n, p, br, g, th) ==
    /\ SearchTyped(n, p, br, g, th)
    /\ Scored(mu, p, g, n)
    /\ \A k \in 0 .. n : k < nbits => InOrder(mu, p, br, k)
    /\ \A k \in 0 .. n : k < nbits /\ br[k] = 1 => Tried(mu, p, g, th, n, k)
    /\ Rooted(mu, g, th, n)

(***************************************************************************)
(* The parts of Search for a path that only differs behind node n.         *)
(***************************************************************************)
LEMMA SamePrefix ==
    ASSUME NEW mu, IsMetric(mu), NEW n \in 0 .. nbits - 1, NEW p \in Paths, NEW q \in Paths,
           \A i \in 0 .. n : p[i] = q[i], NEW k \in 0 .. n
    PROVE  /\ mu[q][k] = mu[p][k] /\ q[k] = p[k]
           /\ \A m : Agree(m, q, k) <=> Agree(m, p, k)
           /\ \A b, r : Refuted(mu, p, k, b, r) => Refuted(mu, q, k, b, r)
<1>1. nbits \in Nat /\ k \in Bits
  BY Sizes DEF Bits
<1>2. \A i \in 0 .. k - 1 : p[i] = q[i]
  BY <1>1
<1>3. Agree(q, p, k)
  BY <1>2 DEF Agree
<1>4. mu[q][k] = mu[p][k]
  BY <1>1, <1>3 DEF IsMetric
<1>5. \A m : Agree(m, q, k) <=> Agree(m, p, k)
  BY <1>2 DEF Agree
<1> QED
  BY <1>4, <1>5, Zenon DEF Refuted

LEMMA TreePaths == \A m \in Tree : m \in Paths /\ \A k \in Bits : m[k] \in {0, 1}
  BY DEF Tree, Paths

(***************************************************************************)
(* A look forward that finds the next node above the threshold.            *)
(***************************************************************************)
Tightened(g, ng, th, n) ==
    IF g[n] < th + delta /\ ng >= th + delta THEN th + delta * ((ng - th) \div delta) ELSE th

LEMMA TightenedBetween ==
    ASSUME NEW g, NEW n, NEW ng \in Int, NEW th \in Int, Multiple(th), th <= ng
    PROVE  LET th1 == Tightened(g, ng, th, n)
           IN  th1 \in Int /\ Multiple(th1) /\ th <= th1 /\ th1 <= ng
<1>1. delta \in Nat /\ delta > 0
  BY Sizes
<1>2. PICK q \in Nat : q = (ng - th) \div delta /\ delta * q <= ng - th /\ 0 <= delta * q
  <2>1. PICK d \in Nat : d = ng - th
    OBVIOUS
  <2>2. d \div delta \in Nat /\ delta * (d \div delta) <= d /\ 0 <= delta * (d \div delta)
    BY <1>1, Z3
  <2> QED
    BY <2>1, <2>2
<1>3. PICK e \in Int : e = delta * q
  BY <1>1
<1>4. Tightened(g, ng, th, n) \in {th, th + e}
  BY <1>2, <1>3 DEF Tightened
<1>5. Multiple(th + e)
  BY <1>3, Multiples
<1> QED
  BY <1>2, <1>3, <1>4, <1>5

(***************************************************************************)
(* What a look forward leaves behind: the metric and the threshold of the  *)
(* next node, and a path that is the same to node n and goes on in order.  *)
(***************************************************************************)
Looked(mu, n, p, g, th, ng, g1, th1) ==
    /\ ng \in Int /\ ng = g[n] + mu[p][n][p[n]] /\ ng >= th
    /\ g1 = [g EXCEPT ![n + 1] = ng] /\ th1 = Tightened(g, ng, th, n)

WentOn(mu, n, p, br, p1, br1) ==
    /\ p1 \in Paths /\ br1 \in [Bits -> {0, 1}]
    /\ \A i \in 0 .. n : p1[i] = p[i] /\ br1[i] = br[i]
    /\ n + 1 < nbits => br1[n + 1] = 0 /\ InOrder(mu, p1, br1, n + 1)

(***************************************************************************)
(* The thresholds the branches before were given up with still hold at the *)
(* next node, which is above the present one.                              *)
(***************************************************************************)
LEMMA Advances ==
    ASSUME NEW mu, IsMetric(mu), NEW n \in 0 .. nbits - 1, NEW p, NEW br, NEW g, NEW th,
           Search(mu, n, p, br, g, th),
           NEW ng, NEW g1, NEW th1, Looked(mu, n, p, g, th, ng, g1, th1),
           NEW p1, NEW br1, WentOn(mu, n, p, br, p1, br1)
    PROVE  Search(mu, n + 1, p1, br1, g1, th1)
<1>0. /\ ng \in Int /\ ng = g[n] + mu[p][n][p[n]] /\ ng >= th
      /\ g1 = [g EXCEPT ![n + 1] = ng] /\ th1 = Tightened(g, ng, th, n)
      /\ p1 \in Paths /\ br1 \in [Bits -> {0, 1}]
      /\ \A i \in 0 .. n : p1[i] = p[i] /\ br1[i] = br[i]
      /\ n + 1 < nbits => br1[n + 1] = 0 /\ InOrder(mu, p1, br1, n + 1)
  BY Zenon DEF Looked, WentOn
<1>1. nbits \in Nat /\ n \in Nat /\ n + 1 \in 0 .. nbits
  BY Sizes
<1>2. SearchTyped(n, p, br, g, th)
  BY Zenon DEF Search
<1>3. /\ p \in Paths /\ g \in [0 .. nbits -> Int] /\ th \in Int /\ Multiple(th) /\ th <= g[n]
  BY <1>2, Zenon DEF SearchTyped
<1>4. th1 \in Int /\ Multiple(th1) /\ th <= th1 /\ th1 <= ng
  BY <1>0, <1>3, TightenedBetween
<1>5. /\ g1 \in [0 .. nbits -> Int] /\ g1[n + 1] = ng
      /\ \A i \in 0 .. n : g1[i] = g[i]
  BY <1>0, <1>1, <1>3
<1>6. \A i \in 0 .. n : p[i] = p1[i]
  BY <1>0, Zenon
<1>7. SearchTyped(n + 1, p1, br1, g1, th1)
  BY <1>0, <1>1, <1>4, <1>5, Zenon DEF SearchTyped
<1>8. Scored(mu, p1, g1, n + 1)
  <2>1. g1[0] = 0
    <3>1. g[0] = 0
      BY Zenon DEF Search, Scored
    <3>2. 0 \in 0 .. n
      BY <1>1
    <3> QED
      BY <1>5, <3>1, <3>2, Zenon
  <2>2. ASSUME NEW k \in 0 .. (n + 1) - 1
        PROVE  g1[k + 1] = g1[k] + mu[p1][k][p1[k]]
    <3>1. k \in 0 .. n
      BY <1>1
    <3>2. mu[p1][k] = mu[p][k] /\ p1[k] = p[k]
      BY <1>0, <1>3, <1>6, <3>1, SamePrefix
    <3>3. CASE k = n
      BY <1>0, <1>1, <1>5, <3>2, <3>3
    <3>4. CASE k # n
      <4>1. k \in 0 .. n - 1 /\ k + 1 \in 0 .. n
        BY <1>1, <3>1, <3>4
      <4>2. g[k + 1] = g[k] + mu[p][k][p[k]]
        BY <4>1, Zenon DEF Search, Scored
      <4> QED
        BY <1>5, <3>1, <3>2, <4>1, <4>2
    <3> QED
      BY <3>3, <3>4
  <2> QED
    BY <2>1, <2>2, Zenon DEF Scored
<1>9. ASSUME NEW k \in 0 .. n + 1, k < nbits
      PROVE  InOrder(mu, p1, br1, k)
  <2>1. CASE k = n + 1
    BY <1>0, <1>9, <2>1
  <2>2. CASE k # n + 1
    <3>1. k \in 0 .. n
      BY <1>1, <2>2
    <3>2. InOrder(mu, p, br, k)
      BY <1>9, <3>1, Zenon DEF Search
    <3>3. mu[p1][k] = mu[p][k] /\ p1[k] = p[k] /\ br1[k] = br[k]
      BY <1>0, <1>3, <1>6, <3>1, SamePrefix
    <3> QED
      BY <3>2, <3>3, Zenon DEF InOrder
  <2> QED
    BY <2>1, <2>2
<1>10. ASSUME NEW k \in 0 .. n + 1, k < nbits, br1[k] = 1
       PROVE  Tried(mu, p1, g1, th1, n + 1, k)
  <2>1. k \in 0 .. n /\ br[k] = 1
    BY <1>0, <1>1, <1>10
  <2>2. PICK r \in Int : /\ Multiple(r) /\ r <= th
                         /\ \A j \in k .. n : r <= g[j]
                         /\ Refuted(mu, p, k, 1 - p[k], r)
    BY <1>10, <2>1, Zenon DEF Search, Tried
  <2>3. r <= th1
    BY <1>3, <1>4, <2>2
  <2>4. \A j \in k .. n + 1 : r <= g1[j]
    <3>1. r <= ng
      BY <1>0, <1>3, <2>2
    <3>2. \A j \in k .. n + 1 : j = n + 1 \/ (j \in k .. n /\ j \in 0 .. n)
      BY <1>1
    <3> QED
      BY <1>5, <2>2, <3>1, <3>2, Zenon
  <2>5. p1[k] = p[k] /\ Refuted(mu, p1, k, 1 - p[k], r)
    BY <1>0, <1>3, <1>6, <2>1, <2>2, SamePrefix
  <2> QED
    BY <2>2, <2>3, <2>4, <2>5, Zenon DEF Tried
<1>11. Rooted(mu, g1, th1, n + 1)
  <2>1. PICK r \in Int : /\ Multiple(r) /\ r <= th
                         /\ \A j \in 0 .. n : r <= g[j]
                         /\ r = 0 \/ \A m \in Tree : Dips(mu, m, r + delta)
    BY Zenon DEF Search, Rooted
  <2>2. r <= th1 /\ r <= ng
    BY <1>0, <1>3, <1>4, <2>1
  <2>3. \A j \in 0 .. n + 1 : r <= g1[j]
    <3>1. \A j \in 0 .. n + 1 : j = n + 1 \/ j \in 0 .. n
      BY <1>1
    <3> QED
      BY <1>5, <2>1, <2>2, <3>1, Zenon
  <2> QED
    BY <2>1, <2>2, <2>3, Zenon DEF Rooted
<1> QED
  BY <1>7, <1>8, <1>9, <1>10, <1>11, Zenon DEF Search

(***************************************************************************)
(* If the branch being tried is refused, so is every message that comes to *)
(* this node: the other branch is worse, searched in vain, or the tail's.  *)
(***************************************************************************)
LEMMA BlockedStuck ==
    ASSUME NEW mu, IsMetric(mu), NEW n \in 0 .. nbits - 1, NEW p, NEW br, NEW g, NEW th,
           Search(mu, n, p, br, g, th), g[n] + mu[p][n][p[n]] < th
    PROVE  Stuck(mu, p, n, th)
<1>1. nbits \in Nat /\ n \in Bits /\ n \in 0 .. nbits /\ n < nbits /\ n \in 0 .. n /\ tail \in Int
  BY Sizes DEF Bits
<1>2. SearchTyped(n, p, br, g, th)
  BY Zenon DEF Search
<1>3. /\ p \in Paths /\ g[n] \in Int /\ th \in Int /\ p[n] \in {0, 1} /\ br[n] \in {0, 1}
  BY <1>1, <1>2 DEF SearchTyped, Paths
<1>4. SUFFICES ASSUME NEW m \in Tree, Agree(m, p, n)
               PROVE  Dips(mu, m, th)
  BY DEF Stuck
<1>5. m \in Paths /\ m[n] \in {0, 1} /\ Scored(mu, p, g, n)
  BY <1>1, TreePaths, Zenon DEF Search
<1>6. InOrder(mu, p, br, n)
  BY <1>1, Zenon DEF Search
<1>7. CASE m[n] = p[n]
  BY <1>3, <1>4, <1>5, <1>7, RefusedDips
<1>8. CASE m[n] # p[n]
  <2>1. n < tail
    <3>1. SUFFICES ASSUME n >= tail PROVE FALSE
      BY <1>1
    <3>2. m[n] = 0 /\ p[n] = 0
      BY <1>1, <1>6, <3>1 DEF Tree, InOrder
    <3> QED
      BY <1>8, <3>2
  <2>2. m[n] = 1 - p[n]
    BY <1>3, <1>5, <1>8
  <2>3. CASE br[n] = 0
    <3>1. mu[p][n][p[n]] >= mu[p][n][m[n]]
      BY <1>6, <2>1, <2>2, <2>3, Zenon DEF InOrder
    <3>2. mu[p][n][p[n]] \in Int /\ mu[p][n][m[n]] \in Int
      BY <1>1, <1>3, <1>5, Zenon DEF IsMetric
    <3>3. g[n] + mu[p][n][m[n]] < th
      BY <1>3, <3>1, <3>2
    <3> QED
      BY <1>3, <1>4, <1>5, <3>3, RefusedDips
  <2>4. CASE br[n] = 1
    <3>1. PICK r \in Int : r <= th /\ Refuted(mu, p, n, 1 - p[n], r)
      BY <1>1, <2>4, Zenon DEF Search, Tried
    <3>2. Dips(mu, m, r)
      BY <1>4, <2>2, <3>1, Zenon DEF Refuted
    <3> QED
      BY <1>3, <3>1, <3>2, DipsBelow
  <2> QED
    BY <1>3, <2>3, <2>4
<1> QED
  BY <1>7, <1>8

(***************************************************************************)
(* The threshold falls where the decoder is stuck and cannot go back. Each *)
(* threshold that a branch of the path was searched with is below the node *)
(* before this one, so it is below the present threshold by a whole step;  *)
(* at the root, no message is above the threshold.                         *)
(***************************************************************************)
LEMMA Relaxes ==
    ASSUME NEW mu, IsMetric(mu), NEW n \in 0 .. nbits - 1, NEW p, NEW br, NEW g, NEW th,
           Search(mu, n, p, br, g, th), Stuck(mu, p, n, th),
           n # 0 => g[n - 1] < th,
           NEW th1, th1 = th - delta,
           NEW p1, p1 = [p EXCEPT ![n] = IF br[n] # 0 THEN 1 - p[n] ELSE p[n]],
           NEW br1, br1 = [br EXCEPT ![n] = 0]
    PROVE  Search(mu, n, p1, br1, g, th1)
<1>1. /\ nbits \in Nat /\ n \in Nat /\ n \in Bits /\ n \in 0 .. nbits /\ n < nbits /\ n \in 0 .. n
      /\ Bits = 0 .. nbits - 1 /\ tail \in Int /\ delta \in Nat /\ delta > 0
  BY Sizes DEF Bits
<1>2. SearchTyped(n, p, br, g, th)
  BY Zenon DEF Search
<1>3. /\ p \in Paths /\ br \in [Bits -> {0, 1}] /\ g \in [0 .. nbits -> Int]
      /\ th \in Int /\ Multiple(th) /\ th <= g[n]
      /\ p[n] \in {0, 1} /\ br[n] \in {0, 1}
  BY <1>1, <1>2 DEF SearchTyped, Paths
<1>4. /\ p1 \in Paths /\ br1 \in [Bits -> {0, 1}] /\ br1[n] = 0
      /\ p1[n] = IF br[n] # 0 THEN 1 - p[n] ELSE p[n]
      /\ \A i \in 0 .. n - 1 : p1[i] = p[i] /\ br1[i] = br[i]
  <2>1. p \in [Bits -> {0, 1}]
    BY <1>3 DEF Paths
  <2>2. p1 \in [Bits -> {0, 1}]
    BY <1>1, <1>3, <2>1
  <2> QED
    BY <1>1, <1>3, <2>1, <2>2 DEF Paths
<1>5. th1 \in Int /\ Multiple(th1) /\ th1 <= th /\ th1 <= g[n]
  <2>1. Multiple(th - delta)
    BY <1>3, Multiples
  <2> QED
    BY <1>1, <1>3, <2>1
<1>6. SearchTyped(n, p1, br1, g, th1)
  BY <1>1, <1>3, <1>4, <1>5, Zenon DEF SearchTyped
<1>7. ASSUME NEW k \in 0 .. n
      PROVE  /\ mu[p1][k] = mu[p][k]
             /\ \A m : Agree(m, p1, k) <=> Agree(m, p, k)
             /\ k # n => p1[k] = p[k] /\ br1[k] = br[k]
  <2>1. \A i \in 0 .. k - 1 : p1[i] = p[i]
    BY <1>1, <1>4
  <2>2. Agree(p1, p, k) /\ \A m : Agree(m, p1, k) <=> Agree(m, p, k)
    BY <2>1 DEF Agree
  <2>3. k \in Bits
    BY <1>1
  <2>4. k # n => k \in 0 .. n - 1
    BY <1>1
  <2>5. mu[p1][k] = mu[p][k]
    BY <1>3, <1>4, <2>2, <2>3 DEF IsMetric
  <2> QED
    BY <1>4, <2>2, <2>4, <2>5, Zenon
<1>8. Scored(mu, p1, g, n)
  <2>1. ASSUME NEW k \in 0 .. n - 1
        PROVE  g[k + 1] = g[k] + mu[p1][k][p1[k]]
    <3>1. k \in 0 .. n /\ k # n
      BY <1>1
    <3>2. g[k + 1] = g[k] + mu[p][k][p[k]]
      BY Zenon DEF Search, Scored
    <3> QED
      BY <1>7, <3>1, <3>2, Zenon
  <2>2. g[0] = 0
    BY Zenon DEF Search, Scored
  <2> QED
    BY <2>1, <2>2, Zenon DEF Scored
<1>9. ASSUME NEW k \in 0 .. n, k < nbits
      PROVE  InOrder(mu, p1, br1, k)
  <2>1. InOrder(mu, p, br, k)
    BY <1>9, Zenon DEF Search
  <2>2. CASE k = n
    <3>1. CASE br[n] = 0
      <4>1. p1[n] = p[n] /\ mu[p1][n] = mu[p][n]
        BY <1>1, <1>4, <1>7, <3>1
      <4> QED
        BY <1>4, <2>1, <2>2, <3>1, <4>1, Zenon DEF InOrder
    <3>2. CASE br[n] = 1
      <4>1. ~(n >= tail)
        BY <2>1, <2>2, <3>2 DEF InOrder
      <4>2. n < tail
        BY <1>1, <4>1
      <4>3. p1[n] = 1 - p[n] /\ 1 - p1[n] = p[n] /\ mu[p1][n] = mu[p][n]
        <5>1. p1[n] = 1 - p[n]
          BY <1>4, <3>2
        <5>2. 1 - p1[n] = p[n]
          BY <1>3, <5>1
        <5> QED
          BY <1>1, <1>7, <5>1, <5>2
      <4>4. mu[p][n][p[n]] <= mu[p][n][1 - p[n]]
        BY <2>1, <2>2, <3>2, <4>2, Zenon DEF InOrder
      <4>5. mu[p][n][p[n]] \in Int /\ mu[p][n][1 - p[n]] \in Int
        <5>1. 1 - p[n] \in {0, 1}
          BY <1>3
        <5> QED
          BY <1>1, <1>3, <5>1, Zenon DEF IsMetric
      <4>6. mu[p1][n][p1[n]] >= mu[p1][n][1 - p1[n]]
        <5>1. mu[p][n][1 - p[n]] >= mu[p][n][p[n]]
          BY <4>4, <4>5
        <5> QED
          BY <4>3, <5>1, Zenon
      <4>7. br1[n] # 1
        BY <1>4
      <4> QED
        BY <2>2, <4>1, <4>6, <4>7, Zenon DEF InOrder
    <3> QED
      BY <1>3, <3>1, <3>2
  <2>3. CASE k # n
    <3>1. mu[p1][k] = mu[p][k] /\ p1[k] = p[k] /\ br1[k] = br[k]
      BY <1>7, <2>3, Zenon
    <3> QED
      BY <2>1, <3>1, Zenon DEF InOrder
  <2> QED
    BY <2>2, <2>3
<1>10. ASSUME NEW k \in 0 .. n, k < nbits, br1[k] = 1
       PROVE  Tried(mu, p1, g, th1, n, k)
  <2>1. k # n
    BY <1>4, <1>10
  <2>2. /\ mu[p1][k] = mu[p][k] /\ p1[k] = p[k] /\ br[k] = 1
        /\ \A m : Agree(m, p1, k) <=> Agree(m, p, k)
    BY <1>7, <1>10, <2>1, Zenon
  <2>3. PICK r \in Int : /\ Multiple(r) /\ r <= th
                         /\ \A j \in k .. n : r <= g[j]
                         /\ Refuted(mu, p, k, 1 - p[k], r)
    BY <1>10, <2>2, Zenon DEF Search, Tried
  <2>4. r <= g[n - 1] /\ g[n - 1] < th /\ g[n - 1] \in Int
    BY <1>1, <1>3, <2>1, <2>3
  <2>5. r + delta <= th
    <3>1. r < th
      BY <1>3, <2>4
    <3> QED
      BY <1>3, <2>3, <3>1, Multiples
  <2>6. r <= th1
    BY <1>1, <1>3, <2>5
  <2>7. Refuted(mu, p1, k, 1 - p1[k], r)
    BY <2>2, <2>3, Zenon DEF Refuted
  <2> QED
    BY <2>3, <2>6, <2>7, Zenon DEF Tried
<1>11. Rooted(mu, g, th1, n)
  <2>1. PICK r \in Int : /\ Multiple(r) /\ r <= th
                         /\ \A j \in 0 .. n : r <= g[j]
                         /\ r = 0 \/ \A m \in Tree : Dips(mu, m, r + delta)
    BY Zenon DEF Search, Rooted
  <2>2. CASE r < th
    <3>1. r + delta <= th
      BY <1>3, <2>1, <2>2, Multiples
    <3>2. r <= th1
      BY <1>1, <1>3, <2>1, <3>1
    <3> QED
      BY <2>1, <3>2, Zenon DEF Rooted
  <2>3. CASE r = th
    <3>1. n = 0
      <4>1. SUFFICES ASSUME n # 0 PROVE FALSE
        OBVIOUS
      <4>2. n - 1 \in 0 .. n /\ g[n - 1] \in Int /\ g[n - 1] < th
        BY <1>1, <1>3, <4>1
      <4> QED
        BY <1>3, <2>1, <2>3, <4>2
    <3>2. \A j \in 0 .. n : th1 <= g[j]
      BY <1>5, <3>1
    <3>3. \A m \in Tree : Dips(mu, m, th)
      <4>1. \A m : Agree(m, p, 0)
        BY DEF Agree
      <4> QED
        BY <3>1, <4>1, Zenon DEF Stuck
    <3>4. th1 + delta = th /\ th1 <= th1
      BY <1>1, <1>3, <1>5
    <3>5. \A m \in Tree : Dips(mu, m, th1 + delta)
      BY <3>3, <3>4, Zenon
    <3> QED
      BY <1>5, <3>2, <3>4, <3>5, Zenon DEF Rooted
  <2> QED
    BY <1>3, <2>1, <2>2, <2>3
<1> QED
  BY <1>6, <1>8, <1>9, <1>10, <1>11, Zenon DEF Search

(***************************************************************************)
(* The decoder goes back a node where the branch there is the last to try: *)
(* it is stuck there, for every message that takes the branch is stuck one *)
(* node on, and the other one is worse, or was searched in vain.           *)
(***************************************************************************)
LEMMA RetreatsStuck ==
    ASSUME NEW mu, IsMetric(mu), NEW n \in 1 .. nbits, n < nbits, NEW p, NEW br, NEW g, NEW th,
           Search(mu, n, p, br, g, th), Stuck(mu, p, n, th), g[n - 1] >= th,
           n - 1 < tail => br[n - 1] = 1
    PROVE  Search(mu, n - 1, p, br, g, th) /\ Stuck(mu, p, n - 1, th)
<1>1. PICK k \in 0 .. nbits - 1 : k = n - 1 /\ n = k + 1
  BY Sizes
<1>2. /\ nbits \in Nat /\ k \in Nat /\ k \in Bits /\ k \in 0 .. nbits /\ k < nbits /\ k \in 0 .. n
      /\ Bits = 0 .. nbits - 1 /\ tail \in Int
  BY <1>1, Sizes DEF Bits
<1>3. SearchTyped(n, p, br, g, th)
  BY Zenon DEF Search
<1>4. /\ p \in Paths /\ br \in [Bits -> {0, 1}] /\ g \in [0 .. nbits -> Int]
      /\ th \in Int /\ Multiple(th) /\ th <= g[k] /\ p[k] \in {0, 1}
  BY <1>1, <1>2, <1>3 DEF SearchTyped, Paths
<1>5. SearchTyped(k, p, br, g, th)
  BY <1>2, <1>4, Zenon DEF SearchTyped
<1>6. \A j \in 0 .. k : j \in 0 .. n
  BY <1>1, <1>2
<1>7. Scored(mu, p, g, k)
  <2>1. \A j \in 0 .. k - 1 : j \in 0 .. n - 1
    BY <1>1, <1>2
  <2> QED
    BY <2>1, Zenon DEF Search, Scored
<1>8. Rooted(mu, g, th, k)
  BY <1>6, Zenon DEF Search, Rooted
<1>9. ASSUME NEW i \in 0 .. k, i < nbits, br[i] = 1
      PROVE  Tried(mu, p, g, th, k, i)
  <2>1. Tried(mu, p, g, th, n, i)
    BY <1>6, <1>9, Zenon DEF Search
  <2>2. \A j \in i .. k : j \in i .. n
    BY <1>1, <1>2
  <2> QED
    BY <2>1, <2>2, Zenon DEF Tried
<1>10. Search(mu, k, p, br, g, th)
  <2>1. \A i \in 0 .. k : i < nbits => InOrder(mu, p, br, i)
    BY <1>6, Zenon DEF Search
  <2> QED
    BY <1>5, <1>7, <1>8, <1>9, <2>1, Zenon DEF Search
<1>11. ASSUME NEW m \in Tree, Agree(m, p, k)
       PROVE  Dips(mu, m, th)
  <2>1. m[k] \in {0, 1}
    BY <1>2, TreePaths
  <2>2. CASE m[k] = p[k]
    <3>1. Agree(m, p, n)
      <4>1. \A i \in 0 .. n - 1 : i = k \/ i \in 0 .. k - 1
        BY <1>1, <1>2
      <4> QED
        BY <1>11, <2>2, <4>1, Zenon DEF Agree
    <3> QED
      BY <3>1, Zenon DEF Stuck
  <2>3. CASE m[k] # p[k]
    <3>1. k < tail
      <4>1. SUFFICES ASSUME k >= tail PROVE FALSE
        BY <1>2
      <4>2. InOrder(mu, p, br, k)
        BY <1>2, Zenon DEF Search
      <4>3. m[k] = 0 /\ p[k] = 0
        BY <1>2, <4>1, <4>2 DEF Tree, InOrder
      <4> QED
        BY <2>3, <4>3
    <3>2. br[k] = 1
      BY <1>1, <3>1
    <3>3. PICK r \in Int : r <= th /\ Refuted(mu, p, k, 1 - p[k], r)
      BY <1>2, <3>2, Zenon DEF Search, Tried
    <3>4. m[k] = 1 - p[k]
      BY <1>4, <2>1, <2>3
    <3>5. Dips(mu, m, r)
      BY <1>11, <3>3, <3>4, Zenon DEF Refuted
    <3> QED
      BY <1>4, <3>3, <3>5, DipsBelow
  <2> QED
    BY <2>2, <2>3
<1>12. Stuck(mu, p, k, th)
  BY <1>11 DEF Stuck
<1> QED
  BY <1>1, <1>10, <1>12, Zenon

(***************************************************************************)
(* The decoder goes back a node and takes the other branch there: all the  *)
(* messages that take the first fall below the threshold it was given.     *)
(***************************************************************************)
LEMMA RetreatsTurning ==
    ASSUME NEW mu, IsMetric(mu), NEW n \in 1 .. nbits, n < nbits, NEW p, NEW br, NEW g, NEW th,
           Search(mu, n, p, br, g, th), Stuck(mu, p, n, th), g[n - 1] >= th,
           n - 1 < tail, br[n - 1] # 1,
           NEW p1, p1 = [p EXCEPT ![n - 1] = 1 - p[n - 1]],
           NEW br1, br1 = [br EXCEPT ![n - 1] = 1]
    PROVE  Search(mu, n - 1, p1, br1, g, th)
<1>1. PICK k \in 0 .. nbits - 1 : k = n - 1 /\ n = k + 1
  BY Sizes
<1>2. /\ nbits \in Nat /\ k \in Nat /\ k \in Bits /\ k \in 0 .. nbits /\ k < nbits /\ k \in 0 .. n
      /\ Bits = 0 .. nbits - 1 /\ tail \in Int
  BY <1>1, Sizes DEF Bits
<1>3. SearchTyped(n, p, br, g, th)
  BY Zenon DEF Search
<1>4. /\ p \in Paths /\ br \in [Bits -> {0, 1}] /\ g \in [0 .. nbits -> Int]
      /\ th \in Int /\ Multiple(th) /\ th <= g[k] /\ p[k] \in {0, 1} /\ br[k] = 0
  BY <1>1, <1>2, <1>3 DEF SearchTyped, Paths
<1>5. p1 = [p EXCEPT ![k] = 1 - p[k]] /\ br1 = [br EXCEPT ![k] = 1] /\ k < tail
  BY <1>1
<1>6. /\ p1 \in Paths /\ br1 \in [Bits -> {0, 1}] /\ br1[k] = 1 /\ p1[k] = 1 - p[k]
      /\ \A i \in 0 .. k - 1 : p1[i] = p[i] /\ br1[i] = br[i]
  <2>1. p \in [Bits -> {0, 1}]
    BY <1>4 DEF Paths
  <2>2. p1 \in [Bits -> {0, 1}]
    BY <1>2, <1>4, <1>5, <2>1
  <2> QED
    BY <1>2, <1>4, <1>5, <2>1, <2>2 DEF Paths
<1>7. 1 - p1[k] = p[k]
  BY <1>4, <1>6
<1>8. SearchTyped(k, p1, br1, g, th)
  BY <1>2, <1>4, <1>6, Zenon DEF SearchTyped
<1>9. ASSUME NEW i \in 0 .. k
      PROVE  /\ i \in 0 .. n
             /\ mu[p1][i] = mu[p][i]
             /\ \A m : Agree(m, p1, i) <=> Agree(m, p, i)
             /\ i # k => p1[i] = p[i] /\ br1[i] = br[i]
  <2>1. \A j \in 0 .. i - 1 : p1[j] = p[j]
    BY <1>2, <1>6
  <2>2. Agree(p1, p, i) /\ \A m : Agree(m, p1, i) <=> Agree(m, p, i)
    BY <2>1 DEF Agree
  <2>3. i \in Bits /\ i \in 0 .. n
    BY <1>1, <1>2
  <2>4. i # k => i \in 0 .. k - 1
    BY <1>2
  <2>5. mu[p1][i] = mu[p][i]
    BY <1>4, <1>6, <2>2, <2>3 DEF IsMetric
  <2> QED
    BY <1>6, <2>2, <2>3, <2>4, <2>5, Zenon
<1>10. Scored(mu, p1, g, k)
  <2>1. ASSUME NEW i \in 0 .. k - 1
        PROVE  g[i + 1] = g[i] + mu[p1][i][p1[i]]
    <3>1. i \in 0 .. k /\ i # k /\ i \in 0 .. n - 1
      BY <1>1, <1>2
    <3>2. g[i + 1] = g[i] + mu[p][i][p[i]]
      BY <3>1, Zenon DEF Search, Scored
    <3> QED
      BY <1>9, <3>1, <3>2, Zenon
  <2>2. g[0] = 0
    BY Zenon DEF Search, Scored
  <2> QED
    BY <2>1, <2>2, Zenon DEF Scored
<1>11. ASSUME NEW i \in 0 .. k, i < nbits
       PROVE  InOrder(mu, p1, br1, i)
  <2>1. InOrder(mu, p, br, i)
    BY <1>9, <1>11, Zenon DEF Search
  <2>2. CASE i = k
    <3>1. mu[p][k][p[k]] >= mu[p][k][1 - p[k]]
      BY <1>4, <1>5, <2>1, <2>2, Zenon DEF InOrder
    <3>2. mu[p][k][p[k]] \in Int /\ mu[p][k][1 - p[k]] \in Int
      <4>1. 1 - p[k] \in {0, 1}
        BY <1>4
      <4> QED
        BY <1>2, <1>4, <4>1, Zenon DEF IsMetric
    <3>3. mu[p][k][1 - p[k]] <= mu[p][k][p[k]]
      BY <3>1, <3>2
    <3>4. mu[p1][k] = mu[p][k]
      BY <1>2, <1>9, <2>2
    <3>5. mu[p1][k][p1[k]] <= mu[p1][k][1 - p1[k]]
      BY <1>6, <1>7, <3>3, <3>4, Zenon
    <3>6. ~(k >= tail) /\ br1[k] # 0
      BY <1>2, <1>5, <1>6
    <3> QED
      BY <2>2, <3>5, <3>6, Zenon DEF InOrder
  <2>3. CASE i # k
    <3>1. mu[p1][i] = mu[p][i] /\ p1[i] = p[i] /\ br1[i] = br[i]
      BY <1>9, <2>3, Zenon
    <3> QED
      BY <2>1, <3>1, Zenon DEF InOrder
  <2> QED
    BY <2>2, <2>3
<1>12. ASSUME NEW i \in 0 .. k, i < nbits, br1[i] = 1
       PROVE  Tried(mu, p1, g, th, k, i)
  <2>1. CASE i = k
    <3>1. Refuted(mu, p1, k, 1 - p1[k], th)
      <4>1. ASSUME NEW m \in Tree, Agree(m, p1, k), m[k] = p[k]
            PROVE  Dips(mu, m, th)
        <5>1. Agree(m, p, k)
          BY <1>9, <2>1, <4>1, Zenon
        <5>2. \A j \in 0 .. n - 1 : j = k \/ j \in 0 .. k - 1
          BY <1>1, <1>2
        <5>3. Agree(m, p, n)
          BY <4>1, <5>1, <5>2, Zenon DEF Agree
        <5> QED
          BY <5>3, Zenon DEF Stuck
      <4> QED
        BY <1>7, <4>1, Zenon DEF Refuted
    <3>2. th <= th /\ \A j \in k .. k : th <= g[j]
      BY <1>2, <1>4
    <3> QED
      BY <1>4, <2>1, <3>1, <3>2, Zenon DEF Tried
  <2>2. CASE i # k
    <3>1. /\ mu[p1][i] = mu[p][i] /\ p1[i] = p[i] /\ br[i] = 1
          /\ \A m : Agree(m, p1, i) <=> Agree(m, p, i)
      BY <1>9, <1>12, <2>2, Zenon
    <3>2. Tried(mu, p, g, th, n, i)
      BY <1>9, <1>12, <3>1, Zenon DEF Search
    <3>3. \A j \in i .. k : j \in i .. n
      BY <1>1, <1>2
    <3> QED
      BY <3>1, <3>2, <3>3, Zenon DEF Tried, Refuted
  <2> QED
    BY <2>1, <2>2
<1>13. Rooted(mu, g, th, k)
  BY <1>9, Zenon DEF Search, Rooted
<1>14. Search(mu, k, p1, br1, g, th)
  BY <1>8, <1>10, <1>11, <1>12, <1>13, Zenon DEF Search
<1> QED
  BY <1>1, <1>14, Zenon

-----------------------------------------------------------------------------
(* What has been found *)

LEMMA Floors ==
    ASSUME NEW x \in Int, NEW q \in Int
    PROVE  /\ x \div delta \in Int
           /\ delta * q <= x => q <= x \div delta
           /\ x < delta * q + delta => x \div delta <= q
<1>1. delta \in Nat /\ delta > 0
  BY Sizes
<1>2. PICK e \in Int : e = x \div delta
  BY <1>1
<1>3. delta * e <= x /\ x < delta * e + delta
  BY <1>1, <1>2, Z3
<1>4. ASSUME NEW a \in Int, NEW b \in Int, a < b
      PROVE  delta * a + delta <= delta * b
  <2>1. PICK d \in Nat : b = (a + 1) + d
    <3>1. b - (a + 1) \in Nat /\ b = (a + 1) + (b - (a + 1))
      BY <1>4
    <3> QED
      BY <3>1
  <2>2. delta * b = delta * a + delta + delta * d /\ delta * d >= 0 /\ delta * a \in Int
    BY <1>1, <2>1, Z3
  <2> QED
    BY <1>1, <2>2
<1>5. PICK a \in Int, b \in Int : a = delta * e /\ b = delta * q
  BY <1>1
<1>6. ASSUME b <= x PROVE q <= e
  <2>1. SUFFICES ASSUME e < q PROVE FALSE
    OBVIOUS
  <2>2. a + delta <= b
    BY <1>4, <1>5, <2>1
  <2> QED
    BY <1>1, <1>3, <1>5, <1>6, <2>2
<1>7. ASSUME x < b + delta PROVE e <= q
  <2>1. SUFFICES ASSUME q < e PROVE FALSE
    OBVIOUS
  <2>2. b + delta <= a
    BY <1>4, <1>5, <2>1
  <2> QED
    BY <1>1, <1>3, <1>5, <1>7, <2>2
<1> QED
  BY <1>2, <1>5, <1>6, <1>7

(***************************************************************************)
(* At the end of the tree, no message stays a step above all the metrics   *)
(* of the path.                                                            *)
(***************************************************************************)
LEMMA Ends ==
    ASSUME NEW mu, IsMetric(mu), NEW p, NEW br, NEW g, NEW th, Search(mu, nbits, p, br, g, th),
           NEW m \in Tree, NEW h, IsScore(mu, m, h), NEW k \in 0 .. nbits
    PROVE  \E j \in 0 .. nbits : h[j] \div delta <= g[k] \div delta
<1>1. nbits \in Nat /\ delta \in Nat /\ delta > 0 /\ m \in Paths /\ 0 \in 0 .. nbits
  BY Sizes, TreePaths
<1>2. g \in [0 .. nbits -> Int] /\ h \in [0 .. nbits -> Int] /\ g[k] \in Int /\ h[0] = 0
  BY DEF Search, SearchTyped, IsScore, Scored
<1>3. PICK r \in Int : /\ Multiple(r)
                       /\ \A j \in 0 .. nbits : r <= g[j]
                       /\ r = 0 \/ \A i \in Tree : Dips(mu, i, r + delta)
  BY Zenon DEF Search, Rooted
<1>4. PICK q \in Int : r = delta * q
  BY <1>3 DEF Multiple
<1>5. q <= g[k] \div delta /\ g[k] \div delta \in Int
  BY <1>2, <1>3, <1>4, Floors
<1>6. ASSUME NEW j \in 0 .. nbits, h[j] < r + delta
      PROVE  h[j] \div delta <= g[k] \div delta
  <2>1. h[j] \in Int
    BY <1>2
  <2>2. h[j] < delta * q + delta
    BY <1>4, <1>6, Zenon
  <2>3. h[j] \div delta \in Int /\ h[j] \div delta <= q
    BY <2>1, <2>2, Floors
  <2> QED
    BY <1>5, <2>3
<1>7. CASE r = 0
  <2>1. h[0] < r + delta
    BY <1>1, <1>2, <1>7
  <2> QED
    BY <1>1, <1>6, <2>1, Zenon
<1>8. CASE r # 0
  <2>1. PICK f, j : IsScore(mu, m, f) /\ j \in 0 .. nbits /\ f[j] < r + delta
    BY <1>3, <1>8, Zenon DEF Dips
  <2>2. Agree(m, m, nbits) /\ nbits \in 0 .. nbits
    BY <1>1 DEF Agree
  <2>3. f[j] = h[j]
    BY <1>1, <2>1, <2>2, ScoresAgree DEF IsScore
  <2> QED
    BY <1>6, <2>1, <2>3, Zenon
<1> QED
  BY <1>7, <1>8

-----------------------------------------------------------------------------
(* The interleaver *)

(***************************************************************************)
(* A counter by its bits.                                                  *)
(***************************************************************************)
Binary(a, b, c, d, e, f, g, h) ==
    a + 2 * b + 4 * c + 8 * d + 16 * e + 32 * f + 64 * g + 128 * h

LEMMA HasBits ==
    ASSUME NEW i \in 0 .. 255
    PROVE  \E a, b, c, d, e, f, g, h \in {0, 1} : i = Binary(a, b, c, d, e, f, g, h)
<1>1. \A n \in Nat : \E q \in Nat, r \in {0, 1} : n = 2 * q + r /\ q <= n
  <2> TAKE n \in Nat
  <2>1. n \div 2 \in Nat /\ n % 2 \in {0, 1} /\ n = 2 * (n \div 2) + (n % 2) /\ n \div 2 <= n
    OBVIOUS
  <2> QED
    BY <2>1
<1>2. PICK q1 \in Nat, a \in {0, 1} : i = 2 * q1 + a
  <2>1. i \in Nat
    OBVIOUS
  <2> QED
    BY <1>1, <2>1, Zenon
<1>3. PICK q2 \in Nat, b \in {0, 1} : q1 = 2 * q2 + b
  BY <1>1
<1>4. PICK q3 \in Nat, c \in {0, 1} : q2 = 2 * q3 + c
  BY <1>1
<1>5. PICK q4 \in Nat, d \in {0, 1} : q3 = 2 * q4 + d
  BY <1>1
<1>6. PICK q5 \in Nat, e \in {0, 1} : q4 = 2 * q5 + e
  BY <1>1
<1>7. PICK q6 \in Nat, f \in {0, 1} : q5 = 2 * q6 + f
  BY <1>1
<1>8. PICK q7 \in Nat, g \in {0, 1} : q6 = 2 * q7 + g
  BY <1>1
<1>9. q7 \in {0, 1}
  BY <1>2, <1>3, <1>4, <1>5, <1>6, <1>7, <1>8
<1>10. i = Binary(a, b, c, d, e, f, g, q7)
  BY <1>2, <1>3, <1>4, <1>5, <1>6, <1>7, <1>8, <1>9 DEF Binary
<1> WITNESS a \in {0, 1}, b \in {0, 1}, c \in {0, 1}, d \in {0, 1},
            e \in {0, 1}, f \in {0, 1}, g \in {0, 1}, q7 \in {0, 1}
<1> QED
  BY <1>10

LEMMA ReversedBits ==
    ASSUME NEW a \in {0, 1}, NEW b \in {0, 1}, NEW c \in {0, 1}, NEW d \in {0, 1},
           NEW e \in {0, 1}, NEW f \in {0, 1}, NEW g \in {0, 1}, NEW h \in {0, 1}
    PROVE  Reversed(Binary(a, b, c, d, e, f, g, h)) = Binary(h, g, f, e, d, c, b, a)
<1>1. PICK i \in Nat : i = a + 2 * b + 4 * c + 8 * d + 16 * e + 32 * f + 64 * g + 128 * h
  OBVIOUS
<1>2. (i \div 1) % 2 = a
  BY <1>1
<1>3. (i \div 2) % 2 = b
  BY <1>1
<1>4. (i \div 4) % 2 = c
  BY <1>1
<1>5. (i \div 8) % 2 = d
  BY <1>1
<1>6. (i \div 16) % 2 = e
  BY <1>1
<1>7. (i \div 32) % 2 = f
  BY <1>1
<1>8. (i \div 64) % 2 = g
  BY <1>1
<1>9. (i \div 128) % 2 = h
  BY <1>1
<1>10. Reversed(i) = 128 * a + 64 * b + 32 * c + 16 * d + 8 * e + 4 * f + 2 * g + h
  BY <1>2, <1>3, <1>4, <1>5, <1>6, <1>7, <1>8, <1>9 DEF Reversed
<1> QED
  BY <1>1, <1>10 DEF Binary

(***************************************************************************)
(* The reverse of the reverse of a counter is the counter.                 *)
(***************************************************************************)
LEMMA ReversedTwice ==
    ASSUME NEW i \in 0 .. 255
    PROVE  Reversed(i) \in 0 .. 255 /\ Reversed(Reversed(i)) = i
<1>1. PICK a, b, c, d, e, f, g, h \in {0, 1} : i = Binary(a, b, c, d, e, f, g, h)
  BY HasBits
<1>2. Reversed(i) = Binary(h, g, f, e, d, c, b, a)
  BY <1>1, ReversedBits
<1>3. Reversed(Reversed(i)) = i
  BY <1>1, <1>2, ReversedBits
<1>4. Reversed(i) \in 0 .. 255
  BY <1>2 DEF Binary
<1> QED
  BY <1>3, <1>4

(***************************************************************************)
(* Each place of the sequence is the place of one symbol on the air.       *)
(***************************************************************************)
LEMMA EarlierPermutes ==
    /\ \A j \in Symbols : Earlier[j] \in Symbols
    /\ \A p \in Symbols : \E j \in Symbols : Earlier[j] = p
<1>1. /\ nbits \in 1 .. 128 /\ Symbols = 0 .. 2 * nbits - 1
      /\ \A j \in Symbols : j \in 0 .. 255
  BY FanoAssumption DEF Symbols
<1>2. IsFiniteSet(Symbols) /\ Cardinality(Symbols) = 2 * nbits
  <2>1. 0 \in Int /\ 2 * nbits - 1 \in Int
    BY <1>1
  <2> QED
    BY <1>1, <2>1, FS_Interval
<1> DEFINE before(j) == {i \in 0 .. 255 : i < Reversed(j) /\ Reversed(i) \in Symbols}
<1>3. \A j \in Symbols : Earlier[j] = Cardinality(before(j))
  BY DEF Earlier
<1>4. IsFiniteSet(0 .. 255)
  <2>1. 0 \in Int /\ 255 \in Int
    OBVIOUS
  <2> QED
    BY <2>1, FS_Interval
<1>5. \A j \in Symbols : IsFiniteSet(before(j)) /\ Cardinality(before(j)) \in Nat
  BY <1>4, FS_Subset, FS_CardinalityType
<1>6. ASSUME NEW j \in Symbols
      PROVE  Cardinality(before(j)) <= 2 * nbits - 1
  <2> DEFINE f == [i \in before(j) |-> Reversed(i)]
  <2>1. f \in Injection(before(j), Symbols \ {j})
    <3>1. ASSUME NEW i \in before(j)
          PROVE  Reversed(i) \in Symbols /\ Reversed(Reversed(i)) = i /\ Reversed(i) # j
      <4>1. i \in 0 .. 255 /\ i < Reversed(j) /\ Reversed(i) \in Symbols
        OBVIOUS
      <4>2. Reversed(Reversed(i)) = i
        BY <4>1, ReversedTwice
      <4>3. ~(i < i)
        BY <4>1
      <4> QED
        BY <4>1, <4>2, <4>3, Zenon
    <3>2. f \in [before(j) -> Symbols \ {j}]
      BY <3>1
    <3>3. \A i, k \in before(j) : f[i] = f[k] => i = k
      <4> SUFFICES ASSUME NEW i \in before(j), NEW k \in before(j), f[i] = f[k]
                   PROVE  i = k
        OBVIOUS
      <4>1. Reversed(i) = Reversed(k)
        OBVIOUS
      <4> QED
        BY <3>1, <4>1, Zenon
    <3> HIDE DEF f, before
    <3> QED
      BY <3>2, <3>3 DEF Injection, IsInjective
  <2>2. IsFiniteSet(Symbols \ {j}) /\ Cardinality(Symbols \ {j}) = 2 * nbits - 1
    BY <1>2, FS_RemoveElement
  <2> HIDE DEF f, before
  <2> QED
    BY <2>1, <2>2, FS_Injection
<1>7. ASSUME NEW j \in Symbols, NEW k \in Symbols, Reversed(j) < Reversed(k)
      PROVE  Cardinality(before(j)) < Cardinality(before(k))
  <2>1. Reversed(j) \in 0 .. 255 /\ Reversed(k) \in 0 .. 255 /\ Reversed(Reversed(j)) = j
    BY <1>1, ReversedTwice
  <2>2. before(j) \in SUBSET before(k)
    <3>1. PICK a \in Int, b \in Int : a = Reversed(j) /\ b = Reversed(k) /\ a < b
      <4>1. Reversed(j) \in Int /\ Reversed(k) \in Int
        BY <2>1
      <4> QED
        BY <1>7, <4>1, Zenon
    <3>2. \A i \in 0 .. 255 : i < a => i < b
      BY <3>1
    <3> QED
      BY <3>1, <3>2, Zenon
  <2>3. Reversed(j) \in before(k) /\ Reversed(j) \notin before(j)
    BY <1>7, <2>1
  <2> HIDE DEF before
  <2>4. before(j) # before(k)
    BY <2>3
  <2>5. /\ Cardinality(before(j)) <= Cardinality(before(k))
        /\ Cardinality(before(j)) # Cardinality(before(k))
    BY <1>5, <2>2, <2>4, FS_Subset
  <2> QED
    BY <1>5, <2>5
<1> HIDE DEF before
<1>8. \A j \in Symbols : Earlier[j] \in Symbols
  <2> SUFFICES ASSUME NEW j \in Symbols PROVE Earlier[j] \in Symbols
    OBVIOUS
  <2>1. PICK n \in Nat : n = Earlier[j] /\ n <= 2 * nbits - 1
    BY <1>3, <1>5, <1>6
  <2> QED
    BY <1>1, <2>1
<1>9. ASSUME NEW j \in Symbols, NEW k \in Symbols, j # k
      PROVE  Earlier[j] # Earlier[k]
  <2>1. /\ Reversed(j) \in 0 .. 255 /\ Reversed(k) \in 0 .. 255
        /\ Reversed(Reversed(j)) = j /\ Reversed(Reversed(k)) = k
    BY <1>1, ReversedTwice
  <2>2. Reversed(j) # Reversed(k)
    BY <1>9, <2>1, Zenon
  <2>3. Reversed(j) < Reversed(k) \/ Reversed(k) < Reversed(j)
    <3>1. \A a, b \in Int : a # b => a < b \/ b < a
      OBVIOUS
    <3>2. Reversed(j) \in Int /\ Reversed(k) \in Int
      BY <2>1
    <3> QED
      BY <2>2, <3>1, <3>2, Zenon
  <2> QED
    BY <1>3, <1>5, <1>7, <2>3
<1>10. Earlier \in Injection(Symbols, Symbols)
  <2>1. Earlier \in [Symbols -> Symbols]
    <3>1. Earlier = [j \in Symbols |-> Earlier[j]]
      BY DEF Earlier
    <3> QED
      BY <1>8, <3>1
  <2> QED
    BY <1>9, <2>1 DEF Injection, IsInjective
<1>11. Earlier \in Surjection(Symbols, Symbols)
  BY <1>2, <1>10, FS_Injection
<1> QED
  BY <1>8, <1>11 DEF Surjection

-----------------------------------------------------------------------------
(* The metrics of what was received *)

(***************************************************************************)
(* Deinterleaving puts each symbol back where the encoder left it.         *)
(***************************************************************************)
LEMMA InterleaveInverts ==
    ASSUME NEW X, NEW sym \in [Symbols -> X]
    PROVE  deinterleave(interleave(sym)) = sym
<1>1. ASSUME NEW p \in Symbols
      PROVE  deinterleave(interleave(sym))[p] = sym[p]
  <2>1. PICK j \in Symbols : j = (CHOOSE i \in Symbols : Earlier[i] = p) /\ Earlier[j] = p
    BY EarlierPermutes
  <2>2. deinterleave(interleave(sym))[p] = interleave(sym)[j]
    BY <2>1 DEF deinterleave
  <2> QED
    BY <2>1, <2>2 DEF interleave
<1>2. deinterleave(interleave(sym)) = [p \in Symbols |-> deinterleave(interleave(sym))[p]]
  BY DEF deinterleave
<1> QED
  BY <1>1, <1>2

Received == received \in [Symbols -> {"0", "1"}]

LEMMA DeinterleavedType ==
    ASSUME NEW X, NEW sym \in [Symbols -> X]
    PROVE  deinterleave(sym) \in [Symbols -> X]
<1>1. \A p \in Symbols : (CHOOSE j \in Symbols : Earlier[j] = p) \in Symbols
  BY EarlierPermutes
<1> QED
  BY <1>1 DEF deinterleave

Taps == SUBSET (0 .. 31)

LEMMA Parities ==
    ASSUME NEW bits, NEW k, NEW poly \in Taps
    PROVE  Parity(bits, k, poly) \in {0, 1}
<1> DEFINE S == {i \in poly : i <= k /\ bits[k - i] = 1}
<1>1. IsFiniteSet(0 .. 31)
  <2>1. 0 \in Int /\ 31 \in Int
    OBVIOUS
  <2> QED
    BY <2>1, FS_Interval
<1>2. S \in SUBSET (0 .. 31)
  BY DEF Taps
<1>3. PICK n \in Nat : n = Cardinality(S)
  BY <1>1, <1>2, FS_Subset, FS_CardinalityType
<1>4. n % 2 \in {0, 1}
  OBVIOUS
<1> QED
  BY <1>3, <1>4, Zenon DEF Parity

(***************************************************************************)
(* q is the path p with bit b at node k.                                   *)
(***************************************************************************)
Takes(p, k, b, q) == q = [p EXCEPT ![k] = b]

LEMMA ParityLocal ==
    ASSUME NEW p \in Paths, NEW q \in Paths, NEW k \in Bits, NEW b \in {0, 1}, Agree(p, q, k),
           NEW p1, Takes(p, k, b, p1), NEW q1, Takes(q, k, b, q1),
           NEW poly \in Taps
    PROVE  Parity(p1, k, poly) = Parity(q1, k, poly)
<1>1. k \in Nat /\ Bits = 0 .. nbits - 1 /\ nbits \in Nat
  BY Sizes DEF Bits
<1>2. \A j \in 0 .. k : p1[j] = q1[j]
  <2> TAKE j \in 0 .. k
  <2>1. j \in Bits /\ (j = k \/ j \in 0 .. k - 1)
    BY <1>1
  <2> QED
    BY <1>1, <2>1 DEF Paths, Agree, Takes
<1>3. \A i \in poly : i <= k => k - i \in 0 .. k
  BY <1>1 DEF Taps
<1>4. {i \in poly : i <= k /\ p1[k - i] = 1} = {i \in poly : i <= k /\ q1[k - i] = 1}
  BY <1>2, <1>3
<1> QED
  BY <1>4, Zenon DEF Parity

LEMMA Polynomials == POLY1 \in Taps /\ POLY2 \in Taps
  BY DEF POLY1, POLY2, Taps

(***************************************************************************)
(* The metric of a branch at node k depends on the bits before it only.    *)
(***************************************************************************)
LEMMA MetricLocal ==
    ASSUME NEW p \in Paths, NEW q \in Paths, NEW k \in Bits, NEW b \in {0, 1}, Agree(p, q, k)
    PROVE  Metric(p, k, b) = Metric(q, k, b)
<1>1. PICK p1, q1 : Takes(p, k, b, p1) /\ Takes(q, k, b, q1)
  BY DEF Takes
<1>2. ASSUME NEW poly \in Taps
      PROVE  Parity(p1, k, poly) = Parity(q1, k, poly)
  BY <1>1, ParityLocal, SMT
<1>3. ENCODE(p1, k) = ENCODE(q1, k)
  BY <1>2, Polynomials, Zenon DEF ENCODE
<1> QED
  BY <1>1, <1>3, Zenon DEF Metric, Takes

LEMMA MetricType ==
    ASSUME Received, NEW bits, NEW k \in Bits, NEW b \in {0, 1}
    PROVE  Metric(bits, k, b) \in Int
<1>1. \A bit \in {0, 1}, level \in {"0", "1"} : mettab(bit, level) \in Int
  BY DEF mettab
<1>2. PICK x \in {0, 1}, y \in {0, 1} : ENCODE([bits EXCEPT ![k] = b], k) = <<x, y>>
  <2>1. PICK c : c = [bits EXCEPT ![k] = b]
    OBVIOUS
  <2>2. Parity(c, k, POLY1) \in {0, 1} /\ Parity(c, k, POLY2) \in {0, 1}
    BY Parities, Polynomials
  <2> QED
    BY <2>1, <2>2 DEF ENCODE
<1>3. received[2 * k] \in {"0", "1"} /\ received[2 * k + 1] \in {"0", "1"}
  BY Sizes DEF Received, Bits, Symbols
<1>4. Metric(bits, k, b) = mettab(x, received[2 * k]) + mettab(y, received[2 * k + 1])
  BY <1>2 DEF Metric
<1> QED
  BY <1>1, <1>3, <1>4

(***************************************************************************)
(* The metrics of what was received, as the lemmas on the search take      *)
(* them.                                                                   *)
(***************************************************************************)
Metrics == [bits \in Paths |-> [k \in Bits |-> [b \in {0, 1} |-> Metric(bits, k, b)]]]

LEMMA MetricsKnown ==
    ASSUME Received
    PROVE  /\ IsMetric(Metrics)
           /\ \A p \in Paths, k \in Bits, b \in {0, 1} : Metrics[p][k][b] = Metric(p, k, b)
<1>1. \A p \in Paths, k \in Bits : Metrics[p][k] = [b \in {0, 1} |-> Metric(p, k, b)]
  BY DEF Metrics
<1>2. \A p \in Paths, k \in Bits, b \in {0, 1} : Metrics[p][k][b] = Metric(p, k, b)
  <2> TAKE p \in Paths, k \in Bits, b \in {0, 1}
  <2>1. Metrics[p][k] = [c \in {0, 1} |-> Metric(p, k, c)]
    BY <1>1
  <2> QED
    BY <2>1, Zenon
<1>3. \A p \in Paths, k \in Bits, b \in {0, 1} : Metrics[p][k][b] \in Int
  BY <1>2, MetricType
<1>4. ASSUME NEW p \in Paths, NEW q \in Paths, NEW k \in Bits, Agree(p, q, k)
      PROVE  Metrics[p][k] = Metrics[q][k]
  <2>1. \A b \in {0, 1} : Metric(p, k, b) = Metric(q, k, b)
    BY <1>4, MetricLocal
  <2>2. [b \in {0, 1} |-> Metric(p, k, b)] = [b \in {0, 1} |-> Metric(q, k, b)]
    BY <2>1, Zenon
  <2>3. /\ Metrics[p][k] = [b \in {0, 1} |-> Metric(p, k, b)]
        /\ Metrics[q][k] = [b \in {0, 1} |-> Metric(q, k, b)]
    BY <1>1
  <2> QED
    BY <2>2, <2>3, Zenon
<1> QED
  BY <1>2, <1>3, <1>4 DEF IsMetric

(***************************************************************************)
(* MetricAlong adds up the metrics of the branches the message takes.      *)
(***************************************************************************)
LEMMA AlongIsScore ==
    ASSUME Received, NEW m \in Paths
    PROVE  IsScore(Metrics, m, MetricAlong(m))
<1>1. PICK mu : mu = Metrics /\ IsMetric(mu)
  BY MetricsKnown
<1>2. PICK f : IsScore(mu, m, f)
  BY <1>1, ScoreExists
<1>3. nbits \in Nat /\ Bits = 0 .. nbits - 1
  BY Sizes DEF Bits
<1> DEFINE Step(g) == [k \in 0 .. nbits |-> IF k = 0 THEN 0
                                            ELSE g[k - 1] + Metric(m, k - 1, m[k - 1])]
<1>4. \A k \in Bits : mu[m][k][m[k]] = Metric(m, k, m[k])
  <2>1. \A k \in Bits : m[k] \in {0, 1}
    BY DEF Paths
  <2> QED
    BY <1>1, <2>1, MetricsKnown
<1>5. f = Step(f)
  <2>1. f \in [0 .. nbits -> Int] /\ f[0] = 0
    BY <1>2 DEF IsScore, Scored
  <2>2. ASSUME NEW k \in 0 .. nbits, k # 0
        PROVE  f[k] = f[k - 1] + Metric(m, k - 1, m[k - 1])
    <3>1. PICK j \in 0 .. nbits - 1 : j = k - 1 /\ j + 1 = k /\ j \in Bits
      BY <1>3, <2>2
    <3>2. f[j + 1] = f[j] + mu[m][j][m[j]]
      BY <1>2, <3>1 DEF IsScore, Scored
    <3> QED
      BY <1>4, <3>1, <3>2, Zenon
  <2> QED
    BY <2>1, <2>2
<1>6. PICK g : g = MetricAlong(m) /\ g = Step(g)
  <2>1. MetricAlong(m) = CHOOSE g : g = Step(g)
    BY DEF MetricAlong
  <2> HIDE DEF Step
  <2> QED
    BY <1>5, <2>1, Zenon
<1>7. Scored(mu, m, g, nbits)
  <2>1. g[0] = 0
    BY <1>3, <1>6
  <2>2. ASSUME NEW k \in 0 .. nbits - 1
        PROVE  g[k + 1] = g[k] + mu[m][k][m[k]]
    <3>1. k + 1 \in 0 .. nbits /\ k + 1 # 0 /\ (k + 1) - 1 = k /\ k \in Bits
      BY <1>3
    <3> QED
      BY <1>4, <1>6, <3>1
  <2> QED
    BY <2>1, <2>2 DEF Scored
<1>8. \A k \in 0 .. nbits : g[k] = f[k]
  <2>1. Agree(m, m, nbits) /\ nbits \in 0 .. nbits
    BY <1>3 DEF Agree
  <2> QED
    BY <1>1, <1>2, <1>7, <2>1, ScoresAgree DEF IsScore
<1>9. g \in [0 .. nbits -> Int]
  <2>1. f \in [0 .. nbits -> Int] /\ DOMAIN g = 0 .. nbits
    BY <1>2, <1>6 DEF IsScore
  <2>2. g = [k \in 0 .. nbits |-> g[k]]
    BY <1>6
  <2> HIDE DEF Step
  <2> QED
    BY <1>8, <2>1, <2>2
<1> QED
  BY <1>1, <1>6, <1>7, <1>9, Zenon DEF IsScore

(***************************************************************************)
(* A node is entered with its better branch.                               *)
(***************************************************************************)
LEMMA EnteredInOrder ==
    ASSUME Received, NEW p \in Paths, NEW k \in Bits, NEW q, q = [p EXCEPT ![k] = BestBranch(p, k)],
           NEW br, br[k] = 0
    PROVE  q \in Paths /\ InOrder(Metrics, q, br, k)
<1>1. BestBranch(p, k) \in {0, 1}
  BY DEF BestBranch
<1>2. q \in Paths /\ q[k] = BestBranch(p, k)
  BY <1>1 DEF Paths
<1>3. Agree(q, p, k)
  BY Sizes DEF Paths, Agree, Bits
<1>4. \A b \in {0, 1} : Metrics[q][k][b] = Metric(p, k, b) /\ Metric(p, k, b) \in Int
  BY <1>2, <1>3, MetricsKnown, MetricLocal, MetricType
<1>5. k \in Int /\ tail \in Int
  BY Sizes DEF Bits
<1>6. CASE k >= tail
  <2>1. q[k] = 0 /\ ~(k < tail)
    BY <1>2, <1>5, <1>6 DEF BestBranch
  <2> QED
    BY <1>2, <2>1, Zenon DEF InOrder
<1>7. CASE ~(k >= tail)
  <2>1. Metric(p, k, q[k]) >= Metric(p, k, 1 - q[k])
    <3>1. CASE Metric(p, k, 0) > Metric(p, k, 1)
      <4>1. q[k] = 0 /\ 1 - q[k] = 1
        BY <1>2, <1>7, <3>1 DEF BestBranch
      <4> QED
        BY <1>4, <3>1, <4>1
    <3>2. CASE ~(Metric(p, k, 0) > Metric(p, k, 1))
      <4>1. q[k] = 1 /\ 1 - q[k] = 0
        BY <1>2, <1>7, <3>2 DEF BestBranch
      <4> QED
        BY <1>4, <3>2, <4>1
    <3> QED
      BY <3>1, <3>2
  <2>2. q[k] \in {0, 1} /\ 1 - q[k] \in {0, 1}
    BY <1>1, <1>2
  <2>3. Metrics[q][k][q[k]] >= Metrics[q][k][1 - q[k]]
    BY <1>4, <2>1, <2>2, Zenon
  <2>4. br[k] # 1
    OBVIOUS
  <2> QED
    BY <1>2, <1>7, <2>3, <2>4, Zenon DEF InOrder
<1> QED
  BY <1>6, <1>7

-----------------------------------------------------------------------------
(* The search as a whole *)

(***************************************************************************)
(* What holds of the search at every node it is at, with the cycle that    *)
(* decides between looking forward and looking backward.                   *)
(***************************************************************************)
FanoInv ==
    /\ Received /\ fano_pc \in Int
    /\ Search(Metrics, np, path, branch, gamma, t)
    /\ fano_pc < 0 => np < nbits /\ Stuck(Metrics, path, np, t)
    /\ fano_pc \in 1 .. maxcycles => np < nbits
    /\ fano_pc = 0 => np = nbits

LEMMA FanoInitially == FanoInit => FanoInv
<1> SUFFICES ASSUME FanoInit PROVE FanoInv
  OBVIOUS
<1>1. /\ nbits \in Nat /\ nbits > 0 /\ Bits = 0 .. nbits - 1
      /\ 0 \in Bits /\ maxcycles \in Nat /\ 0 \in 0 .. nbits
  BY Sizes DEF Bits
<1>2. Received
  <2>1. PICK air, fading : received =
            deinterleave([j \in Symbols |-> CASE j \in fading -> IF air[j] = 0 THEN "1" ELSE "0"
                                              [] OTHER -> IF air[j] = 0 THEN "0" ELSE "1"])
    <3>1. PICK message \in SentMessages, fading \in Fadings :
            received = LET air == interleave(encode(message))
                       IN  deinterleave([j \in Symbols |->
                              CASE j \in fading -> IF air[j] = 0 THEN "1" ELSE "0"
                                [] OTHER -> IF air[j] = 0 THEN "0" ELSE "1"])
      BY DEF FanoInit
    <3> QED
      BY <3>1
  <2>2. PICK levels : levels = [j \in Symbols |->
            CASE j \in fading -> IF air[j] = 0 THEN "1" ELSE "0"
              [] OTHER -> IF air[j] = 0 THEN "0" ELSE "1"]
    OBVIOUS
  <2>3. levels \in [Symbols -> {"0", "1"}]
    BY <2>2
  <2> QED
    BY <2>1, <2>2, <2>3, DeinterleavedType DEF Received
<1>3. PICK zero : zero = [k \in Bits |-> 0]
  OBVIOUS
<1>4. zero \in Paths
  BY <1>3 DEF Paths
<1>5. /\ np = 0 /\ t = 0 /\ gamma = [k \in 0 .. nbits |-> 0] /\ branch = [k \in Bits |-> 0]
      /\ path = [zero EXCEPT ![0] = BestBranch(zero, 0)] /\ fano_pc = 1
  BY <1>3 DEF FanoInit
<1>6. gamma \in [0 .. nbits -> Int] /\ branch \in [Bits -> {0, 1}] /\ gamma[0] = 0 /\ branch[0] = 0
  BY <1>1, <1>5
<1>7. path \in Paths /\ InOrder(Metrics, path, branch, 0)
  BY <1>1, <1>2, <1>4, <1>5, <1>6, EnteredInOrder
<1>8. Multiple(0) /\ 0 <= 0 /\ 0 \in Int
  BY Multiples
<1>9. SearchTyped(0, path, branch, gamma, 0)
  BY <1>1, <1>6, <1>7, <1>8, Zenon DEF SearchTyped
<1>10. \A k \in 0 .. 0 : k = 0
  OBVIOUS
<1>11. Scored(Metrics, path, gamma, 0)
  BY <1>6 DEF Scored
<1>12. Rooted(Metrics, gamma, 0, 0)
  BY <1>6, <1>8, <1>10, Zenon DEF Rooted
<1>13. \A k \in 0 .. 0 : branch[k] # 1
  BY <1>6, <1>10
<1>14. Search(Metrics, 0, path, branch, gamma, 0)
  BY <1>7, <1>9, <1>10, <1>11, <1>12, <1>13, Zenon DEF Search
<1> QED
  BY <1>1, <1>2, <1>5, <1>14 DEF FanoInv

LEMMA SameMetrics == received' = received => Metrics' = Metrics /\ (Received => Received')
  BY DEF Metrics, Metric, Received

(***************************************************************************)
(* What the invariant says of the decoder's node and of its look forward.  *)
(***************************************************************************)
LEMMA Searching ==
    ASSUME FanoInv
    PROVE  /\ Received /\ IsMetric(Metrics) /\ Search(Metrics, np, path, branch, gamma, t)
           /\ np \in 0 .. nbits /\ path \in Paths /\ branch \in [Bits -> {0, 1}]
           /\ gamma \in [0 .. nbits -> Int] /\ t \in Int
           /\ np < nbits => /\ np \in 0 .. nbits - 1 /\ np \in Bits /\ np + 1 \in 0 .. nbits
                            /\ ngamma = gamma[np] + Metrics[path][np][path[np]]
                            /\ ngamma \in Int
<1>1. Received /\ IsMetric(Metrics) /\ Search(Metrics, np, path, branch, gamma, t)
  BY MetricsKnown DEF FanoInv
<1>2. /\ np \in 0 .. nbits /\ path \in Paths /\ branch \in [Bits -> {0, 1}]
      /\ gamma \in [0 .. nbits -> Int] /\ t \in Int
  BY <1>1, Zenon DEF Search, SearchTyped
<1>3. ASSUME np < nbits
      PROVE  /\ np \in 0 .. nbits - 1 /\ np \in Bits /\ np + 1 \in 0 .. nbits
             /\ ngamma = gamma[np] + Metrics[path][np][path[np]]
             /\ ngamma \in Int
  <2>1. np \in 0 .. nbits - 1 /\ np \in Bits /\ np + 1 \in 0 .. nbits
    BY <1>2, <1>3, Sizes DEF Bits
  <2>2. path[np] \in {0, 1}
    BY <1>2, <2>1 DEF Paths
  <2>3. /\ Metrics[path][np][path[np]] = Metric(path, np, path[np])
        /\ Metric(path, np, path[np]) \in Int
    BY <1>1, <1>2, <2>1, <2>2, MetricsKnown, MetricType
  <2>4. gamma[np] \in Int
    BY <1>2
  <2> QED
    BY <2>1, <2>3, <2>4 DEF ngamma
<1> QED
  BY <1>1, <1>2, <1>3

LEMMA ForwardKeeps ==
    ASSUME FanoInv, Forward
    PROVE  FanoInv'
<1>1. fano_pc \in 1 .. maxcycles /\ np < nbits /\ maxcycles \in Nat
  BY Sizes DEF Forward, FanoInv
<1>2. /\ Received /\ IsMetric(Metrics) /\ Search(Metrics, np, path, branch, gamma, t)
      /\ np \in 0 .. nbits - 1 /\ np \in Bits /\ np + 1 \in 0 .. nbits
      /\ path \in Paths /\ branch \in [Bits -> {0, 1}] /\ gamma \in [0 .. nbits -> Int]
      /\ ngamma \in Int /\ ngamma = gamma[np] + Metrics[path][np][path[np]]
  BY <1>1, Searching
<1>3. Metrics' = Metrics /\ Received'
  BY <1>2, SameMetrics DEF Forward
<1>4. Looked(Metrics, np, path, gamma, t, ngamma, gamma', t') /\ np' = np + 1
  BY <1>2, Zenon DEF Forward, Tightened, Looked
<1>5. nbits \in Nat /\ Bits = 0 .. nbits - 1
  BY Sizes DEF Bits
<1>6. CASE np + 1 = nbits
  <2>1. UNCHANGED <<path, branch>> /\ (fano_pc' = 0 \/ fano_pc' = maxcycles + 1)
    BY <1>1, <1>6 DEF Forward
  <2>2. WentOn(Metrics, np, path, branch, path', branch')
    <3>1. ~(np + 1 < nbits)
      BY <1>5, <1>6
    <3> QED
      BY <1>2, <2>1, <3>1, Zenon DEF WentOn
  <2>3. Search(Metrics, np + 1, path', branch', gamma', t')
    BY <1>2, <1>4, <2>2, Advances
  <2> QED
    BY <1>1, <1>3, <1>4, <1>6, <2>1, <2>3 DEF FanoInv
<1>7. CASE np + 1 # nbits
  <2>1. /\ path' = [path EXCEPT ![np + 1] = BestBranch(path, np + 1)]
        /\ branch' = [branch EXCEPT ![np + 1] = 0]
        /\ fano_pc' = fano_pc + 1
    BY <1>7, Zenon DEF Forward
  <2>2. np + 1 \in Bits /\ np + 1 < nbits /\ \A i \in 0 .. np : i \in Bits /\ i # np + 1
    BY <1>2, <1>5, <1>7
  <2>3. branch' \in [Bits -> {0, 1}] /\ branch'[np + 1] = 0
    BY <1>2, <2>1, <2>2
  <2>4. path' \in Paths /\ InOrder(Metrics, path', branch', np + 1)
    BY <1>2, <2>1, <2>2, <2>3, EnteredInOrder
  <2>5. \A i \in 0 .. np : path'[i] = path[i] /\ branch'[i] = branch[i]
    <3>1. path \in [Bits -> {0, 1}]
      BY <1>2 DEF Paths
    <3> QED
      BY <1>2, <2>1, <2>2, <3>1
  <2>6. Search(Metrics, np + 1, path', branch', gamma', t')
    <3>1. WentOn(Metrics, np, path, branch, path', branch')
      BY <2>3, <2>4, <2>5, Zenon DEF WentOn
    <3> QED
      BY <1>2, <1>4, <3>1, Advances
  <2> QED
    BY <1>1, <1>3, <1>4, <2>1, <2>2, <2>6 DEF FanoInv
<1> QED
  BY <1>6, <1>7

LEMMA BlockedKeeps ==
    ASSUME FanoInv, Blocked
    PROVE  FanoInv'
<1>1. fano_pc \in 1 .. maxcycles /\ np < nbits /\ maxcycles \in Nat
  BY Sizes DEF Blocked, FanoInv
<1>2. /\ Received /\ IsMetric(Metrics) /\ Search(Metrics, np, path, branch, gamma, t)
      /\ np \in 0 .. nbits - 1 /\ ngamma = gamma[np] + Metrics[path][np][path[np]]
  BY <1>1, Searching
<1>3. Metrics' = Metrics /\ Received'
  BY <1>2, SameMetrics DEF Blocked
<1>4. Stuck(Metrics, path, np, t)
  <2>1. gamma[np] + Metrics[path][np][path[np]] < t
    BY <1>2 DEF Blocked
  <2> QED
    BY <1>2, <2>1, BlockedStuck
<1>5. fano_pc' = -fano_pc /\ UNCHANGED <<np, path, branch, gamma, t>>
  BY DEF Blocked
<1> QED
  BY <1>1, <1>2, <1>3, <1>4, <1>5 DEF FanoInv

LEMMA BackwardKeeps ==
    ASSUME FanoInv, Backward
    PROVE  FanoInv'
<1>1. fano_pc \in Int /\ fano_pc < 0 /\ np < nbits /\ Stuck(Metrics, path, np, t)
  BY DEF Backward, FanoInv
<1>2. /\ Received /\ IsMetric(Metrics) /\ Search(Metrics, np, path, branch, gamma, t)
      /\ np \in 0 .. nbits - 1 /\ nbits \in Nat
  BY <1>1, Searching, Sizes
<1>3. Metrics' = Metrics /\ Received' /\ gamma' = gamma
  BY <1>2, SameMetrics DEF Backward
<1>4. CASE (np # 0 => gamma[np - 1] < t) /\ Relax /\ fano_pc' = 1 - fano_pc /\ UNCHANGED np
  <2>1. /\ t' = t - delta
        /\ path' = [path EXCEPT ![np] = IF branch[np] # 0 THEN 1 - path[np] ELSE path[np]]
        /\ branch' = [branch EXCEPT ![np] = 0]
    BY <1>4, Zenon DEF Relax
  <2>2. Search(Metrics, np, path', branch', gamma, t')
    BY <1>1, <1>2, <1>4, <2>1, Relaxes
  <2>3. fano_pc' \in Int /\ fano_pc' > 0
    BY <1>1, <1>4
  <2> QED
    BY <1>1, <1>3, <1>4, <2>2, <2>3 DEF FanoInv
<1>5. CASE /\ np # 0 /\ gamma[np - 1] >= t
           /\ np' = np - 1
           /\ IF np - 1 < tail /\ branch[np - 1] # 1
              THEN /\ branch' = [branch EXCEPT ![np - 1] = 1]
                   /\ path' = [path EXCEPT ![np - 1] = 1 - @]
                   /\ fano_pc' = 1 - fano_pc
              ELSE UNCHANGED <<branch, path, fano_pc>>
           /\ UNCHANGED t
  <2>1. np \in 1 .. nbits /\ np' = np - 1 /\ np - 1 < nbits /\ gamma[np - 1] >= t /\ t' = t
    BY <1>1, <1>2, <1>5
  <2>2. CASE np - 1 < tail /\ branch[np - 1] # 1
    <3>1. /\ branch' = [branch EXCEPT ![np - 1] = 1]
          /\ path' = [path EXCEPT ![np - 1] = 1 - path[np - 1]]
          /\ fano_pc' = 1 - fano_pc
      BY <1>5, <2>2, Zenon
    <3>2. Search(Metrics, np - 1, path', branch', gamma, t)
      BY <1>1, <1>2, <2>1, <2>2, <3>1, RetreatsTurning
    <3>3. fano_pc' \in Int /\ fano_pc' > 0
      BY <1>1, <3>1
    <3> QED
      BY <1>3, <2>1, <3>2, <3>3 DEF FanoInv
  <2>3. CASE ~(np - 1 < tail /\ branch[np - 1] # 1)
    <3>1. UNCHANGED <<branch, path, fano_pc>>
      BY <1>5, <2>3, Zenon
    <3>2. Search(Metrics, np - 1, path, branch, gamma, t) /\ Stuck(Metrics, path, np - 1, t)
      BY <1>1, <1>2, <2>1, <2>3, RetreatsStuck
    <3> QED
      BY <1>1, <1>3, <2>1, <3>1, <3>2 DEF FanoInv
  <2> QED
    BY <2>2, <2>3
<1> QED
  BY <1>4, <1>5 DEF Backward

(***************************************************************************)
(* The last node is above the threshold the root was left with, and every  *)
(* other message falls below the one before.                               *)
(***************************************************************************)
LEMMA FanoInvStaysHighest == FanoInv => StaysHighest
<1> SUFFICES ASSUME FanoInv, fano_pc = 0, NEW m \in Tree, NEW k \in 0 .. nbits
             PROVE  \E j \in 0 .. nbits :
                        MetricAlong(m)[j] \div delta <= MetricAlong(path)[k] \div delta
  BY DEF StaysHighest
<1>1. /\ Received /\ IsMetric(Metrics) /\ Search(Metrics, nbits, path, branch, gamma, t)
      /\ path \in Paths /\ nbits \in Nat /\ nbits \in 0 .. nbits
  BY Searching, Sizes DEF FanoInv
<1>2. IsScore(Metrics, m, MetricAlong(m)) /\ IsScore(Metrics, path, MetricAlong(path))
  BY <1>1, AlongIsScore, TreePaths
<1>3. MetricAlong(path)[k] = gamma[k]
  <2>1. Scored(Metrics, path, gamma, nbits) /\ Scored(Metrics, path, MetricAlong(path), nbits)
    BY <1>1, <1>2, Zenon DEF Search, IsScore
  <2>2. Agree(path, path, nbits)
    BY DEF Agree
  <2> QED
    BY <1>1, <2>1, <2>2, ScoresAgree
<1>4. \E j \in 0 .. nbits : MetricAlong(m)[j] \div delta <= gamma[k] \div delta
  BY <1>1, <1>2, Ends
<1> QED
  BY <1>3, <1>4, Zenon

(***************************************************************************)
(* Whatever levels were received: when the decoder ends, no message stays  *)
(* a step of the threshold above the decoded one all along. Each branch    *)
(* that was given up was refused by a threshold that the decoded path has  *)
(* never fallen below, and the threshold falls at the root only when it    *)
(* has refused every message.                                              *)
(***************************************************************************)
THEOREM SearchFindsHighest == FanoSpec => []StaysHighest
<1>1. ASSUME FanoInv, [FanoNext]_fanoVars PROVE FanoInv'
  <2>1. CASE Forward
    BY <1>1, <2>1, ForwardKeeps
  <2>2. CASE Blocked
    BY <1>1, <2>2, BlockedKeeps
  <2>3. CASE Backward
    BY <1>1, <2>3, BackwardKeeps
  <2>4. CASE UNCHANGED fanoVars
    <3>1. received' = received /\ UNCHANGED <<np, path, branch, gamma, t, fano_pc>>
      BY <2>4 DEF fanoVars
    <3>2. Metrics' = Metrics /\ Received'
      BY <1>1, <3>1, SameMetrics DEF FanoInv
    <3> QED
      BY <1>1, <3>1, <3>2 DEF FanoInv
  <2> QED
    BY <1>1, <2>1, <2>2, <2>3, <2>4 DEF FanoNext
<1> QED
  BY <1>1, FanoInitially, FanoInvStaysHighest, PTL DEF FanoSpec

-----------------------------------------------------------------------------
(* A channel that changes nothing *)

(***************************************************************************)
(* Both polynomials are odd, as fano() assumes: the branches of a node     *)
(* have complementary symbols.                                             *)
(***************************************************************************)
LEMMA LastBitTaps ==
    ASSUME NEW p \in Paths, NEW k \in Bits, NEW q, Takes(p, k, 0, q), NEW r, Takes(p, k, 1, r),
           NEW poly \in Taps, 0 \in poly
    PROVE  Parity(q, k, poly) = 1 - Parity(r, k, poly)
<1>1. k \in Nat /\ Bits = 0 .. nbits - 1 /\ nbits \in Nat
  BY Sizes DEF Bits
<1> DEFINE S(x) == {i \in poly : i <= k /\ x[k - i] = 1}
<1>2. \A i \in poly : i \in Nat
  BY DEF Taps
<1>3. q[k] = 0 /\ r[k] = 1 /\ \A j \in 0 .. k - 1 : q[j] = r[j]
  BY <1>1 DEF Takes, Paths
<1>4. S(r) = S(q) \cup {0} /\ 0 \notin S(q)
  <2>1. \A i \in poly : i <= k => i = 0 \/ (i # 0 /\ k - i \in 0 .. k - 1)
    BY <1>1, <1>2
  <2>2. k - 0 = k /\ 0 <= k
    BY <1>1
  <2> QED
    BY <1>3, <2>1, <2>2
<1>5. IsFiniteSet(S(q))
  <2>1. 0 \in Int /\ 31 \in Int
    OBVIOUS
  <2>2. IsFiniteSet(0 .. 31)
    BY <2>1, FS_Interval
  <2>3. S(q) \in SUBSET (0 .. 31)
    BY DEF Taps
  <2> HIDE DEF S
  <2> QED
    BY <2>2, <2>3, FS_Subset
<1>6. Parity(q, k, poly) = Cardinality(S(q)) % 2 /\ Parity(r, k, poly) = Cardinality(S(r)) % 2
  BY Zenon DEF Parity
<1> HIDE DEF S
<1>7. PICK n \in Nat : n = Cardinality(S(q)) /\ n + 1 = Cardinality(S(r))
  <2>1. Cardinality(S(q)) \in Nat
    BY <1>5, FS_CardinalityType
  <2>2. Cardinality(S(q) \cup {0}) = Cardinality(S(q)) + 1
    BY <1>4, <1>5, FS_AddElement
  <2> QED
    BY <1>4, <2>1, <2>2
<1>8. n % 2 = 1 - ((n + 1) % 2)
  OBVIOUS
<1> QED
  BY <1>6, <1>7, <1>8, Zenon

(***************************************************************************)
(* The levels of a message's symbols.                                      *)
(***************************************************************************)
Level(symbol) == IF symbol = 0 THEN "0" ELSE "1"

Clean == received = [s \in Symbols |-> Level(encode(sent)[s])]

LEMMA CleanLevels ==
    ASSUME Clean, NEW k \in Bits
    PROVE  /\ received[2 * k] = Level(ENCODE(sent, k)[1])
           /\ received[2 * k + 1] = Level(ENCODE(sent, k)[2])
<1>1. k \in Nat /\ 2 * k \in Symbols /\ 2 * k + 1 \in Symbols
  BY Sizes DEF Bits, Symbols
<1>2. /\ (2 * k) \div 2 = k /\ (2 * k) % 2 = 0
      /\ (2 * k + 1) \div 2 = k /\ (2 * k + 1) % 2 = 1
  BY <1>1
<1>3. encode(sent)[2 * k] = ENCODE(sent, k)[1] /\ encode(sent)[2 * k + 1] = ENCODE(sent, k)[2]
  BY <1>1, <1>2 DEF encode
<1> QED
  BY <1>1, <1>3 DEF Clean

LEMMA CleanMetric ==
    ASSUME Clean, sent \in Paths, NEW p \in Paths, NEW k \in Bits, Agree(p, sent, k)
    PROVE  /\ Metric(p, k, sent[k]) = 10
           /\ Metric(p, k, 1 - sent[k]) < 0
<1>1. sent[k] \in {0, 1} /\ 1 - sent[k] \in {0, 1}
  BY DEF Paths
<1>2. /\ Metric(p, k, sent[k]) = Metric(sent, k, sent[k])
      /\ Metric(p, k, 1 - sent[k]) = Metric(sent, k, 1 - sent[k])
  BY <1>1, MetricLocal
<1>3. [sent EXCEPT ![k] = sent[k]] = sent
  BY DEF Paths
<1>4. PICK other : other = [sent EXCEPT ![k] = 1 - sent[k]]
  OBVIOUS
<1>5. PICK q, r : Takes(sent, k, 0, q) /\ Takes(sent, k, 1, r)
  BY DEF Takes
<1>6. /\ sent[k] = 0 => q = sent /\ r = other
      /\ sent[k] = 1 => r = sent /\ q = other
  <2>1. q = [sent EXCEPT ![k] = 0] /\ r = [sent EXCEPT ![k] = 1]
    BY <1>5, Zenon DEF Takes
  <2>2. ASSUME sent[k] = 0 PROVE q = sent /\ r = other
    <3>1. 1 - sent[k] = 1
      BY <2>2
    <3> QED
      BY <1>3, <1>4, <2>1, <2>2, <3>1, Zenon
  <2>3. ASSUME sent[k] = 1 PROVE r = sent /\ q = other
    <3>1. 1 - sent[k] = 0
      BY <2>3
    <3> QED
      BY <1>3, <1>4, <2>1, <2>3, <3>1, Zenon
  <2> QED
    BY <2>2, <2>3, Zenon
<1>7. ASSUME NEW poly \in Taps, 0 \in poly
      PROVE  Parity(sent, k, poly) \in {0, 1} /\ Parity(other, k, poly) = 1 - Parity(sent, k, poly)
  <2>1. Parity(q, k, poly) = 1 - Parity(r, k, poly)
    BY <1>5, <1>7, LastBitTaps
  <2>2. Parity(q, k, poly) \in {0, 1} /\ Parity(r, k, poly) \in {0, 1}
    BY Parities
  <2>3. Parity(r, k, poly) = 1 - Parity(q, k, poly)
    BY <2>1, <2>2
  <2>4. CASE sent[k] = 0
    BY <1>6, <2>2, <2>3, <2>4, Zenon
  <2>5. CASE sent[k] = 1
    BY <1>6, <2>1, <2>2, <2>5, Zenon
  <2> QED
    BY <1>1, <2>4, <2>5
<1>8. PICK x \in {0, 1}, y \in {0, 1} :
          ENCODE(sent, k) = <<x, y>> /\ ENCODE(other, k) = <<1 - x, 1 - y>>
  <2>1. 0 \in POLY1 /\ 0 \in POLY2
    BY DEF POLY1, POLY2
  <2>2. /\ Parity(sent, k, POLY1) \in {0, 1} /\ Parity(other, k, POLY1) = 1 - Parity(sent, k, POLY1)
        /\ Parity(sent, k, POLY2) \in {0, 1} /\ Parity(other, k, POLY2) = 1 - Parity(sent, k, POLY2)
    BY <1>7, <2>1, Polynomials
  <2> QED
    BY <2>2 DEF ENCODE
<1>9. received[2 * k] = Level(x) /\ received[2 * k + 1] = Level(y)
  BY <1>8, CleanLevels
<1>10. \A z \in {0, 1} : mettab(z, Level(z)) = 5 /\ mettab(1 - z, Level(z)) \in {-46, -47}
  BY DEF mettab, Level
<1>11. Metric(sent, k, sent[k]) = mettab(x, Level(x)) + mettab(y, Level(y))
  BY <1>3, <1>8, <1>9 DEF Metric
<1>12. Metric(sent, k, 1 - sent[k]) = mettab(1 - x, Level(x)) + mettab(1 - y, Level(y))
  BY <1>4, <1>8, <1>9 DEF Metric
<1> QED
  BY <1>2, <1>10, <1>11, <1>12

LEMMA CleanBranch ==
    ASSUME Clean, sent \in Tree, NEW p \in Paths, NEW k \in Bits, Agree(p, sent, k)
    PROVE  BestBranch(p, k) = sent[k]
<1>1. sent \in Paths /\ sent[k] \in {0, 1} /\ k \in Int /\ tail \in Int
  BY TreePaths, Sizes DEF Bits
<1>2. CASE k >= tail
  BY <1>1, <1>2 DEF BestBranch, Tree
<1>3. CASE ~(k >= tail)
  <2>1. Metric(p, k, sent[k]) = 10 /\ Metric(p, k, 1 - sent[k]) < 0
    BY <1>1, CleanMetric
  <2>2. CASE sent[k] = 0
    <3>1. Metric(p, k, 0) = 10 /\ Metric(p, k, 1) < 0
      BY <2>1, <2>2
    <3>2. Received
      BY DEF Clean, Received, Level
    <3>3. Metric(p, k, 1) \in Int
      BY <3>2, MetricType
    <3> QED
      BY <1>3, <2>2, <3>1, <3>3 DEF BestBranch
  <2>3. CASE sent[k] = 1
    <3>1. Metric(p, k, 1) = 10 /\ Metric(p, k, 0) < 0
      BY <2>1, <2>3
    <3>2. Received
      BY DEF Clean, Received, Level
    <3>3. Metric(p, k, 0) \in Int
      BY <3>2, MetricType
    <3>4. ~(Metric(p, k, 0) > Metric(p, k, 1))
      BY <3>1, <3>3
    <3> QED
      BY <1>3, <2>3, <3>4 DEF BestBranch
  <2> QED
    BY <1>1, <2>2, <2>3
<1> QED
  BY <1>2, <1>3

CleanInv ==
    /\ Clean /\ sent \in Tree
    /\ np \in 0 .. nbits /\ path \in Paths /\ gamma \in [0 .. nbits -> Int]
    /\ t \in Int /\ Multiple(t) /\ t <= gamma[np]
    /\ \A k \in 0 .. np : k < nbits => path[k] = sent[k]
    /\ fano_pc = IF np = nbits THEN 0 ELSE np + 1

LEMMA CleanInitially ==
    ASSUME \A f \in Fadings : f \cap Symbols = {}, SentMessages \subseteq Tree
    PROVE  FanoInit => CleanInv
<1> SUFFICES ASSUME FanoInit PROVE CleanInv
  OBVIOUS
<1>1. /\ nbits \in Nat /\ nbits > 0 /\ Bits = 0 .. nbits - 1 /\ 0 \in Bits /\ 0 \in 0 .. nbits
      /\ 0 # nbits
  BY Sizes DEF Bits
<1>2. sent \in Tree
  BY DEF FanoInit
<1>3. PICK fading \in Fadings :
          received = LET air == interleave(encode(sent))
                     IN  deinterleave([j \in Symbols |->
                            CASE j \in fading -> IF air[j] = 0 THEN "1" ELSE "0"
                              [] OTHER -> IF air[j] = 0 THEN "0" ELSE "1"])
  BY DEF FanoInit
<1>4. PICK levels : levels = [s \in Symbols |-> Level(encode(sent)[s])]
  OBVIOUS
<1>5. interleave(levels) = [j \in Symbols |-> Level(interleave(encode(sent))[j])]
  <2>1. \A j \in Symbols : Earlier[j] \in Symbols
    BY EarlierPermutes
  <2> QED
    BY <1>4, <2>1 DEF interleave
<1>6. received = deinterleave(interleave(levels))
  <2>1. \A j \in Symbols : j \notin fading
    BY <1>3
  <2>2. interleave(levels) = [j \in Symbols |->
            CASE j \in fading -> IF interleave(encode(sent))[j] = 0 THEN "1" ELSE "0"
              [] OTHER -> IF interleave(encode(sent))[j] = 0 THEN "0" ELSE "1"]
    BY <1>5, <2>1 DEF Level
  <2> QED
    BY <1>3, <2>2
<1>7. Clean
  <2>1. levels \in [Symbols -> {"0", "1"}]
    BY <1>4 DEF Level
  <2> QED
    BY <1>4, <1>6, <2>1, InterleaveInverts DEF Clean
<1>8. PICK zero : zero = [k \in Bits |-> 0]
  OBVIOUS
<1>9. zero \in Paths /\ Agree(zero, sent, 0)
  BY <1>8 DEF Paths, Agree
<1>10. /\ np = 0 /\ t = 0 /\ gamma = [k \in 0 .. nbits |-> 0]
       /\ path = [zero EXCEPT ![0] = BestBranch(zero, 0)] /\ fano_pc = 1
  BY <1>8 DEF FanoInit
<1>11. BestBranch(zero, 0) = sent[0] /\ sent[0] \in {0, 1}
  BY <1>1, <1>2, <1>7, <1>9, CleanBranch, TreePaths
<1>12. path \in Paths /\ path[0] = sent[0]
  BY <1>1, <1>9, <1>10, <1>11 DEF Paths
<1>13. gamma \in [0 .. nbits -> Int] /\ gamma[0] = 0 /\ 0 \in Int /\ Multiple(0)
  BY <1>1, <1>10, Multiples
<1>14. \A k \in 0 .. 0 : path[k] = sent[k]
  BY <1>12
<1> QED
  BY <1>1, <1>2, <1>7, <1>10, <1>12, <1>13, <1>14 DEF CleanInv

LEMMA CleanStep ==
    ASSUME nbits < maxcycles, CleanInv, FanoNext
    PROVE  CleanInv'
<1>1. nbits \in Nat /\ Bits = 0 .. nbits - 1 /\ maxcycles \in Nat
  BY Sizes DEF Bits
<1>2. np < nbits /\ np \in Nat /\ np \in Bits /\ np \in 0 .. nbits /\ fano_pc = np + 1
  BY <1>1 DEF CleanInv, FanoNext, Forward, Blocked, Backward
<1>3. \A k \in 0 .. np : path[k] = sent[k]
  BY <1>1, <1>2 DEF CleanInv
<1>4. Agree(path, sent, np) /\ path[np] = sent[np]
  BY <1>2, <1>3 DEF Agree
<1>5. sent \in Paths /\ path \in Paths /\ gamma[np] \in Int /\ t \in Int /\ t <= gamma[np]
  BY <1>2, TreePaths DEF CleanInv
<1>6. ngamma = gamma[np] + 10 /\ ngamma \in Int /\ t <= ngamma
  <2>1. Metric(path, np, path[np]) = 10
    BY <1>2, <1>4, <1>5, CleanMetric DEF CleanInv
  <2> QED
    BY <1>5, <2>1 DEF ngamma
<1>7. Forward
  BY <1>2, <1>5, <1>6 DEF FanoNext, Blocked, Backward
<1>8. /\ t' = Tightened(gamma, ngamma, t, np) /\ gamma' = [gamma EXCEPT ![np + 1] = ngamma]
      /\ np' = np + 1 /\ UNCHANGED <<sent, received>>
  BY <1>7, Zenon DEF Forward, Tightened
<1>9. t' \in Int /\ Multiple(t') /\ t' <= ngamma
  BY <1>5, <1>6, <1>8, TightenedBetween DEF CleanInv
<1>10. np + 1 \in 0 .. nbits /\ gamma' \in [0 .. nbits -> Int] /\ gamma'[np + 1] = ngamma
  BY <1>1, <1>2, <1>6, <1>8 DEF CleanInv
<1>11. Clean' /\ sent' \in Tree
  BY <1>8 DEF CleanInv, Clean
<1>12. CASE np + 1 = nbits
  <2>1. fano_pc' = 0 /\ path' = path
    BY <1>1, <1>2, <1>7, <1>12 DEF Forward
  <2>2. \A k \in 0 .. np + 1 : k < nbits => k \in 0 .. np
    BY <1>1, <1>2, <1>12
  <2>3. \A k \in 0 .. np + 1 : k < nbits => path'[k] = sent'[k]
    BY <1>3, <1>8, <2>1, <2>2
  <2> QED
    BY <1>5, <1>8, <1>9, <1>10, <1>11, <1>12, <2>1, <2>3 DEF CleanInv
<1>13. CASE np + 1 # nbits
  <2>1. path' = [path EXCEPT ![np + 1] = BestBranch(path, np + 1)] /\ fano_pc' = fano_pc + 1
    BY <1>7, <1>13, Zenon DEF Forward
  <2>2. np + 1 \in Bits /\ \A k \in 0 .. np : k \in Bits /\ k # np + 1
    BY <1>1, <1>2, <1>13
  <2>3. Agree(path, sent, np + 1)
    <3>1. \A k \in 0 .. (np + 1) - 1 : k \in 0 .. np
      BY <1>2
    <3> QED
      BY <1>3, <3>1 DEF Agree
  <2>4. BestBranch(path, np + 1) = sent[np + 1] /\ sent[np + 1] \in {0, 1}
    BY <1>5, <2>2, <2>3, CleanBranch, TreePaths DEF CleanInv
  <2>5. path' \in Paths /\ path'[np + 1] = sent[np + 1] /\ \A k \in 0 .. np : path'[k] = path[k]
    <3>1. path \in [Bits -> {0, 1}]
      BY <1>5 DEF Paths
    <3> QED
      BY <2>1, <2>2, <2>4, <3>1 DEF Paths
  <2>6. \A k \in 0 .. np + 1 : path'[k] = sent'[k]
    <3>1. \A k \in 0 .. np + 1 : k = np + 1 \/ k \in 0 .. np
      BY <1>2
    <3> QED
      BY <1>3, <1>8, <2>5, <3>1, Zenon
  <2>7. fano_pc' = (np + 1) + 1
    BY <1>2, <2>1
  <2> QED
    BY <1>8, <1>9, <1>10, <1>11, <1>13, <2>5, <2>6, <2>7 DEF CleanInv
<1> QED
  BY <1>12, <1>13

(***************************************************************************)
(* Over a channel that changes nothing every message is decoded, in a      *)
(* cycle for each bit: the encoder, the interleaver, the deinterleaver and *)
(* the decoder fit together.                                               *)
(***************************************************************************)
THEOREM CleanDecodes ==
    ASSUME \A f \in Fadings : f \cap Symbols = {}, SentMessages \subseteq Tree, nbits < maxcycles
    PROVE  FanoSpec => []FadedDecodes
<1>1. FanoInit => CleanInv
  BY CleanInitially
<1>2. CleanInv /\ [FanoNext]_fanoVars => CleanInv'
  <2> SUFFICES ASSUME CleanInv, [FanoNext]_fanoVars PROVE CleanInv'
    OBVIOUS
  <2>1. CASE FanoNext
    BY <2>1, CleanStep
  <2>2. CASE UNCHANGED fanoVars
    BY <2>2 DEF fanoVars, CleanInv, Clean
  <2> QED
    BY <2>1, <2>2
<1>3. CleanInv => FadedDecodes
  <2> SUFFICES ASSUME CleanInv PROVE FadedDecodes
    OBVIOUS
  <2>1. nbits \in Nat /\ maxcycles \in Nat /\ Bits = 0 .. nbits - 1
    BY Sizes DEF Bits
  <2>2. ASSUME fano_pc = 0 PROVE path = sent
    <3>1. np = nbits
      BY <2>1, <2>2 DEF CleanInv
    <3>2. \A k \in Bits : path[k] = sent[k]
      BY <2>1, <3>1 DEF CleanInv
    <3> QED
      BY <3>2 DEF CleanInv, Paths, Tree
  <2>3. fano_pc <= maxcycles
    BY <2>1 DEF CleanInv
  <2> QED
    BY <2>2, <2>3 DEF FadedDecodes
<1> QED
  BY <1>1, <1>2, <1>3, PTL DEF FanoSpec

=============================================================================
