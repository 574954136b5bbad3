------------------------------ MODULE Jt9Proofs ------------------------------
(***************************************************************************)
(* What the second FT8 decoder reports and leaves behind, and when it is   *)
(* given up, for any deadlines, numbers of frames and lines, and whatever  *)
(* the child does.                                                         *)
(***************************************************************************)
EXTENDS Jt9Decoder, TLAPS, WellFoundedInduction

(* Where a started child may be running.                                   *)
Waited == {"ft8", "wait", "kill"}

(***************************************************************************)
(* The part of the types the invariants need.                              *)
(***************************************************************************)
Jt9Shape ==
    /\ thread \in Threads
    /\ jt9_enabled \in BOOLEAN
    /\ active \in BOOLEAN
    /\ jt9_success \in BOOLEAN
    /\ files \subseteq AllFiles

(***************************************************************************)
(* A job is under way from its start to jt9_decoder_finish, and only while *)
(* jt9 is used; its child is reaped before that.                           *)
(***************************************************************************)
JobOwned ==
    /\ active => jt9_enabled /\ thread \in Waited \cup {"finish"}
    /\ thread \in {"wait", "kill", "finish"} => active
    /\ thread = "warmup" => jt9_enabled
    /\ thread = "init" => ~jt9_enabled
    /\ child # "none" => active /\ thread \in Waited

(***************************************************************************)
(* Without a job the directory holds nothing but the wisdom; without jt9   *)
(* there is neither file nor directory.                                    *)
(***************************************************************************)
FilesOwned ==
    /\ directory = jt9_enabled
    /\ ~active => files \subseteq {Wisdom}
    /\ ~jt9_enabled => files = {}

Jt9Inv == Jt9Shape /\ JobOwned /\ FilesOwned

(***************************************************************************)
(* The count of failures is the length of the run of failures the outcomes *)
(* end with; while jt9 is used it is below the limit.                      *)
(***************************************************************************)
FailuresCounted ==
    /\ outcomes \in Seq(BOOLEAN)
    /\ failures \in Nat
    /\ thread = "init" => failures = 0 /\ outcomes = <<>>
    /\ jt9_enabled =>
          /\ failures < MaxFailures
          /\ failures <= Len(outcomes)
          /\ \A i \in Len(outcomes) - failures + 1 .. Len(outcomes) : ~outcomes[i]
          /\ failures < Len(outcomes) => outcomes[Len(outcomes) - failures]

-----------------------------------------------------------------------------
(***************************************************************************)
(* Freeing the decoder when it has no more than the files it knows removes *)
(* them and the directory (jt9_decoder_free).                              *)
(***************************************************************************)
LEMMA FreedWhole ==
    ASSUME NEW left \in SUBSET {Generated, Wisdom}, FreeDecoder(left)
    PROVE  jt9_enabled' = FALSE /\ files' = {} /\ directory' = FALSE
<1>1. AfterFree(left) = {}
  BY DEF AfterFree
<1> QED
  BY <1>1 DEF FreeDecoder

(***************************************************************************)
(* No decoder, no job and no file before main sets jt9 up.                 *)
(***************************************************************************)
LEMMA Jt9Init == Init => Jt9Inv
BY DEF Init, Jt9Inv, Jt9Shape, JobOwned, FilesOwned, Threads, Waited

(***************************************************************************)
(* Every step of the thread, the child and the clock keeps the invariant.  *)
(***************************************************************************)
LEMMA Jt9Step == Jt9Inv /\ [Next]_vars => Jt9Inv'
<1> SUFFICES ASSUME Jt9Inv, [Next]_vars
             PROVE  Jt9Inv'
  OBVIOUS
<1> USE DEF Jt9Inv, Jt9Shape, JobOwned, FilesOwned, Waited, Threads
<1>1. CASE DecoderInit
  <2>1. files = {} /\ ~active /\ child = "none"
    BY <1>1 DEF DecoderInit
  <2> QED
    BY <1>1, <2>1 DEF DecoderInit, jobVars
<1>2. CASE WarmupStart
  <2>1. jt9_enabled /\ ~active /\ child = "none" /\ files \subseteq {Wisdom}
    BY <1>2 DEF WarmupStart
  <2>2. CASE StartSucceeds(WarmupTimeout) /\ thread' = "wait"
                /\ UNCHANGED <<jt9_enabled, directory>>
    BY <1>2, <2>1, <2>2 DEF WarmupStart, StartSucceeds, WriteWave, AllFiles
  <2>3. CASE StartFails /\ FreeDecoder(AfterFailure(WriteWave(files)))
                /\ thread' = "idle"
    <3>1. AfterFailure(WriteWave(files)) \in SUBSET {Generated, Wisdom}
      BY <2>1 DEF AfterFailure, WriteWave
    <3>2. jt9_enabled' = FALSE /\ files' = {} /\ directory' = FALSE
      BY <2>3, <3>1, FreedWhole
    <3> QED
      BY <1>2, <2>1, <2>3, <3>2 DEF WarmupStart, StartFails
  <2> QED
    BY <1>2, <2>2, <2>3 DEF WarmupStart
<1>3. CASE WarmupFinish
  <2>1. jt9_enabled /\ child = "none" /\ active' = FALSE /\ child' = child
        /\ thread' = "idle" /\ jt9_success' = FALSE
    BY <1>3 DEF WarmupFinish, EndJob
  <2>2. AfterCleanup(files) \subseteq {Wisdom}
    BY DEF AfterCleanup, AllFiles
  <2>3. CASE files' = AfterCleanup(files) /\ UNCHANGED <<jt9_enabled, directory>>
    BY <2>1, <2>2, <2>3 DEF AllFiles
  <2>4. CASE FreeDecoder(AfterCleanup(files))
    <3>1. jt9_enabled' = FALSE /\ files' = {} /\ directory' = FALSE
      BY <2>2, <2>4, FreedWhole
    <3> QED
      BY <2>1, <3>1
  <2> QED
    BY <1>3, <2>3, <2>4 DEF WarmupFinish
<1>4. CASE FrameStart
  <2>1. ~active /\ child = "none" /\ files \subseteq {Wisdom}
    BY <1>4 DEF FrameStart
  <2>2. CASE jt9_enabled /\ StartSucceeds(DecodeTimeout)
    BY <1>4, <2>1, <2>2 DEF FrameStart, StartSucceeds, WriteWave, AllFiles, decoderVars
  <2>3. CASE jt9_enabled /\ StartFails /\ files' = AfterFailure(WriteWave(files))
    <3>1. AfterFailure(WriteWave(files)) \subseteq {Wisdom}
      BY <2>1 DEF AfterFailure, WriteWave
    <3> QED
      BY <1>4, <2>1, <2>3, <3>1 DEF FrameStart, StartFails, AllFiles, decoderVars
  <2>4. CASE ~jt9_enabled /\ UNCHANGED <<files, child, active>>
    BY <1>4, <2>1, <2>4 DEF FrameStart, decoderVars
  <2> QED
    BY <1>4, <2>2, <2>3, <2>4 DEF FrameStart
<1>5. CASE Ft8Decode
  BY <1>5 DEF Ft8Decode, decoderVars
<1>6. CASE WaitForChild
  BY <1>6 DEF WaitForChild, decoderVars
<1>7. CASE KillChild
  BY <1>7 DEF KillChild, decoderVars
<1>8. CASE DecoderFinish
  <2>1. AfterCleanup(files) \subseteq {Wisdom}
    BY DEF AfterCleanup, AllFiles
  <2> QED
    BY <1>8, <2>1 DEF DecoderFinish, EndJob, decoderVars, AllFiles
<1>9. CASE Conclude
  <2>1. ~active /\ child = "none" /\ files \subseteq {Wisdom}
    BY <1>9 DEF Conclude
  <2>2. CASE UNCHANGED <<jt9_enabled, directory, files>>
    BY <1>9, <2>1, <2>2 DEF Conclude, jobVars
  <2>3. CASE FreeDecoder(files)
    <3>1. jt9_enabled' = FALSE /\ files' = {} /\ directory' = FALSE
      BY <2>1, <2>3, FreedWhole
    <3> QED
      BY <1>9, <2>1, <3>1 DEF Conclude, jobVars
  <2> QED
    BY <1>9, <2>2, <2>3 DEF Conclude, CountFailures
<1>10. CASE ThreadEnds
  BY <1>10 DEF ThreadEnds, decoderVars, jobVars
<1>11. CASE MainFrees
  <2>1. ~active /\ child = "none" /\ files \subseteq {Wisdom}
    BY <1>11 DEF MainFrees
  <2>2. jt9_enabled' = FALSE /\ files' = {} /\ directory' = FALSE
    BY <1>11, <2>1, FreedWhole DEF MainFrees
  <2> QED
    BY <1>11, <2>1, <2>2 DEF MainFrees, jobVars
<1>12. CASE SigintHandler
  BY <1>12 DEF SigintHandler, decoderVars, jobVars
<1>13. CASE ChildPrints
  BY <1>13 DEF ChildPrints, decoderVars, jobVars
<1>14. CASE ChildCreates
  BY <1>14 DEF ChildCreates, decoderVars, jobVars, AllFiles
<1>15. CASE ChildEnds
  BY <1>15 DEF ChildEnds, decoderVars, jobVars
<1>16. CASE Tick
  BY <1>16 DEF Tick, decoderVars, jobVars
<1>17. CASE UNCHANGED vars
  BY <1>17 DEF vars, decoderVars, jobVars
<1> QED
  BY <1>1, <1>2, <1>3, <1>4, <1>5, <1>6, <1>7, <1>8, <1>9, <1>10, <1>11, <1>12,
     <1>13, <1>14, <1>15, <1>16, <1>17 DEF Next, Decoder

(***************************************************************************)
(* No child is left unreaped and no file in RAM, whatever the child did    *)
(* and wherever a run failed (jt9_decoder_finish, jt9_decoder_free).       *)
(***************************************************************************)
THEOREM ChildrenReaped == Spec => []NothingLeft
<1>1. Jt9Inv => NothingLeft
  <2> SUFFICES ASSUME Jt9Inv
               PROVE  NothingLeft
    OBVIOUS
  <2> USE DEF Jt9Inv, Jt9Shape, JobOwned, FilesOwned, Waited
  <2>1. child # "none" => active /\ thread \in {"ft8", "wait", "kill"}
    OBVIOUS
  <2>2. thread \in {"idle", "ended", "freed"} => ~active
    OBVIOUS
  <2> QED
    BY <2>1, <2>2 DEF NothingLeft
<1> QED
  BY <1>1, Jt9Init, Jt9Step, PTL DEF Spec

-----------------------------------------------------------------------------
(***************************************************************************)
(* Without a failure the run of failures is empty.                         *)
(***************************************************************************)
LEMMA NothingCounted == Init => FailuresCounted
BY Jt9Assumption DEF Init, FailuresCounted

(***************************************************************************)
(* The conclusion of a frame in use: the count goes on as the run does,    *)
(* and jt9 is given up when it has the limit's length (wsprDecoder).       *)
(***************************************************************************)
LEMMA RunCounted ==
    ASSUME Jt9Inv, FailuresCounted, Conclude, jt9_enabled
    PROVE  /\ FailuresCounted'
           /\ jt9_enabled' = ~AllFailed(outcomes')
<1> USE Jt9Assumption DEF FailuresCounted
<1> DEFINE N == Len(outcomes)
<1>1. /\ outcomes' = Append(outcomes, jt9_success)
      /\ jt9_success \in BOOLEAN
      /\ thread' = "idle"
      /\ N \in Nat
  BY DEF Conclude, Jt9Inv, Jt9Shape
<1>2. /\ outcomes' \in Seq(BOOLEAN)
      /\ Len(outcomes') = N + 1
      /\ outcomes'[N + 1] = jt9_success
      /\ \A i \in 1 .. N : outcomes'[i] = outcomes[i]
  BY <1>1
<1>3. CASE jt9_success
  <2>1. failures' = 0 /\ jt9_enabled' = jt9_enabled
    BY <1>3, Zenon DEF Conclude, CountFailures
  <2>2. outcomes'[N + 1] /\ N + 1 \in Len(outcomes') - MaxFailures + 1 .. Len(outcomes')
    BY <1>1, <1>2, <1>3
  <2>3. ~AllFailed(outcomes')
    BY <2>2, Zenon DEF AllFailed
  <2>4. FailuresCounted'
    <3>1. failures' < MaxFailures /\ failures' <= Len(outcomes')
      BY <1>1, <1>2, <2>1
    <3>2. \A i \in Len(outcomes') - failures' + 1 .. Len(outcomes') : ~outcomes'[i]
      BY <1>1, <1>2, <2>1
    <3>3. outcomes'[Len(outcomes') - failures']
      BY <1>1, <1>2, <1>3, <2>1
    <3> QED
      BY <1>1, <1>2, <2>1, <3>1, <3>2, <3>3
  <2> QED
    BY <2>1, <2>3, <2>4
<1>4. CASE ~jt9_success
  <2>1. /\ failures' = failures + 1
        /\ IF failures + 1 >= MaxFailures
           THEN FreeDecoder(files)
           ELSE UNCHANGED <<jt9_enabled, directory, files>>
    BY <1>4, Zenon DEF Conclude, CountFailures
  <2>2. \A i \in N - failures + 1 .. N + 1 : ~outcomes'[i]
    <3> TAKE i \in N - failures + 1 .. N + 1
    <3>1. CASE i = N + 1
      BY <1>2, <1>4, <3>1
    <3>2. CASE i # N + 1
      BY <1>1, <1>2, <3>2
    <3> QED
      BY <3>1, <3>2
  <2>3. CASE failures + 1 >= MaxFailures
    <3>1. jt9_enabled' = FALSE
      BY <2>1, <2>3, Zenon DEF FreeDecoder
    <3>2. Len(outcomes') >= MaxFailures
      BY <1>1, <1>2, <2>3
    <3>3. \A i \in Len(outcomes') - MaxFailures + 1 .. Len(outcomes') : ~outcomes'[i]
      BY <1>1, <1>2, <2>2, <2>3
    <3>4. AllFailed(outcomes')
      BY <3>2, <3>3, Zenon DEF AllFailed
    <3>5. FailuresCounted'
      BY <1>1, <1>2, <2>1, <3>1
    <3> QED
      BY <3>1, <3>4, <3>5, Zenon
  <2>4. CASE ~(failures + 1 >= MaxFailures)
    <3>1. jt9_enabled' = jt9_enabled
      BY <2>1, <2>4, Zenon
    <3>2. failures < N => outcomes'[N - failures]
      BY <1>1, <1>2
    <3>3. ~AllFailed(outcomes')
      <4>1. ASSUME Len(outcomes') >= MaxFailures
            PROVE  /\ failures < N
                   /\ N - failures \in
                        Len(outcomes') - MaxFailures + 1 .. Len(outcomes')
        BY <1>1, <1>2, <2>4, <4>1
      <4> QED
        BY <3>2, <4>1, Zenon DEF AllFailed
    <3>4. FailuresCounted'
      <4>1. failures' < MaxFailures /\ failures' <= Len(outcomes')
        BY <1>1, <1>2, <2>1, <2>4
      <4>2. \A i \in Len(outcomes') - failures' + 1 .. Len(outcomes') : ~outcomes'[i]
        BY <1>1, <1>2, <2>1, <2>2
      <4>3. failures' < Len(outcomes') => outcomes'[Len(outcomes') - failures']
        BY <1>1, <1>2, <2>1, <3>2
      <4> QED
        BY <1>1, <1>2, <2>1, <4>1, <4>2, <4>3
    <3> QED
      BY <3>1, <3>3, <3>4
  <2> QED
    BY <2>3, <2>4
<1> QED
  BY <1>1, <1>3, <1>4

(***************************************************************************)
(* Every step keeps the count, and a step that concludes a frame gives jt9 *)
(* up exactly after a run of failures of the limit's length.               *)
(***************************************************************************)
LEMMA FailuresStep ==
    Jt9Inv /\ FailuresCounted /\ [Next]_vars =>
        /\ FailuresCounted'
        /\ outcomes' # outcomes =>
              jt9_enabled' = (jt9_enabled /\ ~AllFailed(outcomes'))
<1> SUFFICES ASSUME Jt9Inv, FailuresCounted, [Next]_vars
             PROVE  /\ FailuresCounted'
                    /\ outcomes' # outcomes =>
                          jt9_enabled' = (jt9_enabled /\ ~AllFailed(outcomes'))
  OBVIOUS
<1>1. CASE Conclude
  <2>1. CASE jt9_enabled
    BY <1>1, <2>1, RunCounted
  <2>2. CASE ~jt9_enabled
    <3>1. /\ failures' \in Nat /\ jt9_enabled' = FALSE /\ thread' = "idle"
          /\ outcomes' = Append(outcomes, jt9_success) /\ jt9_success \in BOOLEAN
      BY <1>1, <2>2 DEF Conclude, CountFailures, FailuresCounted, Jt9Inv, Jt9Shape
    <3>2. FailuresCounted'
      BY <3>1 DEF FailuresCounted
    <3> QED
      BY <2>2, <3>1, <3>2, Zenon
  <2> QED
    BY <2>1, <2>2 DEF Jt9Inv, Jt9Shape
<1>2. CASE DecoderInit
  BY <1>2, Jt9Assumption DEF DecoderInit, history, FailuresCounted
<1>3. CASE ~Conclude /\ ~DecoderInit
  <2>1. UNCHANGED <<failures, outcomes>> /\ (jt9_enabled' => jt9_enabled)
        /\ (thread' = "init" => thread = "init")
    BY <1>3 DEF Next, Decoder, vars, decoderVars, history, WarmupStart, WarmupFinish,
       FreeDecoder, FrameStart, Ft8Decode, WaitForChild, KillChild, DecoderFinish,
       ThreadEnds, MainFrees, SigintHandler, ChildPrints, ChildCreates, ChildEnds, Tick
  <2> QED
    BY <2>1 DEF FailuresCounted
<1> QED
  BY <1>1, <1>2, <1>3

(***************************************************************************)
(* For any limit: jt9 is given up after a frame exactly if it was in use   *)
(* and that many frames in a row failed, this one the last (wsprDecoder).  *)
(***************************************************************************)
THEOREM GivenUpAfterLimit == Spec => DisabledAfterThree
<1>1. Jt9Inv /\ FailuresCounted /\ [Next]_vars =>
          [outcomes' # outcomes =>
              jt9_enabled' = (jt9_enabled /\ ~AllFailed(outcomes'))]_vars
  BY FailuresStep
<1> QED
  BY <1>1, Jt9Init, Jt9Step, NothingCounted, FailuresStep, PTL
     DEF Spec, DisabledAfterThree

-----------------------------------------------------------------------------
(***************************************************************************)
(* decode.out holds lines of this frame only, and none without a job; of   *)
(* both arrays the entries that count are of this frame.                   *)
(***************************************************************************)
OwnInv ==
    /\ output \in Seq({frame, NoDecode})
    /\ ~active => output = <<>>
    /\ ft8_count \in 0 .. MaxResults
    /\ \A i \in 1 .. ft8_count : ft8_results[i] = frame
    /\ \A i \in 1 .. jt9_count : jt9_results[i] = frame
    /\ reported \subseteq {frame}

(***************************************************************************)
(* A set of numbers has a least one.                                       *)
(***************************************************************************)
LEMMA LeastNatural ==
    ASSUME NEW S \in SUBSET Nat, S # {}
    PROVE  \E n \in S : \A m \in S : n <= m
<1>1. \E R : IsWellFoundedOn(R, Nat) /\ \A x, y \in Nat : y < x => <<y, x>> \in R
  <2>1. IsWellFoundedOn(OpToRel(<, Nat), Nat)
    BY NatLessThanWellFounded
  <2>2. \A x, y \in Nat : y < x => <<y, x>> \in OpToRel(<, Nat)
    BY DEF OpToRel
  <2> QED
    BY <2>1, <2>2, Zenon
<1>2. PICK R : IsWellFoundedOn(R, Nat) /\ \A x, y \in Nat : y < x => <<y, x>> \in R
  BY <1>1
<1>3. PICK x \in S : \A y \in S : ~(<<y, x>> \in R)
  BY <1>2, WFMin
<1>4. \A y \in S : ~(y < x)
  BY <1>2, <1>3, Zenon
<1> QED
  BY <1>4

(***************************************************************************)
(* Induction up to n, on a set.                                            *)
(***************************************************************************)
LEMMA UpTo ==
    ASSUME NEW n \in Nat, NEW S, 0 \in S,
           \A m \in 0 .. n - 1 : m \in S => m + 1 \in S
    PROVE  0 .. n \subseteq S
<1> DEFINE Bad == {m \in 0 .. n : m \notin S}
<1> SUFFICES ASSUME Bad # {}
             PROVE  FALSE
  OBVIOUS
<1>1. Bad \in SUBSET Nat
  OBVIOUS
<1>2. PICK m \in Bad : \A k \in Bad : m <= k
  BY <1>1, LeastNatural
<1>3. m # 0 /\ m - 1 \in 0 .. n - 1
  BY <1>2
<1>4. m - 1 \in S
  BY <1>2, <1>3
<1>5. (m - 1) + 1 = m
  BY <1>2
<1> QED
  BY <1>2, <1>3, <1>4, <1>5

(***************************************************************************)
(* What is read of the output: its decodes, no more than the array holds.  *)
(***************************************************************************)
LEMMA ReadsDecodes ==
    ASSUME NEW S, NEW lines \in Seq(S)
    PROVE  /\ Read(lines) \in Seq({line \in S : line # NoDecode})
           /\ Len(Read(lines)) <= MaxResults
<1> DEFINE T == {line \in S : line # NoDecode}
           N == Len(lines)
           Taken(taken, line) == IF Len(taken) < MaxResults /\ jt9_parse_decode_line(line)
                                 THEN Append(taken, line) ELSE taken
           Loop(f, m) == f = [i \in 0 .. m |-> IF i = 0 THEN <<>>
                                                ELSE Taken(f[i - 1], lines[i])]
           results == CHOOSE f : Loop(f, N)
<1>1. N \in Nat /\ MaxResults \in Nat
  BY Jt9Assumption
<1>2. \E f : Loop(f, N)
  <2> DEFINE Good == {m \in 0 .. N : \E f : Loop(f, m)}
  <2>1. 0 \in Good
    <3> DEFINE f == [i \in 0 .. 0 |-> <<>>]
    <3>1. f = [i \in 0 .. 0 |-> IF i = 0 THEN <<>> ELSE Taken(f[i - 1], lines[i])]
      OBVIOUS
    <3> HIDE DEF f
    <3>2. Loop(f, 0)
      BY <3>1
    <3> QED
      BY <1>1, <3>2
  <2>2. ASSUME NEW m \in 0 .. N - 1, m \in Good
        PROVE  m + 1 \in Good
    <3>1. PICK f : Loop(f, m)
      BY <2>2
    <3> DEFINE g == [i \in 0 .. m + 1 |-> IF i \in 0 .. m THEN f[i]
                                          ELSE Taken(f[m], lines[m + 1])]
               h == [i \in 0 .. m + 1 |-> IF i = 0 THEN <<>>
                                          ELSE Taken(g[i - 1], lines[i])]
    <3> HIDE DEF Taken
    <3>2. ASSUME NEW i \in 0 .. m + 1
          PROVE  g[i] = h[i]
      <4>1. CASE i = 0
        BY <3>1, <4>1
      <4>2. CASE i \in 1 .. m
        <5>1. i \in 0 .. m /\ i - 1 \in 0 .. m /\ i \in 0 .. m + 1 /\ i - 1 \in 0 .. m + 1
          BY <4>2
        <5>2. g[i] = f[i] /\ g[i - 1] = f[i - 1]
          BY <5>1
        <5>3. f[i] = Taken(f[i - 1], lines[i])
          BY <3>1, <4>2, <5>1
        <5> QED
          BY <4>2, <5>1, <5>2, <5>3
      <4>3. CASE i = m + 1
        <5>1. m \in 0 .. m /\ m \in 0 .. m + 1 /\ i - 1 = m /\ i \notin 0 .. m /\ i # 0
          BY <4>3
        <5>2. g[m] = f[m] /\ g[i] = Taken(f[m], lines[m + 1])
          BY <4>3, <5>1
        <5> QED
          BY <4>3, <5>1, <5>2
      <4> QED
        BY <4>1, <4>2, <4>3
    <3>3. g = h
      BY <3>2
    <3> HIDE DEF g
    <3>4. Loop(g, m + 1)
      BY <3>3
    <3> QED
      BY <1>1, <3>4
  <2> HIDE DEF Good
  <2>3. 0 .. N \subseteq Good
    BY <1>1, <2>1, <2>2, UpTo
  <2>4. N \in Good
    BY <1>1, <2>3
  <2> QED
    BY <2>4, Zenon DEF Good
<1>3. Loop(results, N)
  BY <1>2, Zenon
<1>4. Read(lines) = results[N]
  BY DEF Read
<1> HIDE DEF results, Taken
<1>5. /\ results[0] = <<>>
      /\ \A i \in 1 .. N : results[i] = Taken(results[i - 1], lines[i])
  <2>1. results = [i \in 0 .. N |-> IF i = 0 THEN <<>>
                                     ELSE Taken(results[i - 1], lines[i])]
    BY <1>3
  <2>2. 0 \in 0 .. N /\ (\A i \in 1 .. N : i \in 0 .. N /\ i # 0)
    BY <1>1
  <2> QED
    BY <2>1, <2>2
<1> DEFINE Sound == {i \in 0 .. N : results[i] \in Seq(T) /\ Len(results[i]) <= MaxResults}
<1>6. 0 \in Sound
  <2>1. <<>> \in Seq(T) /\ Len(<<>>) = 0
    OBVIOUS
  <2>2. results[0] \in Seq(T) /\ Len(results[0]) = 0
    BY <1>5, <2>1
  <2>3. 0 \in 0 .. N /\ 0 <= MaxResults
    BY <1>1
  <2> QED
    BY <2>2, <2>3
<1>7. ASSUME NEW m \in 0 .. N - 1, m \in Sound
      PROVE  m + 1 \in Sound
  <2>1. m + 1 \in 1 .. N /\ (m + 1) - 1 = m
    BY <1>1
  <2>2. results[m + 1] = Taken(results[m], lines[m + 1]) /\ lines[m + 1] \in S
    BY <1>5, <2>1
  <2>3. results[m] \in Seq(T) /\ Len(results[m]) <= MaxResults /\ Len(results[m]) \in Nat
    BY <1>7
  <2> USE DEF Taken
  <2>4. CASE Len(results[m]) < MaxResults /\ jt9_parse_decode_line(lines[m + 1])
    <3>1. lines[m + 1] \in T
      BY <2>2, <2>4 DEF jt9_parse_decode_line
    <3>2. results[m + 1] = Append(results[m], lines[m + 1])
      BY <2>2, <2>4
    <3> HIDE DEF T
    <3>3. results[m + 1] \in Seq(T) /\ Len(results[m + 1]) = Len(results[m]) + 1
      BY <2>3, <3>1, <3>2
    <3> QED
      BY <1>1, <2>1, <2>3, <2>4, <3>3
  <2>5. CASE ~(Len(results[m]) < MaxResults /\ jt9_parse_decode_line(lines[m + 1]))
    BY <1>1, <2>1, <2>2, <2>3, <2>5
  <2> QED
    BY <2>4, <2>5
<1> HIDE DEF Sound
<1>8. 0 .. N \subseteq Sound
  BY <1>1, <1>6, <1>7, UpTo
<1>9. N \in Sound
  BY <1>1, <1>8
<1> QED
  BY <1>4, <1>9 DEF Sound

(***************************************************************************)
(* Nothing is read or reported before the first frame.                     *)
(***************************************************************************)
LEMMA OwnInitially == Init => OwnInv
BY Jt9Assumption DEF Init, OwnInv

(***************************************************************************)
(* The counts start from 0 with each frame, what a job prints is discarded *)
(* with it, and only entries below the counts are reported.                *)
(***************************************************************************)
LEMMA OwnStep == Jt9Inv /\ OwnInv /\ [Next]_vars => OwnInv'
<1> SUFFICES ASSUME Jt9Inv, OwnInv, [Next]_vars
             PROVE  OwnInv'
  OBVIOUS
<1>0. /\ MaxResults \in Nat \ {0}
      /\ active => thread \in {"ft8", "wait", "kill", "finish"}
      /\ active \in BOOLEAN
      /\ child # "none" => active
      /\ thread \in {"wait", "kill", "finish"} => active
  BY Jt9Assumption DEF Jt9Inv, Jt9Shape, JobOwned, Waited
<1>1. ASSUME UNCHANGED <<output, active, resultVars, frame, reported>>
      PROVE  OwnInv'
  BY <1>1 DEF OwnInv, resultVars
<1>2. ASSUME UNCHANGED <<resultVars, frame, reported>>, output' = <<>>
      PROVE  OwnInv'
  <2>1. output' \in Seq({frame, NoDecode})
    BY <1>2
  <2> QED
    BY <1>2, <2>1 DEF OwnInv, resultVars
<1>3. CASE WarmupStart
  <2>1. output' = <<>>
    BY <1>3 DEF WarmupStart, StartSucceeds, StartFails
  <2> QED
    BY <1>2, <1>3, <2>1 DEF WarmupStart, history
<1>4. CASE WarmupFinish
  BY <1>2, <1>4 DEF WarmupFinish, EndJob, history
<1>5. CASE FrameStart
  <2>1. ~active /\ output = <<>>
    BY <1>0, <1>5 DEF FrameStart, OwnInv
  <2>2. output' = <<>>
    BY <1>5, <2>1 DEF FrameStart, StartSucceeds, StartFails
  <2>3. output' \in Seq({frame', NoDecode})
    BY <2>2
  <2> QED
    BY <1>0, <1>5, <2>2, <2>3 DEF FrameStart, OwnInv
<1>6. CASE Ft8Decode
  <2>1. PICK count \in 0 .. MaxResults :
           /\ ft8_count' = count
           /\ ft8_results' = [i \in 1 .. MaxResults |->
                                 IF i <= count THEN frame ELSE ft8_results[i]]
    BY <1>6 DEF Ft8Decode
  <2>2. \A i \in 1 .. ft8_count' : ft8_results'[i] = frame
    BY <1>0, <2>1
  <2>3. UNCHANGED <<output, active, jt9_results, jt9_count, frame, reported>>
    BY <1>6 DEF Ft8Decode, history
  <2> QED
    BY <2>1, <2>2, <2>3 DEF OwnInv
<1>7. CASE DecoderFinish
  <2>1. /\ output' = <<>> /\ output' \in Seq({frame, NoDecode})
        /\ UNCHANGED <<ft8_results, ft8_count, frame, reported>>
    BY <1>7 DEF DecoderFinish, EndJob, history
  <2>2. \A i \in 1 .. jt9_count' : jt9_results'[i] = frame
    <3>1. CASE Parse
      <4> DEFINE read == Read(output)
      <4>1. /\ read \in Seq({line \in {frame, NoDecode} : line # NoDecode})
            /\ Len(read) <= MaxResults
        BY ReadsDecodes DEF OwnInv
      <4>2. /\ jt9_count' = Len(read)
            /\ jt9_results' = [i \in 1 .. MaxResults |->
                                  IF i <= Len(read) THEN read[i] ELSE jt9_results[i]]
        BY <3>1 DEF Parse
      <4> HIDE DEF read
      <4>3. \A i \in 1 .. Len(read) : read[i] = frame
        BY <4>1
      <4>4. Len(read) \in Nat
        BY <4>1
      <4> QED
        BY <1>0, <4>1, <4>2, <4>3, <4>4
    <3>2. CASE jt9_count' = 0
      BY <3>2
    <3> QED
      BY <1>7, <3>1, <3>2 DEF DecoderFinish
  <2> QED
    BY <2>1, <2>2 DEF OwnInv
<1>8. CASE Conclude
  <2>1. Reported \subseteq {frame}
    BY DEF Reported, OwnInv
  <2> QED
    BY <1>8, <2>1 DEF Conclude, OwnInv, jobVars, resultVars
<1>9. CASE ChildPrints
  <2>1. PICK line \in {frame, NoDecode} : output' = Append(output, line)
    BY <1>9 DEF ChildPrints
  <2>2. output' \in Seq({frame, NoDecode})
    BY <2>1 DEF OwnInv
  <2>3. active /\ UNCHANGED <<active, resultVars, frame, reported>>
    BY <1>0, <1>9 DEF ChildPrints, jobVars, history
  <2> QED
    BY <2>2, <2>3 DEF OwnInv, resultVars
<1>10. CASE DecoderInit \/ WaitForChild \/ KillChild \/ ThreadEnds \/ MainFrees
              \/ SigintHandler \/ ChildCreates \/ ChildEnds \/ Tick \/ UNCHANGED vars
  BY <1>1, <1>10 DEF DecoderInit, WaitForChild, KillChild, ThreadEnds, MainFrees,
     SigintHandler, ChildCreates, ChildEnds, Tick, vars, jobVars, history
<1> QED
  BY <1>3, <1>4, <1>5, <1>6, <1>7, <1>8, <1>9, <1>10 DEF Next, Decoder

(***************************************************************************)
(* What is reported for a frame was decoded from that frame, by whichever  *)
(* decoder, for any number of lines, frames and places in the arrays.      *)
(***************************************************************************)
THEOREM ResultsAreOwn == Spec => []OwnResults
<1>1. OwnInv => OwnResults
  BY DEF OwnInv, OwnResults
<1> QED
  BY <1>1, Jt9Init, Jt9Step, OwnInitially, OwnStep, PTL DEF Spec

=============================================================================
