---------------------------- MODULE FanoDecoder ----------------------------
(***************************************************************************)
(* WSPR's channel code: the convolutional encoder and the Fano sequential  *)
(* decoder of core/fano.c, with the interleaver of core/wsprsim_utils.c    *)
(* and core/wsprd_utils.c between them.                                    *)
(*                                                                         *)
(* A node of the code tree is a bit of the message. The encoder state of   *)
(* node k is the bits path[0 .. k]; path[k] is the branch being tried, and *)
(* branch[k] says whether it is the better (0) or the worse one (1). The   *)
(* 256 levels of a received symbol are reduced to a clear 0, a clear 1 and *)
(* an erased one, "?", with the metrics the table gives them.              *)
(***************************************************************************)
EXTENDS Integers, Sequences, FiniteSets

CONSTANTS
    nbits,       \* bits of a message with its tail
    ntail,       \* zero bits at its end
    delta,       \* step of the threshold
    maxcycles,   \* forward looks before the decoder gives up
    SentMessages,    \* the messages sent
    Fadings      \* sets of channel symbols that arrive inverted

(***************************************************************************)
(* The interleaver counts to 256, two symbols for each bit.                *)
(***************************************************************************)
ASSUME FanoAssumption ==
    /\ nbits \in 1 .. 128 /\ ntail \in 0 .. nbits - 1
    /\ delta \in Nat \ {0} /\ maxcycles \in Nat
    /\ SentMessages \subseteq [0 .. nbits - 1 -> {0, 1}]

VARIABLES
    sent, received,               \* the message and its deinterleaved symbols
    np, path, branch, gamma, t,   \* the decoder's node, tree and threshold
    fano_pc

fanoVars == <<sent, received, np, path, branch, gamma, t, fano_pc>>

Bits == 0 .. nbits - 1
Symbols == 0 .. 2 * nbits - 1
tail == nbits - ntail

-----------------------------------------------------------------------------
(* The code *)

POLY1 == {0, 4, 6, 8, 9, 12, 14, 20, 22, 23, 25, 28, 29, 30, 31}  \* 0xf2d05351
POLY2 == {0, 1, 2, 6, 10, 11, 12, 13, 16, 21, 22, 26, 29, 30, 31} \* 0xe4613c47

Parity(bits, k, poly) == Cardinality({i \in poly : i <= k /\ bits[k - i] = 1}) % 2

(***************************************************************************)
(* ENCODE for the state that ends in bit k.                                *)
(***************************************************************************)
ENCODE(bits, k) == <<Parity(bits, k, POLY1), Parity(bits, k, POLY2)>>

encode(bits) == [s \in Symbols |-> ENCODE(bits, s \div 2)[(s % 2) + 1]]

(***************************************************************************)
(* A counter of eight bits with its bits reversed, which is the place of a *)
(* symbol on the air unless it is too large to be one.                     *)
(***************************************************************************)
Reversed(i) ==
    LET bit(w) == (i \div w) % 2
    IN 128 * bit(1) + 64 * bit(2) + 32 * bit(4) + 16 * bit(8)
         + 8 * bit(16) + 4 * bit(32) + 2 * bit(64) + bit(128)

(***************************************************************************)
(* How many places the counter leads to before it comes to place j, which  *)
(* it does at the reverse of j.                                            *)
(***************************************************************************)
Earlier ==
    [j \in Symbols |->
        Cardinality({i \in 0 .. 255 : i < Reversed(j) /\ Reversed(i) \in Symbols})]

interleave(sym) == [j \in Symbols |-> sym[Earlier[j]]]

deinterleave(sym) == [p \in Symbols |-> sym[CHOOSE j \in Symbols : Earlier[j] = p]]

-----------------------------------------------------------------------------
(* The decoder *)

(***************************************************************************)
(* mettab for a symbol sent and a level received: 78, 178 and 128.         *)
(***************************************************************************)
mettab(bit, level) ==
    CASE level = "?" -> -5
      [] level = "0" -> IF bit = 0 THEN 5 ELSE -46
      [] level = "1" -> IF bit = 1 THEN 5 ELSE -47

(***************************************************************************)
(* The metric of node k's branch for bit b, on the path bits.              *)
(***************************************************************************)
Metric(bits, k, b) ==
    LET sym == ENCODE([bits EXCEPT ![k] = b], k)
    IN mettab(sym[1], received[2 * k]) + mettab(sym[2], received[2 * k + 1])

(***************************************************************************)
(* The branch a node is entered with: the better one, 1 if they are equal, *)
(* and 0 in the tail.                                                      *)
(***************************************************************************)
BestBranch(bits, k) ==
    IF k >= tail THEN 0
    ELSE IF Metric(bits, k, 0) > Metric(bits, k, 1) THEN 0 ELSE 1

(***************************************************************************)
(* A message is sent, some of its symbols fade, and the decoder starts at  *)
(* the root.                                                               *)
(***************************************************************************)
FanoInit ==
    \E message \in SentMessages, fading \in Fadings :
        /\ sent = message
        /\ received = LET air == interleave(encode(message))
                      IN deinterleave([j \in Symbols |->
                            CASE j \in fading -> IF air[j] = 0 THEN "1" ELSE "0"
                              [] OTHER -> IF air[j] = 0 THEN "0" ELSE "1"])
        /\ np = 0 /\ t = 0
        /\ gamma = [k \in 0 .. nbits |-> 0]
        /\ branch = [k \in Bits |-> 0]
        /\ path = LET zero == [k \in Bits |-> 0]
                  IN [zero EXCEPT ![0] = BestBranch(zero, 0)]
        /\ fano_pc = 1

(***************************************************************************)
(* The cycle number is fano_pc while it is positive; 0 is the end, and a   *)
(* negative value the cycle in which the decoder looks backward. The end   *)
(* in the last cycle is taken for a timeout.                               *)
(***************************************************************************)
ngamma == gamma[np] + Metric(path, np, path[np])

Forward ==
    /\ fano_pc \in 1 .. maxcycles
    /\ ngamma >= t
    /\ t' = IF gamma[np] < t + delta /\ ngamma >= t + delta
            THEN t + delta * ((ngamma - t) \div delta) ELSE t
    /\ gamma' = [gamma EXCEPT ![np + 1] = ngamma]
    /\ np' = np + 1
    /\ IF np + 1 = nbits
       THEN /\ fano_pc' = IF fano_pc < maxcycles THEN 0 ELSE fano_pc + 1
            /\ UNCHANGED <<path, branch>>
       ELSE /\ path' = [path EXCEPT ![np + 1] = BestBranch(path, np + 1)]
            /\ branch' = [branch EXCEPT ![np + 1] = 0]
            /\ fano_pc' = fano_pc + 1
    /\ UNCHANGED <<sent, received>>

Blocked ==
    /\ fano_pc \in 1 .. maxcycles
    /\ ngamma < t
    /\ fano_pc' = -fano_pc
    /\ UNCHANGED <<sent, received, np, path, branch, gamma, t>>

(***************************************************************************)
(* The threshold falls, but the search resumes on the worse branch.        *)
(***************************************************************************)
RelaxOnly ==
    /\ t' = t - delta
    /\ UNCHANGED <<path, branch>>

(***************************************************************************)
(* The threshold falls and the node's better branch is tried again.        *)
(***************************************************************************)
Relax ==
    /\ t' = t - delta
    /\ path' = [path EXCEPT ![np] = IF branch[np] # 0 THEN 1 - @ ELSE @]
    /\ branch' = [branch EXCEPT ![np] = 0]

Backward ==
    /\ fano_pc < 0
    /\ \/ /\ np # 0 => gamma[np - 1] < t
          /\ Relax
          /\ fano_pc' = 1 - fano_pc
          /\ UNCHANGED np
       \/ /\ np # 0 /\ gamma[np - 1] >= t
          /\ np' = np - 1
          /\ IF np - 1 < tail /\ branch[np - 1] # 1
             THEN /\ branch' = [branch EXCEPT ![np - 1] = 1]
                  /\ path' = [path EXCEPT ![np - 1] = 1 - @]
                  /\ fano_pc' = 1 - fano_pc
             ELSE UNCHANGED <<branch, path, fano_pc>>
          /\ UNCHANGED t
    /\ UNCHANGED <<sent, received, gamma>>

FanoNext == Forward \/ Blocked \/ Backward

FanoSpec == FanoInit /\ [][FanoNext]_fanoVars

-----------------------------------------------------------------------------
(***************************************************************************)
(* A message of which some symbols faded is decoded: when the decoder ends *)
(* it has the bits that were sent, and it never runs out of cycles.        *)
(***************************************************************************)
FadedDecodes ==
    /\ fano_pc = 0 => path = sent
    /\ fano_pc <= maxcycles

(***************************************************************************)
(* The messages with their tails, and the metric at each node of one.      *)
(***************************************************************************)
Tree == {m \in [Bits -> {0, 1}] : \A k \in Bits : k >= tail => m[k] = 0}

MetricAlong(bits) ==
    LET g[k \in 0 .. nbits] ==
            IF k = 0 THEN 0 ELSE g[k - 1] + Metric(bits, k - 1, bits[k - 1])
    IN g

(***************************************************************************)
(* Whatever was received: the metric of each other message falls, at some  *)
(* node, as deep as the decoded one's does anywhere, in steps of delta. So *)
(* no threshold that another message stays above refuses the decoded one.  *)
(***************************************************************************)
StaysHighest ==
    fano_pc = 0 =>
       \A m \in Tree : \A k \in 0 .. nbits : \E j \in 0 .. nbits :
          MetricAlong(m)[j] \div delta <= MetricAlong(path)[k] \div delta
=============================================================================
