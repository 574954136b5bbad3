---------------------------- MODULE MCReceiver ----------------------------
(***************************************************************************)
(* The receiver core for TLC. The dial frequencies are interchangeable, so *)
(* the runs that check safety only use them as a symmetry set.             *)
(***************************************************************************)
EXTENDS Receiver, TLC

FreqSymmetry == Permutations(Freqs)
=============================================================================
