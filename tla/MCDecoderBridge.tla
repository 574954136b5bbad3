-------------------------- MODULE MCDecoderBridge ---------------------------
(***************************************************************************)
(* Three frames, with crashes between any two steps, and runs that print   *)
(* one line more than the array holds.                                     *)
(***************************************************************************)
EXTENDS DecoderBridge
=============================================================================
