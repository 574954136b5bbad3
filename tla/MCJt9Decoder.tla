---------------------------- MODULE MCJt9Decoder ----------------------------
(***************************************************************************)
(* Two failures in a row disable jt9 here, so that three frames tell them  *)
(* from two failures with a success in between. A child is followed past   *)
(* its deadline, which differs for frames and the warm-up; it prints one   *)
(* line more than the array holds.                                         *)
(***************************************************************************)
EXTENDS Jt9Decoder
=============================================================================
