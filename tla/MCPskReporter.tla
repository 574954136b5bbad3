--------------------------- MODULE MCPskReporter ---------------------------
(***************************************************************************)
(* Packets of two spots, an array of three, three senders: the array       *)
(* fills, grows while a packet is on its way and holds more than a packet. *)
(***************************************************************************)
EXTENDS PskReporter, TLC

CallSymmetry == Permutations(Calls)
=============================================================================
