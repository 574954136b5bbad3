--------------------------- MODULE MCWsprReporter ---------------------------
(***************************************************************************)
(* A ring of two spots that fills and wraps (four spots), any number of    *)
(* transient failures of each, and delays 1, 2, 3, 3, ...: the bound of    *)
(* the backoff is reached although it is no power of two times the base.   *)
(***************************************************************************)
EXTENDS WsprReporter
=============================================================================
