----------------------------- MODULE MCService -----------------------------
(***************************************************************************)
(* The service for TLC.                                                    *)
(***************************************************************************)
EXTENDS Service
=============================================================================
