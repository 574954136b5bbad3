---------------------------- MODULE SpotDelivery ----------------------------
(***************************************************************************)
(* What the WSPRnet reporter (src/reporter.c) promises its caller: at      *)
(* least once delivery, in order, from a bounded RAM queue. Spots are      *)
(* numbered in the order they are accepted. A spot is resolved, that is    *)
(* forgotten, only after the server stored it or refused it for good;      *)
(* until then only the oldest unresolved spot is offered to the server,    *)
(* which may so see it more than once.                                     *)
(***************************************************************************)
EXTENDS Integers

CONSTANT Capacity  \* spots the reporter can retain

VARIABLES
    accepted, resolved,  \* how many spots were accepted, how many resolved
    stored, refused,     \* spots the server stored, or refused for good
    closed               \* no more spots are accepted

deliveryVars == <<accepted, resolved, stored, refused, closed>>

DeliveryInit ==
    /\ accepted = 0 /\ resolved = 0
    /\ stored = {} /\ refused = {}
    /\ closed = FALSE

Accept ==
    /\ ~closed
    /\ accepted - resolved < Capacity
    /\ accepted' = accepted + 1
    /\ UNCHANGED <<resolved, stored, refused, closed>>

Store ==
    /\ resolved < accepted
    /\ stored' = stored \cup {resolved + 1}
    /\ UNCHANGED <<accepted, resolved, refused, closed>>

Refuse ==
    /\ resolved < accepted
    /\ refused' = refused \cup {resolved + 1}
    /\ UNCHANGED <<accepted, resolved, stored, closed>>

Resolve ==
    /\ resolved + 1 \in stored \cup refused
    /\ resolved' = resolved + 1
    /\ UNCHANGED <<accepted, stored, refused, closed>>

Close ==
    /\ closed' = TRUE
    /\ UNCHANGED <<accepted, resolved, stored, refused>>

DeliveryNext == Accept \/ Store \/ Refuse \/ Resolve \/ Close

DeliverySpec == DeliveryInit /\ [][DeliveryNext]_deliveryVars
=============================================================================
