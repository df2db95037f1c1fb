------------------------------ MODULE OneShot ------------------------------
(***************************************************************************)
(* What a nonce/applied pair of the control row promises.  The requester   *)
(* only ever increments nonce; the worker acts on the newest request it    *)
(* has seen and afterwards copies that number into applied.  Requests that *)
(* pile up while the worker is busy are covered by one later act.          *)
(***************************************************************************)
EXTENDS Naturals

VARIABLES
    nonce,      \* number of requests made
    acted,      \* newest request the worker has acted on
    applied     \* newest request the worker has acknowledged

vars == <<nonce, acted, applied>>

Init == nonce = 0 /\ acted = 0 /\ applied = 0

Request ==
    /\ nonce' = nonce + 1
    /\ UNCHANGED <<acted, applied>>

\* The worker acts on some request it has not acted on; it may have missed
\* newer ones.
Act ==
    /\ nonce # applied
    /\ acted' \in (acted + 1)..nonce
    /\ UNCHANGED <<nonce, applied>>

\* Acknowledging never runs ahead of acting.
Acknowledge ==
    /\ applied < acted
    /\ applied' = acted
    /\ UNCHANGED <<nonce, acted>>

Next == Request \/ Act \/ Acknowledge

Spec == Init /\ [][Next]_vars
=============================================================================
