---------------------------- MODULE SyncService ----------------------------
(***************************************************************************)
(* What a caller of scheduleVpnEdgeSync relies on: a sync begins after     *)
(* every request for one, so that it sees everything committed before the  *)
(* request; only a restart of the process forgets a request.               *)
(***************************************************************************)
EXTENDS Naturals

VARIABLES
    asked,   \* what the newest request wants published
    begun    \* what the syncs that have begun cover

sync == <<asked, begun>>

Init == asked = 0 /\ begun = 0

\* A request for something newer; a sync that is free begins at once.
Ask ==
    /\ asked' \in Nat
    /\ asked' > asked
    /\ begun' \in {begun, asked'}

Begin == begun < asked /\ begun' = asked /\ UNCHANGED asked

Forget == asked' = 0 /\ begun' = 0

Next == Ask \/ Begin \/ Forget

Spec == Init /\ [][Next]_sync /\ WF_sync(Begin)
=============================================================================
