---------------------------- MODULE TokenFamily ----------------------------
(***************************************************************************)
(* What lib/mobile-auth.js promises about refresh tokens, without its      *)
(* requests, transactions and locks.  A session is a family of tokens of   *)
(* which one is current; rotation spends it and makes a fresh one current; *)
(* a dead session (revoked or deleted) rotates no more and stays dead.     *)
(***************************************************************************)
CONSTANTS Sessions, Tokens, None

VARIABLES
    status,   \* "fresh", "current", "spent" or "void" (its session is deleted)
    family,   \* the session of a current or spent token
    dead      \* sessions that are revoked or deleted

vars == <<status, family, dead>>

Init ==
    /\ status = [t \in Tokens |-> "fresh"]
    /\ family = [t \in Tokens |-> None]
    /\ dead = {}

\* Sessions die, and never live again.
Die == dead \subseteq dead' /\ dead' \subseteq Sessions

Kill == Die /\ UNCHANGED <<status, family>>

\* A new session s starts with token t; the sessions it replaces die.
Open(s, t) ==
    /\ \A u \in Tokens : family[u] # s
    /\ status[t] = "fresh"
    /\ status' = [status EXCEPT ![t] = "current"]
    /\ family' = [family EXCEPT ![t] = s]
    /\ Die /\ s \notin dead'

Rotate(t, next) ==
    /\ status[t] = "current"
    /\ family[t] \notin dead
    /\ status[next] = "fresh"
    /\ status' = [status EXCEPT ![t] = "spent", ![next] = "current"]
    /\ family' = [family EXCEPT ![next] = family[t]]
    /\ UNCHANGED dead

\* The user is deleted with its sessions and every trace of their tokens.
Purge(set) ==
    /\ status' = [t \in Tokens |-> IF family[t] \in set THEN "void" ELSE status[t]]
    /\ family' = [t \in Tokens |-> IF family[t] \in set THEN None ELSE family[t]]
    /\ dead' = dead \cup set

Next ==
    \/ Kill
    \/ \E s \in Sessions, t \in Tokens : Open(s, t)
    \/ \E t, next \in Tokens : Rotate(t, next)
    \/ \E set \in SUBSET Sessions : Purge(set)

Spec == Init /\ [][Next]_vars
=============================================================================
