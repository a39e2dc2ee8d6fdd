----------------------------- MODULE MCIncoming -----------------------------
(***************************************************************************)
(* What comes in at once, checked in one run: the reports of the nodes     *)
(* (UserLimits) and the bootstraps of mobile clients without a user        *)
(* (MobileSessions).  They share no state: `part' says which of them       *)
(* moves, the other stays in its initial state.  Requests, and nodes, are  *)
(* interchangeable.                                                        *)
(***************************************************************************)
EXTENDS UserLimits, TLC

CONSTANTS Installations, PublicModes, Sessions, Tokens  \* MobileSessions

ASSUME PublicAssumption ==
    /\ PublicModes \subseteq {"public", "hiddify-android"}
    /\ None \notin Installations \cup Sessions \cup Tokens

VARIABLES
    part,
    exists, enabled, active, code, session, history, configured, bootstraps, minted, delivered

Public == INSTANCE MobileSessions WITH Users <- {}, Codes <- {}, req <- bootstraps

publicVars == <<exists, enabled, active, code, session, history, configured, bootstraps, minted, delivered>>

MCInit == part \in {"reports", "public"} /\ Init /\ Public!Init

MCNext ==
    \/ part = "reports" /\ Next /\ UNCHANGED <<part, publicVars>>
    \/ part = "public" /\ Public!Next /\ UNCHANGED <<part, vars>>

MCSpec == MCInit /\ [][MCNext]_<<part, vars, publicVars>>

Symmetry == Permutations(Requests) \cup Permutations(Nodes)

-----------------------------------------------------------------------------

\* An installation has no more sessions without a user than requests that ran
\* at once (MobileSessions).
InstallationSessionsBounded == part = "public" => Public!InstallationSessionsBounded
=============================================================================
