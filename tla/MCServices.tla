---------------------------- MODULE MCServices ----------------------------
(***************************************************************************)
(* Three parts of the system that share no state, and that must go on for   *)
(* ever, checked in one run: `part' says which of them moves, the others   *)
(* stay in an initial state.                                               *)
(***************************************************************************)
EXTENDS BackgroundSync

CONSTANTS
    Clients, Carriers, MaxChanges,                       \* EdgeAgent
    Monitors, Fixers, Services, Required, MaxKills, None \* HeavyOps

VARIABLES
    part,
    wanted, changes, xray, lastFingerprint, verified, carrier,
    lock, streaks, script, suspect, announced, lost, spoilt, kills

ASSUME RequiredAssumption == Required \in Nat \ {0}
ASSUME NoneAssumption ==
    /\ None \notin [by : Monitors \cup Fixers, age : Nat, left : BOOLEAN]
    /\ None \notin [Services -> Nat]

Agent == INSTANCE EdgeAgent
Ops == INSTANCE HeavyOps

agentVars == <<wanted, changes, xray, lastFingerprint, verified, carrier>>
opsVars == <<lock, streaks, script, suspect, announced, lost, spoilt, kills>>

Moves(p) == part = p /\ UNCHANGED part

MCInit ==
    /\ part \in {"sync", "agent", "ops"}
    /\ Init /\ Agent!Init /\ Ops!Init
    /\ part # "agent" => wanted = {} /\ xray = {}

MCNext ==
    \/ Moves("sync") /\ Next /\ UNCHANGED <<agentVars, opsVars>>
    \/ Moves("agent") /\ Agent!Next /\ UNCHANGED <<vars, opsVars>>
    \/ Moves("ops") /\ Ops!Next /\ UNCHANGED <<vars, agentVars>>

\* The fairness of each part, for the part that moves.
MCSpec ==
    /\ MCInit /\ [][MCNext]_<<part, vars, agentVars, opsVars>>
    /\ WF_vars(part = "sync" /\ TimerFires) /\ WF_vars(part = "sync" /\ Loop)
    /\ part = "agent" => Agent!Fairness
    /\ WF_opsVars(part = "ops" /\ Ops!Tick)
    /\ \A m \in Monitors : WF_opsVars(part = "ops" /\ Ops!Step(m))
    /\ \A f \in Fixers : WF_opsVars(part = "ops" /\ ~Ops!At(f, "idle") /\ Ops!Step(f))

-----------------------------------------------------------------------------

\* Xray lets in exactly the wanted clients in the end (EdgeAgent).
EdgeConverges == Agent!EdgeConverges

\* Heavy operations exclude each other while their locks are young (HeavyOps).
OneAtATime == Ops!OneAtATime

\* A node is announced as down exactly while it is, off what was lost
\* (HeavyOps).
AnnouncedIffDown == Ops!AnnouncedIffDown

\* The lock of a killed script goes in the end (HeavyOps).
LeftLockGoes == Ops!LeftLockGoes
=============================================================================
