----------------------------- MODULE EdgeAgent -----------------------------
(***************************************************************************)
(* How an edge follows the panel's list of active clients: the agent on    *)
(* the edge (vpn-edge-sync-agent/server.mjs) pulls the list on a timer     *)
(* that does not wait for the previous pull, the panel may push it         *)
(* (lib/relay-edge-agent-sync.js), and each list that arrives is applied   *)
(* to the running Xray as a difference.                                    *)
(*                                                                         *)
(* The fingerprint of a list is the list.  applyClientDiff is not part of  *)
(* the repository: it is modelled as a look at Xray's users followed by    *)
(* the additions and removals, any of which may be missing.                *)
(***************************************************************************)
EXTENDS Naturals

CONSTANTS
    Clients,
    Carriers,     \* pulls and pushes that may be under way at once
    MaxChanges    \* bound on the changes of the list and the restarts

VARIABLES
    wanted,           \* buildEdgeClientList on the panel
    changes,          \* changes of `wanted' and restarts so far
    xray,             \* clients Xray lets in
    lastFingerprint,  \* the list applied last, or none: a set of at most one
    verified,         \* that was less than XRAY_VERIFY_INTERVAL_MS ago
    carrier           \* each pull or push under way

agent == <<lastFingerprint, verified>>
vars == <<wanted, changes, xray, agent, carrier>>

-----------------------------------------------------------------------------

Stages == {"idle", "asked", "arrived", "look", "write", "record"}
Carrier == [at : Stages, list : SUBSET Clients, seen : SUBSET Clients]
Idle == [at |-> "idle", list |-> {}, seen |-> {}]

\* Only an agent that has applied a list can have verified it.
TypeOK ==
    /\ wanted \subseteq Clients
    /\ changes \in 0 .. MaxChanges
    /\ xray \subseteq Clients
    /\ lastFingerprint \in {{}} \cup {{list} : list \in SUBSET Clients}
    /\ verified \in BOOLEAN
    /\ verified => lastFingerprint # {}
    /\ carrier \in [Carriers -> Carrier]

At(c, stage) == carrier[c].at = stage
Set(c, state) == carrier' = [carrier EXCEPT ![c] = state]
Move(c, stage) == Set(c, [carrier[c] EXCEPT !.at = stage])

Init ==
    /\ wanted \in SUBSET Clients
    /\ changes = 0
    /\ xray \in SUBSET Clients
    /\ lastFingerprint = {}
    /\ verified = FALSE
    /\ carrier = [c \in Carriers |-> Idle]

-----------------------------------------------------------------------------
(* The panel *)

Disturb == changes < MaxChanges /\ changes' = changes + 1

\* A user is added, disabled, renewed, deleted, expires or uses up its limit.
ListChanges ==
    /\ Disturb
    /\ \E list \in SUBSET Clients : wanted' = list
    /\ UNCHANGED <<xray, agent, carrier>>

\* GET /internal/edge/clients.
Answer(c) ==
    /\ At(c, "asked")
    /\ Set(c, [at |-> "arrived", list |-> wanted, seen |-> {}])
    /\ UNCHANGED <<wanted, changes, xray, agent>>

\* pushToEdge; a push that the panel gives up on may still arrive.
Push(c) ==
    /\ At(c, "idle")
    /\ Set(c, [at |-> "arrived", list |-> wanted, seen |-> {}])
    /\ UNCHANGED <<wanted, changes, xray, agent>>

-----------------------------------------------------------------------------
(* The agent *)

\* startPullLoop.
Pull(c) ==
    /\ At(c, "idle")
    /\ Move(c, "asked")
    /\ UNCHANGED <<wanted, changes, xray, agent>>

\* applyDesiredClients skips a list it applied last, for a while.
SkipsUnverified(list) == lastFingerprint = {list}
Skips(list) == lastFingerprint = {list} /\ verified

Apply(c) ==
    /\ At(c, "arrived")
    /\ IF Skips(carrier[c].list) THEN Set(c, Idle) ELSE Move(c, "look")
    /\ UNCHANGED <<wanted, changes, xray, agent>>

\* applyClientDiff lists Xray's users ...
Look(c) ==
    /\ At(c, "look")
    /\ Set(c, [carrier[c] EXCEPT !.at = "write", !.seen = xray])
    /\ UNCHANGED <<wanted, changes, xray, agent>>

Removals(c) == carrier[c].seen \ carrier[c].list
Additions(c) == carrier[c].list \ carrier[c].seen

\* ... and removes and adds the difference.
Write(c) ==
    /\ At(c, "write")
    /\ xray' = (xray \ Removals(c)) \cup Additions(c)
    /\ Move(c, "record")
    /\ UNCHANGED <<wanted, changes, agent>>

\* Some of it fails: the result lists what is missing, or it throws.
WriteFails(c) ==
    /\ At(c, "write")
    /\ \E gone \in SUBSET Removals(c), new \in SUBSET Additions(c) :
         xray' = (xray \ gone) \cup new
    /\ Move(c, "record") \/ Set(c, Idle)
    /\ UNCHANGED <<wanted, changes, agent>>

\* What losing the assignment of lastFingerprint would do.
RecordTimeOnly(c) ==
    /\ At(c, "record")
    /\ verified' = TRUE
    /\ Set(c, Idle)
    /\ UNCHANGED <<wanted, changes, xray, lastFingerprint>>

\* The list is recorded even if some of it is missing.
Record(c) ==
    /\ At(c, "record")
    /\ lastFingerprint' = {carrier[c].list}
    /\ verified' = TRUE
    /\ Set(c, Idle)
    /\ UNCHANGED <<wanted, changes, xray>>

VerificationExpires ==
    /\ verified
    /\ verified' = FALSE
    /\ UNCHANGED <<wanted, changes, xray, lastFingerprint, carrier>>

-----------------------------------------------------------------------------
(* Failures *)

\* A request or its answer is lost, or Xray cannot be asked.
Lost(c) ==
    /\ At(c, "asked") \/ At(c, "arrived") \/ At(c, "look")
    /\ Set(c, Idle)
    /\ UNCHANGED <<wanted, changes, xray, agent>>

\* Xray runs in a container of its own and goes on.
AgentRestart ==
    /\ Disturb
    /\ lastFingerprint' = {}
    /\ verified' = FALSE
    /\ carrier' = [c \in Carriers |-> Idle]
    /\ UNCHANGED <<wanted, xray>>

\* Xray starts with the clients of its configuration file.
XrayRestart ==
    /\ Disturb
    /\ xray' \in SUBSET Clients
    /\ UNCHANGED <<wanted, agent, carrier>>

-----------------------------------------------------------------------------

Carry(c) ==
    \/ Pull(c) \/ Answer(c) \/ Push(c)
    \/ Apply(c) \/ Look(c) \/ Write(c) \/ WriteFails(c) \/ Record(c)
    \/ Lost(c)

Next ==
    \/ ListChanges
    \/ \E c \in Carriers : Carry(c)
    \/ VerificationExpires
    \/ AgentRestart \/ XrayRestart

Spec == Init /\ [][Next]_vars

\* The pull timer fires for ever and time passes; requests get lost and calls
\* of Xray fail any number of times, but not always: lists go on arriving.
Fairness ==
    /\ WF_vars(VerificationExpires)
    /\ \A c \in Carriers :
        /\ []<><<Apply(c)>>_vars
        /\ SF_vars(Look(c)) /\ SF_vars(Write(c))
        /\ WF_vars(Record(c))

LiveSpec == Spec /\ Fairness

-----------------------------------------------------------------------------
(* Properties *)

\* Once the list stops changing and nothing restarts, Xray lets in exactly the
\* wanted clients in the end, and for good: whatever lists were under way,
\* applied in the wrong order, applied in part, or recorded while another list
\* was being written.
EdgeConverges == <>[](xray = wanted)
=============================================================================
