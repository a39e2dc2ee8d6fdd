--------------------------- MODULE BackgroundSync ---------------------------
(***************************************************************************)
(* The background sync of the client registry (lib/background-sync.js) and *)
(* the syncs that handlers run by themselves, all publishing through       *)
(* lib/vpn-edge-sync.js: read the active clients, then write the list      *)
(* under one key.  The database is one number, the commits that changed    *)
(* the client list; a list is the number it was built at.                  *)
(*                                                                         *)
(* The server ids of a request are left out: syncVpnEdgeClients publishes  *)
(* the whole list whatever they are.                                       *)
(***************************************************************************)
EXTENDS Naturals

CONSTANTS
    Handlers,    \* handlers and sweeps that call syncVpnEdgeClients directly
    MaxCommits   \* bound on the changes of the client list

ASSUME HandlersAssumption == "loop" \notin Handlers
ASSUME MaxCommitsAssumption == MaxCommits \in Nat

VARIABLES
    clients,     \* users and settings the list is built from
    registry,    \* settings: vpnEdgeRegistry
    queued,      \* syncQueued
    timer,       \* debounceTimer is set
    failed,      \* lastError is set
    publisher,   \* the loop (in progress unless idle) and the direct syncs
    asked,       \* clients at the last request for a background sync
    begun,       \* clients at the last request when the loop last began a sync
    newest       \* the newest list ever written, replaced by now or not

schedule == <<queued, timer, asked, begun>>
vars == <<clients, registry, schedule, failed, publisher, newest>>

-----------------------------------------------------------------------------

Publishers == Handlers \cup {"loop"}
Versions == 0 .. MaxCommits
Publisher == [at : {"idle", "build", "publish", "alert"}, list : Versions]
Idle == [at |-> "idle", list |-> 0]
Starting == [at |-> "build", list |-> 0]

At(p, stage) == publisher[p].at = stage
Set(p, state) == publisher' = [publisher EXCEPT ![p] = state]

\* A sync is queued only behind a running one.
TypeOK ==
    /\ clients \in Versions /\ registry \in Versions
    /\ queued \in BOOLEAN /\ timer \in BOOLEAN /\ failed \in BOOLEAN
    /\ publisher \in [Publishers -> Publisher]
    /\ asked \in Versions /\ begun \in Versions
    /\ newest \in Versions
    /\ queued => ~At("loop", "idle")

Init ==
    /\ clients = 0 /\ registry = 0
    /\ queued = FALSE /\ timer = FALSE /\ failed = FALSE
    /\ publisher = [p \in Publishers |-> Idle]
    /\ asked = 0 /\ begun = 0
    /\ newest = 0

-----------------------------------------------------------------------------
(* publishClientRegistry *)

\* Some handler commits a change of the client list.
Commit ==
    /\ clients < MaxCommits
    /\ clients' = clients + 1
    /\ UNCHANGED <<registry, schedule, failed, publisher, newest>>

Build(p) ==
    /\ At(p, "build")
    /\ Set(p, [at |-> "publish", list |-> clients])
    /\ UNCHANGED <<clients, registry, schedule, failed, newest>>

\* setSetting: the last one wins.
Write(p) ==
    /\ At(p, "publish")
    /\ registry' = publisher[p].list
    /\ newest' = IF publisher[p].list > newest THEN publisher[p].list ELSE newest

-----------------------------------------------------------------------------
(* Syncs that a handler, or the sweep of the limiter, awaits *)

DirectStart(h) ==
    /\ At(h, "idle")
    /\ Set(h, Starting)
    /\ UNCHANGED <<clients, registry, schedule, failed, newest>>

DirectPublish(h) ==
    /\ Write(h)
    /\ Set(h, Idle)
    /\ UNCHANGED <<clients, schedule, failed>>

DirectFails(h) ==
    /\ ~At(h, "idle")
    /\ Set(h, Idle)
    /\ UNCHANGED <<clients, registry, schedule, failed, newest>>

-----------------------------------------------------------------------------
(* scheduleVpnEdgeSync *)

\* startSyncNow: the loop begins a sync before the call returns, or is told to.
StartSyncNow ==
    IF At("loop", "idle")
    THEN Set("loop", Starting) /\ begun' = asked' /\ queued' = FALSE
    ELSE queued' = TRUE /\ UNCHANGED <<publisher, begun>>

ScheduleImmediate ==
    /\ asked' = clients
    /\ timer' = FALSE
    /\ StartSyncNow
    /\ UNCHANGED <<clients, registry, failed, newest>>

ScheduleDebounced ==
    /\ asked' = clients
    /\ timer' = TRUE
    /\ UNCHANGED <<clients, registry, queued, begun, failed, publisher, newest>>

TimerFires ==
    /\ timer
    /\ timer' = FALSE
    /\ asked' = asked
    /\ StartSyncNow
    /\ UNCHANGED <<clients, registry, failed, newest>>

-----------------------------------------------------------------------------
(* runSyncLoop *)

\* What a sync that empties the queue when it is done would do.
EndSyncForgetting ==
    Set("loop", Idle) /\ queued' = FALSE /\ UNCHANGED begun

\* The loop ends its sync: another one if it was told to meanwhile.
EndSync ==
    IF queued
    THEN queued' = FALSE /\ begun' = asked /\ Set("loop", Starting)
    ELSE Set("loop", Idle) /\ UNCHANGED <<queued, begun>>

\* What a `finally' without its restart would do.
AlertEndForgetting ==
    /\ At("loop", "alert")
    /\ Set("loop", Idle)
    /\ UNCHANGED <<clients, registry, schedule, failed, newest>>

LoopPublish ==
    /\ Write("loop")
    /\ failed' = FALSE
    /\ EndSync
    /\ UNCHANGED <<clients, timer, asked>>

\* The list cannot be built or written: an alert first, ...
LoopFails ==
    /\ At("loop", "build") \/ At("loop", "publish")
    /\ failed' = TRUE
    /\ Set("loop", [at |-> "alert", list |-> 0])
    /\ UNCHANGED <<clients, registry, schedule, newest>>

\* ... then `finally', which restarts the loop if it was told to meanwhile.
AlertEnd ==
    /\ At("loop", "alert")
    /\ EndSync
    /\ UNCHANGED <<clients, registry, timer, asked, failed, newest>>

\* The schedule lives in memory, and nothing syncs at start.
Restart ==
    /\ queued' = FALSE /\ timer' = FALSE /\ failed' = FALSE
    /\ publisher' = [p \in Publishers |-> Idle]
    /\ asked' = 0 /\ begun' = 0
    /\ UNCHANGED <<clients, registry, newest>>

-----------------------------------------------------------------------------

Direct(h) == DirectStart(h) \/ Build(h) \/ DirectPublish(h) \/ DirectFails(h)
Loop == Build("loop") \/ LoopPublish \/ LoopFails \/ AlertEnd

Next ==
    \/ Commit
    \/ \E h \in Handlers : Direct(h)
    \/ ScheduleImmediate \/ ScheduleDebounced \/ TimerFires
    \/ Loop
    \/ Restart

Spec == Init /\ [][Next]_vars

\* Timers fire; a statement or an alert returns or throws.
LiveSpec == Spec /\ WF_vars(TimerFires) /\ WF_vars(Loop)

-----------------------------------------------------------------------------
(* Properties *)

\* A request no sync has begun for is not lost: the timer that stands for it
\* is set, or the loop is running and will begin another sync.
AskIsPending ==
    asked > begun => timer \/ (queued /\ ~At("loop", "idle"))

\* Once everything is quiet and the last sync did not fail, a list at least as
\* new as the last request wanted has been written (a direct sync that was
\* slower may have put an older one back: the last writer wins).
QuietMeansPublished ==
    (/\ \A p \in Publishers : At(p, "idle")
     /\ ~queued /\ ~timer /\ ~failed)
    => newest >= asked

\* Every request is followed by a sync that begins after it, whatever the loop
\* was doing, also when syncs fail; only a restart forgets a request.
Service == INSTANCE SyncService
ImplementsSyncService == Service!Spec
=============================================================================
