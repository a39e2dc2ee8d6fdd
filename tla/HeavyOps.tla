------------------------------ MODULE HeavyOps ------------------------------
(***************************************************************************)
(* The scripts that run under the lock file "heavy-vpn-ops": the monitor   *)
(* of the masked nodes, started by cron (scripts/monitor-tls-connect.mjs), *)
(* and the repair of the dealer links (scripts/fix-dealer-links-and-       *)
(* warm.mjs), with the lock (lib/script-lock.mjs) and the streaks of       *)
(* failures the monitor keeps in a file, from which it decides what to     *)
(* announce (lib/tls-probe-alert.js), once, whether it is delivered or not. *)
(*                                                                         *)
(* Each script is a process of its own: every call of the file system is a *)
(* step.  A script that is killed runs no exit handler and leaves the lock *)
(* behind; a lock is taken for stale by its age alone.                     *)
(***************************************************************************)
EXTENDS Integers, FiniteSets

CONSTANTS
    Monitors, Fixers,  \* scripts that may be started, again and again
    Services,          \* the nodes that are probed
    Required,          \* failures in a row before an alert
    MaxKills,          \* bound on the scripts that are killed
    None

VARIABLES
    lock,        \* the lock file: who wrote it, its age, whether its script was killed
    streaks,     \* the file of the streaks; None when half written
    script,      \* what each script does next
    suspect,     \* a running script has taken a lock for stale
    announced,   \* alerts less recoveries that Telegram has been told of each service
    lost,        \* the services whose last alert or recovery it was not told
    spoilt,      \* two monitors have overlapped or the file was left half written
    kills

vars == <<lock, streaks, script, suspect, announced, lost, spoilt, kills>>

-----------------------------------------------------------------------------

Scripts == Monitors \cup Fixers

\* Ages count the hours that matter: the monitor's limit and the repair's.
StaleAge(s) == IF s \in Monitors THEN 1 ELSE 2
MaxAge == 2

\* An alert names so many services and counts the others.
Named == 8

\* A service that was never seen counts as up.  Streaks beyond the required
\* one make no difference.
NoStreaks == [v \in Services |-> 0]
Longer(n) == IF n > Required THEN n ELSE n + 1

Stages == {"idle", "unlink", "open", "work", "save", "alert", "recover", "release"}
Idle == [at |-> "idle", up |-> {}, streaks |-> NoStreaks, down |-> {}, back |-> {}]

At(s, stage) == script[s].at = stage
Go(s, stage) == script' = [script EXCEPT ![s].at = stage]
Running(s) == script[s].at \in {"work", "save", "alert", "recover", "release"}

Init ==
    /\ lock = None /\ streaks = NoStreaks
    /\ script = [s \in Scripts |-> Idle]
    /\ suspect = FALSE /\ spoilt = FALSE
    /\ announced = NoStreaks /\ lost = {} /\ kills = 0

-----------------------------------------------------------------------------
(* acquireScriptLock *)

\* Without a limit a lock would never be stale, ...
NeverStale(s) == FALSE

Stale(s) == lock # None /\ lock.age >= StaleAge(s)

Stat(s) ==
    /\ At(s, "idle")
    /\ Go(s, IF Stale(s) THEN "unlink" ELSE "open")
    /\ suspect' = (Stale(s) \/ (suspect /\ \E t \in Scripts \ {s} : ~At(t, "idle")))
    /\ UNCHANGED <<lock, streaks, announced, lost, spoilt, kills>>

\* It removes the file that is there now.
Unlink(s) ==
    /\ At(s, "unlink")
    /\ lock' = None
    /\ Go(s, "open")
    /\ UNCHANGED <<streaks, suspect, announced, lost, spoilt, kills>>

\* What Telegram has been told is no longer counted once that is spoilt.
Count(alerts, missed) ==
    /\ announced' = IF spoilt' THEN NoStreaks ELSE alerts
    /\ lost' = IF spoilt' THEN {} ELSE missed

Overlap(s) == s \in Monitors /\ \E t \in Monitors \ {s} : Running(t)

\* ... and a lock written without the flag wx would be taken over.
OpenAnyway(s) ==
    /\ At(s, "open")
    /\ lock' = [by |-> s, age |-> 0, left |-> FALSE]
    /\ Go(s, "work")
    /\ spoilt' = (spoilt \/ Overlap(s))
    /\ Count(announced, lost)
    /\ UNCHANGED <<streaks, suspect, kills>>

\* The file is created only if there is none; else the script is skipped.
Open(s) ==
    /\ At(s, "open")
    /\ IF lock = None
       THEN /\ lock' = [by |-> s, age |-> 0, left |-> FALSE]
            /\ Go(s, "work")
            /\ spoilt' = (spoilt \/ Overlap(s))
       ELSE Go(s, "idle") /\ UNCHANGED <<lock, spoilt>>
    /\ Count(announced, lost)
    /\ UNCHANGED <<streaks, suspect, kills>>

\* The exit handler removes the file that is there now, whoever wrote it.
Release(s) ==
    /\ At(s, "release")
    /\ lock' = None
    /\ script' = [script EXCEPT ![s] = Idle]
    /\ UNCHANGED <<streaks, suspect, announced, lost, spoilt, kills>>

-----------------------------------------------------------------------------
(* What the scripts do *)

\* loadProbeState: a file that cannot be parsed counts as none.
Loaded == IF streaks = None THEN NoStreaks ELSE streaks

\* One service after the other is probed, then evaluateProbeAlerts loads the
\* file as it is; whatever fails ends the script.
Probe(m, up) ==
    /\ m \in Monitors /\ At(m, "work")
    /\ script' = [script EXCEPT ![m].at = "save", ![m].up = up, ![m].streaks = Loaded]
    /\ UNCHANGED <<lock, streaks, suspect, announced, lost, spoilt, kills>>

WorkEnds(s) ==
    /\ At(s, "work")
    /\ Go(s, "release")
    /\ UNCHANGED <<lock, streaks, suspect, announced, lost, spoilt, kills>>

Fails(m, v) == v \notin script[m].up
\* An alert for every failure from the required one on, ...
AlertEachTime(m, v) == Fails(m, v) /\ script[m].streaks[v] + 1 >= Required

\* ... and no more than one.
Alert(m, v) == Fails(m, v) /\ script[m].streaks[v] + 1 = Required
Recovered(m, v) == ~Fails(m, v) /\ script[m].streaks[v] >= Required

\* shouldAlert and shouldRecover.
ToTell(down, back) == IF down # {} THEN "alert" ELSE IF back # {} THEN "recover" ELSE "release"

\* saveProbeState comes before the announcements.
Save(m) ==
    /\ At(m, "save")
    /\ streaks' = [v \in Services |-> IF Fails(m, v) THEN Longer(script[m].streaks[v]) ELSE 0]
    /\ LET down == {v \in Services : Alert(m, v)}
           back == {v \in Services : Recovered(m, v)}
       IN  script' = [script EXCEPT ![m] = [Idle EXCEPT !.at = ToTell(down, back),
                                                        !.down = down, !.back = back]]
    /\ UNCHANGED <<lock, suspect, announced, lost, spoilt, kills>>

\* Telegram is told of some of the news, in which a service is down (1) or up
\* again (0); nobody repeats what it was not told.
Tell(news, told, state) ==
    Count([v \in Services |-> IF v \notin told THEN announced[v]
                              ELSE IF v \in lost THEN state
                              ELSE IF state = 1 THEN announced[v] + 1 ELSE announced[v] - 1],
          (lost \ told) \cup (news \ told))

\* alertTlsProbeFailures, which names so many services: what fails is
\* swallowed.
SendAlerts(m, told) ==
    /\ At(m, "alert")
    /\ told = {} \/ told = script[m].down \/ Cardinality(told) = Named
    /\ spoilt' = spoilt /\ Tell(script[m].down, told, 1)
    /\ script' = [script EXCEPT ![m].at = ToTell({}, script[m].back), ![m].down = {}]
    /\ UNCHANGED <<lock, streaks, suspect, kills>>

\* alertTlsProbeRecovered, likewise, names them all.
SendRecoveries(m, told) ==
    /\ At(m, "recover")
    /\ told \in {{}, script[m].back}
    /\ spoilt' = spoilt /\ Tell(script[m].back, told, 0)
    /\ script' = [script EXCEPT ![m].at = "release", ![m].back = {}]
    /\ UNCHANGED <<lock, streaks, suspect, kills>>

-----------------------------------------------------------------------------

Tick ==
    /\ lock # None /\ lock.age < MaxAge
    /\ lock' = [lock EXCEPT !.age = @ + 1]
    /\ UNCHANGED <<streaks, script, suspect, announced, lost, spoilt, kills>>

\* A kill in the middle of saving may leave half a file, and one before the
\* announcements loses them.
Kill(s) ==
    /\ kills < MaxKills
    /\ ~At(s, "idle")
    /\ kills' = kills + 1
    /\ lock' = IF lock # None /\ lock.by = s THEN [lock EXCEPT !.left = Running(s)] ELSE lock
    /\ script' = [script EXCEPT ![s] = Idle]
    /\ \/ UNCHANGED <<streaks, spoilt>>
       \/ At(s, "save") /\ streaks' = None /\ spoilt' = TRUE
    /\ Count(announced, lost \cup script[s].down \cup script[s].back)
    /\ UNCHANGED suspect

Step(s) ==
    \/ Stat(s) \/ Unlink(s) \/ Open(s) \/ Release(s)
    \/ \E up \in SUBSET Services : Probe(s, up)
    \/ WorkEnds(s) \/ Save(s)
    \/ \E told \in SUBSET script[s].down : SendAlerts(s, told)
    \/ \E told \in SUBSET script[s].back : SendRecoveries(s, told)

Next == Tick \/ \E s \in Scripts : Step(s) \/ Kill(s)

\* Time passes, cron starts the monitors again, and what runs goes on.
Spec ==
    /\ Init /\ [][Next]_vars
    /\ WF_vars(Tick)
    /\ \A m \in Monitors : WF_vars(Step(m))
    /\ \A f \in Fixers : WF_vars(~At(f, "idle") /\ Step(f))

-----------------------------------------------------------------------------

TypeOK ==
    /\ lock = None \/ lock \in [by : Scripts, age : 0 .. MaxAge, left : BOOLEAN]
    /\ streaks = None \/ streaks \in [Services -> 0 .. Required + 1]
    /\ script \in [Scripts -> [at : Stages, up : SUBSET Services, streaks : [Services -> 0 .. Required + 1],
                             down : SUBSET Services, back : SUBSET Services]]
    /\ suspect \in BOOLEAN /\ spoilt \in BOOLEAN
    /\ announced \in [Services -> Int] /\ lost \in SUBSET Services
    /\ kills \in Nat

\* The heavy operations run one at a time, unless a script now at work has
\* found a lock older than its limit: the lock of a script that takes longer
\* than that, or one that two scripts remove, the second time when it is new.
OneAtATime == suspect \/ \A s, t \in Scripts : Running(s) /\ Running(t) => s = t

Pending == UNION {script[m].down \cup script[m].back : m \in Monitors}

\* "Alert only after N consecutive failures per service; notify recovery
\* once": Telegram has been told once more that a service is down than that it
\* is up again exactly while the last N probes have failed, across restarts
\* and skipped runs, but for what a monitor is about to tell it and for a
\* service whose last message was lost, by a failure or by a kill between the
\* saving of the streaks and the message.  It is never repeated; the next
\* message of the service that arrives makes it exact again.
AnnouncedIffDown ==
    spoilt \/ \A v \in Services \ (lost \cup Pending) :
                  announced[v] = IF streaks[v] >= Required THEN 1 ELSE 0

LeftBehind == lock # None /\ lock.left

\* A lock that a killed script has left does not keep the others out for
\* ever.
LeftLockGoes == LeftBehind ~> ~LeftBehind
=============================================================================
