--------------------------- MODULE ServicesProofs ---------------------------
(***************************************************************************)
(* For any number of direct syncs: the schedule loses no request, a quiet  *)
(* schedule has published what was asked, and the steps of BackgroundSync  *)
(* are steps of SyncService.                                               *)
(*                                                                         *)
(* For any scripts, services and kills: the heavy operations run one at a  *)
(* time while their locks are young, and a service is announced as down    *)
(* exactly while it is (HeavyOps).                                         *)
(***************************************************************************)
EXTENDS MCServices, Integers, TLAPS

-----------------------------------------------------------------------------
(* BackgroundSync *)

Ordered == begun <= asked /\ asked <= clients

\* What the loop holds covers the requests it began for.
LoopCovers ==
    /\ At("loop", "publish") => publisher["loop"].list >= begun
    /\ At("loop", "alert") => failed
    /\ At("loop", "idle") /\ ~failed => newest >= begun

IInv == TypeOK /\ AskIsPending /\ Ordered /\ LoopCovers

USE MaxCommitsAssumption, HandlersAssumption

\* Setting one publisher keeps the others, and the type.
LEMMA SetPublisher ==
    ASSUME TypeOK, NEW p \in Publishers, NEW state \in Publisher, Set(p, state)
    PROVE  /\ publisher' \in [Publishers -> Publisher]
           /\ publisher'[p] = state
           /\ \A q \in Publishers : q # p => publisher'[q] = publisher[q]
BY DEF TypeOK, Set

\* The states a publisher is set to.
LEMMA PublisherStates ==
    /\ Idle \in Publisher /\ Starting \in Publisher
    /\ \A v \in Versions : [at |-> "publish", list |-> v] \in Publisher
    /\ [at |-> "alert", list |-> 0] \in Publisher
    /\ "loop" \in Publishers
    /\ Handlers \subseteq Publishers
BY DEF Publisher, Idle, Starting, Versions, Publishers

\* A process that starts owes nothing, whatever it published before.
Started ==
    /\ clients \in Versions /\ registry \in Versions /\ newest \in Versions
    /\ queued = FALSE /\ timer = FALSE /\ failed = FALSE
    /\ asked = 0 /\ begun = 0
    /\ publisher = [p \in Publishers |-> Idle]

\* The invariant holds in the state the process starts in, now or again.
LEMMA StartedIInv == Started => IInv
<1> SUFFICES ASSUME Started PROVE IInv
  OBVIOUS
<1> USE DEF Started
<1>1. publisher \in [Publishers -> Publisher] /\ publisher["loop"] = Idle
  BY PublisherStates
<1>2. Idle.at = "idle" /\ 0 \in Versions
  BY DEF Idle, Versions
<1>3. TypeOK
  BY <1>1, <1>2 DEF TypeOK
<1>4. AskIsPending /\ Ordered
  BY DEF AskIsPending, Ordered, Versions
<1>5. LoopCovers
  BY <1>1, <1>2 DEF LoopCovers, At, Versions
<1> QED BY <1>3, <1>4, <1>5 DEF IInv

\* It holds in the first state.
LEMMA InitIInv == Init => IInv
<1>1. 0 \in Versions
  BY DEF Versions
<1> QED BY <1>1, StartedIInv DEF Init, Started

\* A direct sync leaves the schedule alone, and only raises `newest'.
LEMMA DirectIInv ==
    ASSUME IInv, NEW h \in Handlers, Direct(h)
    PROVE  IInv'
<1>1. h \in Publishers /\ h # "loop" /\ "loop" \in Publishers
  BY DEF Publishers
<1>2. /\ publisher' \in [Publishers -> Publisher] /\ publisher'["loop"] = publisher["loop"]
      /\ newest' \in Versions /\ newest' >= newest /\ registry' \in Versions
      /\ UNCHANGED <<clients, schedule, failed>>
  <2>1. CASE DirectStart(h)
    BY <1>1, <2>1, PublisherStates, SetPublisher DEF DirectStart, IInv, TypeOK, Versions
  <2>2. CASE Build(h)
    BY <1>1, <2>2, PublisherStates, SetPublisher DEF Build, IInv, TypeOK, Versions
  <2>3. CASE DirectPublish(h)
    <3>1. publisher[h].list \in Versions
      BY <1>1 DEF IInv, TypeOK, Publisher
    <3>2. Set(h, Idle)
      BY <2>3 DEF DirectPublish
    <3> QED BY <1>1, <2>3, <3>1, <3>2, PublisherStates, SetPublisher
            DEF DirectPublish, Write, IInv, TypeOK, Versions, schedule
  <2>4. CASE DirectFails(h)
    BY <1>1, <2>4, PublisherStates, SetPublisher DEF DirectFails, IInv, TypeOK, Versions
  <2> QED BY <2>1, <2>2, <2>3, <2>4 DEF Direct
<1> QED BY <1>2 DEF IInv, TypeOK, AskIsPending, Ordered, LoopCovers, At, schedule, Versions

\* Starting a sync, or queueing one behind the running one, covers a request.
LEMMA StartIInv ==
    ASSUME IInv, asked' \in {asked, clients}, timer' = FALSE, StartSyncNow,
           UNCHANGED <<clients, registry, failed, newest>>
    PROVE  IInv'
<1>1. CASE At("loop", "idle")
  <2>1. Set("loop", Starting) /\ begun' = asked' /\ queued' = FALSE
    BY <1>1 DEF StartSyncNow
  <2>2. publisher' \in [Publishers -> Publisher] /\ publisher'["loop"] = Starting
    BY <2>1, SetPublisher, PublisherStates DEF IInv
  <2>3. TypeOK'
    BY <2>1, <2>2 DEF IInv, TypeOK
  <2>4. AskIsPending' /\ Ordered'
    BY <2>1 DEF IInv, TypeOK, Ordered, AskIsPending, Versions
  <2>5. LoopCovers'
    BY <2>2 DEF LoopCovers, At, Starting
  <2> QED BY <2>3, <2>4, <2>5 DEF IInv
<1>2. CASE ~At("loop", "idle")
  <2>1. queued' = TRUE /\ UNCHANGED <<publisher, begun>>
    BY <1>2 DEF StartSyncNow
  <2>2. TypeOK'
    BY <1>2, <2>1 DEF IInv, TypeOK, At
  <2>3. AskIsPending' /\ Ordered'
    BY <1>2, <2>1 DEF IInv, TypeOK, Ordered, AskIsPending, At, Versions
  <2>4. LoopCovers'
    BY <2>1 DEF IInv, LoopCovers, At
  <2> QED BY <2>2, <2>3, <2>4 DEF IInv
<1> QED BY <1>1, <1>2

\* Ending a sync either begins the one that was queued or goes idle.
LEMMA EndIInv ==
    ASSUME IInv, EndSync, UNCHANGED <<clients, timer, asked>>,
           ~At("loop", "idle"),
           registry' \in Versions, newest' \in Versions, failed' \in BOOLEAN,
           ~failed' => newest' >= begun
    PROVE  IInv'
<1>1. CASE queued
  <2>1. queued' = FALSE /\ begun' = asked /\ Set("loop", Starting)
    BY <1>1 DEF EndSync
  <2>2. publisher' \in [Publishers -> Publisher] /\ publisher'["loop"] = Starting
    BY <2>1, SetPublisher, PublisherStates DEF IInv
  <2>3. TypeOK'
    BY <2>1, <2>2 DEF IInv, TypeOK
  <2>4. AskIsPending' /\ Ordered'
    BY <2>1 DEF IInv, TypeOK, Ordered, AskIsPending, Versions
  <2>5. LoopCovers'
    BY <2>2 DEF LoopCovers, At, Starting
  <2> QED BY <2>3, <2>4, <2>5 DEF IInv
<1>2. CASE ~queued
  <2>1. Set("loop", Idle) /\ UNCHANGED <<queued, begun>>
    BY <1>2 DEF EndSync
  <2>2. publisher' \in [Publishers -> Publisher] /\ publisher'["loop"] = Idle
    BY <2>1, SetPublisher, PublisherStates DEF IInv
  <2> QED BY <1>2, <2>1, <2>2 DEF IInv, TypeOK, AskIsPending, Ordered, LoopCovers, At, Idle, Versions
<1> QED BY <1>1, <1>2

\* Every step keeps the invariant.
LEMMA NextIInv == IInv /\ [Next]_vars => IInv'
<1> SUFFICES ASSUME IInv, [Next]_vars PROVE IInv'
  OBVIOUS
<1>1. CASE Commit
  BY <1>1 DEF Commit, schedule, IInv, TypeOK, AskIsPending, Ordered, LoopCovers, At, Versions, Publisher
<1>2. CASE \E h \in Handlers : Direct(h)
  BY <1>2, DirectIInv
<1>3. CASE ScheduleImmediate
  BY <1>3, StartIInv DEF ScheduleImmediate
<1>4. CASE ScheduleDebounced
  BY <1>4 DEF ScheduleDebounced, IInv, TypeOK, AskIsPending, Ordered, LoopCovers, At, Versions
<1>5. CASE TimerFires
  BY <1>5, StartIInv DEF TimerFires
<1>6. CASE Build("loop")
  <2>1. publisher' \in [Publishers -> Publisher]
        /\ publisher'["loop"] = [at |-> "publish", list |-> clients]
    BY <1>6, SetPublisher, PublisherStates DEF Build, IInv, TypeOK
  <2> QED BY <1>6, <2>1
          DEF Build, schedule, IInv, TypeOK, AskIsPending, Ordered, LoopCovers, At, Versions
<1>7. CASE LoopPublish
  <2>1. publisher["loop"].list \in Versions /\ publisher["loop"].list >= begun /\ begun \in Versions
    BY <1>7, PublisherStates DEF LoopPublish, Write, IInv, TypeOK, LoopCovers, Publisher
  <2>2. registry' \in Versions /\ newest' \in Versions /\ newest' >= begun
    BY <1>7, <2>1 DEF LoopPublish, Write, IInv, TypeOK, Versions
  <2>3. ~At("loop", "idle") /\ failed' = FALSE /\ EndSync /\ UNCHANGED <<clients, timer, asked>>
    BY <1>7 DEF LoopPublish, Write, At
  <2> QED BY <2>2, <2>3, EndIInv
<1>8. CASE LoopFails
  <2>1. publisher' \in [Publishers -> Publisher]
        /\ publisher'["loop"] = [at |-> "alert", list |-> 0]
    BY <1>8, SetPublisher, PublisherStates DEF LoopFails, IInv
  <2> QED BY <1>8, <2>1
          DEF LoopFails, schedule, IInv, TypeOK, AskIsPending, Ordered, LoopCovers, At, Versions
<1>9. CASE AlertEnd
  <2>1. ~At("loop", "idle") /\ failed' /\ EndSync /\ UNCHANGED <<clients, timer, asked>>
        /\ registry' \in Versions /\ newest' \in Versions /\ failed' \in BOOLEAN
    BY <1>9 DEF AlertEnd, At, IInv, TypeOK, LoopCovers
  <2> QED BY <2>1, EndIInv
<1>10. CASE Restart
  <2>1. Started'
    BY <1>10 DEF Restart, Started, IInv, TypeOK
  <2> QED BY <2>1, StartedIInv, PTL
<1>11. CASE UNCHANGED vars
  BY <1>11 DEF vars, schedule, IInv, TypeOK, AskIsPending, Ordered, LoopCovers, At, Versions
<1> QED BY <1>1, <1>2, <1>3, <1>4, <1>5, <1>6, <1>7, <1>8, <1>9, <1>10, <1>11 DEF Next, Loop

LEMMA IInvHolds == Spec => []IInv
BY InitIInv, NextIInv, PTL DEF Spec

\* No request for a background sync is lost before a sync has begun for it.
THEOREM NoRequestLost == Spec => []AskIsPending
BY IInvHolds, PTL DEF IInv

\* A quiet schedule whose last sync did not fail has written a list at least as
\* new as the last request wanted.
THEOREM QuietPublished == Spec => []QuietMeansPublished
<1>1. IInv => QuietMeansPublished
  BY PublisherStates DEF IInv, TypeOK, AskIsPending, Ordered, LoopCovers, QuietMeansPublished, Versions
<1> QED BY <1>1, IInvHolds, PTL

\* A step of the schedule that begins no sync, or begins one for all that was
\* asked, is a step of the service.
LEMMA ServiceStep ==
    ASSUME IInv, asked' \in {asked, clients}, begun' \in {begun, asked'}
    PROVE  [Service!Next]_<<asked, begun>>
<1>1. asked \in Nat /\ asked' \in Nat /\ begun \in Nat /\ begun <= asked /\ asked' >= asked
  BY DEF IInv, TypeOK, Ordered, Versions
<1>2. CASE asked' > asked
  BY <1>1, <1>2 DEF Service!Next, Service!Ask
<1>3. CASE asked' = asked /\ begun' = begun
  BY <1>3
<1>4. CASE asked' = asked /\ begun' = asked /\ begun < asked
  BY <1>4 DEF Service!Next, Service!Begin
<1> QED BY <1>1, <1>2, <1>3, <1>4

\* Safety of the refinement: a background sync begins only for a request, and
\* for everything requested by then, whatever the direct syncs do.
THEOREM StepsOfService == Spec => Service!Init /\ [][Service!Next]_<<asked, begun>>
<1>1. Init => Service!Init
  BY DEF Init, Service!Init
<1>2. IInv /\ [Next]_vars => [Service!Next]_<<asked, begun>>
  <2> SUFFICES ASSUME IInv, [Next]_vars PROVE [Service!Next]_<<asked, begun>>
    OBVIOUS
  <2>1. CASE Restart
    BY <2>1 DEF Restart, Service!Next, Service!Forget
  <2>2. CASE ~Restart
    <3>1. asked' \in {asked, clients} /\ begun' \in {begun, asked'}
      BY <2>2 DEF Next, Commit, Direct, DirectStart, Build, DirectPublish, DirectFails, Loop,
              LoopPublish, LoopFails, AlertEnd, EndSync, ScheduleImmediate, ScheduleDebounced,
              TimerFires, StartSyncNow, schedule, vars
    <3> QED BY <3>1, ServiceStep
  <2> QED BY <2>1, <2>2
<1> QED BY <1>1, <1>2, IInvHolds, PTL DEF Spec

-----------------------------------------------------------------------------
(* HeavyOps *)

\* Off the times when a running script has taken a lock for stale, who is at
\* work holds the lock, and nobody is about to remove it.
HoldsLock(s) == lock # None /\ lock.by = s
Exclusion ==
    suspect \/ \A s \in Ops!Scripts : /\ ~Ops!At(s, "unlink")
                                      /\ Ops!Running(s) => HoldsLock(s)

\* Who is to tell something has come to the stage where it does.
MonitorStages == {"save", "alert", "recover"}
WellPlaced(s, register) ==
    /\ register.at \in MonitorStages => s \in Monitors
    /\ register.down # {} => register.at = "alert"
    /\ register.back # {} => register.at \in {"alert", "recover"}
OnlyMonitorsProbe == \A s \in Ops!Scripts : WellPlaced(s, script[s])

\* Unless spoilt, monitors run one at a time, know the streaks they are about
\* to go on from, and have told what these say or are about to; what a monitor
\* is about to tell was not told before.
IsDown(v) == streaks[v] >= Required
NewsAreRight(m) ==
    /\ \A v \in script[m].down : IsDown(v) /\ (v \in lost \/ announced[v] = 0)
    /\ \A v \in script[m].back : ~IsDown(v) /\ (v \in lost \/ announced[v] = 1)
Settled(v) == v \notin lost /\ \A m \in Monitors : v \notin script[m].down \cup script[m].back
Announced ==
    spoilt \/ /\ streaks # None
              /\ \A v \in Services : Settled(v) => announced[v] = IF IsDown(v) THEN 1 ELSE 0
              /\ \A m \in Monitors : NewsAreRight(m)
              /\ \A m, n \in Monitors : Ops!Running(m) /\ Ops!Running(n) => m = n
              /\ \A m \in Monitors : Ops!At(m, "save") => script[m].streaks = streaks

OpsInv == Ops!TypeOK /\ Exclusion /\ Announced /\ OnlyMonitorsProbe

Streaks == [Services -> 0 .. Required + 1]
Registers == [at : Ops!Stages, up : SUBSET Services, streaks : Streaks,
              down : SUBSET Services, back : SUBSET Services]
Locks == [by : Ops!Scripts, age : 0 .. Ops!MaxAge, left : BOOLEAN]

USE RequiredAssumption

\* A lock and a file of streaks are something.
LEMMA Something ==
    /\ \A l \in Locks : l # None
    /\ \A f \in Streaks : f # None
<1>1. Locks \subseteq [by : Monitors \cup Fixers, age : Nat, left : BOOLEAN]
  BY DEF Locks, Ops!Scripts, Ops!MaxAge
<1>2. ASSUME NEW f \in Streaks PROVE f \in [Services -> Nat]
  BY DEF Streaks
<1> QED BY <1>1, <1>2, NoneAssumption

\* The types, with the sets named.
LEMMA OpsTypes ==
    Ops!TypeOK <=> /\ lock = None \/ lock \in Locks
                   /\ streaks = None \/ streaks \in Streaks
                   /\ script \in [Ops!Scripts -> Registers]
                   /\ suspect \in BOOLEAN /\ spoilt \in BOOLEAN
                   /\ announced \in [Services -> Int] /\ lost \in SUBSET Services
                   /\ kills \in Nat
BY DEF Ops!TypeOK, Locks, Registers, Streaks

\* What a script and the file of streaks begin with.
LEMMA IdleRegister ==
    /\ Ops!Idle \in Registers /\ Ops!NoStreaks \in Streaks
    /\ Ops!Idle.at = "idle" /\ Ops!Idle.down = {} /\ Ops!Idle.back = {}
<1>1. Ops!NoStreaks \in Streaks
  BY DEF Ops!NoStreaks, Streaks
<1> QED BY <1>1 DEF Ops!Idle, Registers, Ops!Stages

\* One script goes on, the others stay.
LEMMA ScriptMoves ==
    ASSUME Ops!TypeOK, NEW s \in Ops!Scripts, NEW register \in Registers,
           script' = [script EXCEPT ![s] = register]
    PROVE  /\ script' \in [Ops!Scripts -> Registers]
           /\ script'[s] = register
           /\ \A t \in Ops!Scripts : t # s => script'[t] = script[t]
BY OpsTypes

\* ... to another stage.
LEMMA ScriptGoes ==
    ASSUME Ops!TypeOK, NEW s \in Ops!Scripts, NEW stage \in Ops!Stages, Ops!Go(s, stage)
    PROVE  /\ script' \in [Ops!Scripts -> Registers]
           /\ script'[s].at = stage
           /\ script'[s].down = script[s].down /\ script'[s].back = script[s].back
           /\ \A t \in Ops!Scripts : t # s => script'[t] = script[t]
<1>1. script[s] \in Registers
  BY OpsTypes
<1>2. PICK register : register = [script[s] EXCEPT !.at = stage]
  OBVIOUS
<1>3. register \in Registers /\ register.at = stage /\ register.down = script[s].down /\ register.back = script[s].back
  BY <1>1, <1>2 DEF Registers
<1>4. script' = [script EXCEPT ![s] = register]
  BY <1>2 DEF Ops!Go
<1> QED BY <1>2, <1>3, <1>4, ScriptMoves

\* A script that moves outside the monitor's stages, with nothing to tell
\* before and after, decides nothing.
LEMMA NothingToTell ==
    ASSUME OpsInv, NEW s \in Ops!Scripts,
           script' \in [Ops!Scripts -> Registers],
           \A t \in Ops!Scripts : t # s => script'[t] = script[t],
           script[s].down = {}, script[s].back = {},
           script'[s].down = {}, script'[s].back = {},
           script'[s].at \notin MonitorStages,
           Ops!Running(s)' => Ops!Running(s) \/ ~Ops!Overlap(s),
           streaks' = streaks, spoilt' = spoilt, announced' = announced, lost' = lost
    PROVE  Announced' /\ OnlyMonitorsProbe'
<1>1. OnlyMonitorsProbe'
  BY DEF OpsInv, OnlyMonitorsProbe, WellPlaced
<1>2. Announced'
  <2> SUFFICES ASSUME ~spoilt PROVE Announced'
    BY DEF Announced
  <2>1. \A m \in Monitors : script'[m].down = script[m].down /\ script'[m].back = script[m].back
    BY DEF Ops!Scripts
  <2>2. \A v \in Services : Settled(v)' <=> Settled(v)
    BY <2>1 DEF Settled
  <2>3. \A m \in Monitors : NewsAreRight(m)'
    BY <2>1 DEF OpsInv, Announced, NewsAreRight, IsDown
  <2>4. \A m \in Monitors : m # s => (Ops!Running(m)' <=> Ops!Running(m)) /\ (Ops!At(m, "save")' <=> Ops!At(m, "save"))
    BY DEF Ops!Running, Ops!At, Ops!Scripts
  <2>5. \A m, n \in Monitors : Ops!Running(m)' /\ Ops!Running(n)' => m = n
    BY <2>4 DEF OpsInv, Announced, Ops!Overlap
  <2>6. ~Ops!At(s, "save")'
    BY DEF Ops!At, MonitorStages
  <2>7. \A m \in Monitors : Ops!At(m, "save")' => script'[m].streaks = streaks'
    BY <2>4, <2>6 DEF OpsInv, Announced, Ops!Scripts
  <2> QED BY <2>2, <2>3, <2>5, <2>7 DEF OpsInv, Announced, IsDown
<1> QED BY <1>1, <1>2

\* Outside the monitor's stages there is nothing to tell.
LEMMA NothingBefore ==
    ASSUME OpsInv, NEW s \in Ops!Scripts, script[s].at \notin {"alert", "recover"}
    PROVE  script[s].down = {} /\ script[s].back = {}
BY DEF OpsInv, OnlyMonitorsProbe, WellPlaced

\* The invariant holds at first.
LEMMA InitOps == Ops!Init => OpsInv
<1> SUFFICES ASSUME Ops!Init PROVE OpsInv
  OBVIOUS
<1>1. Ops!TypeOK
  <2>1. announced \in [Services -> Int]
    BY DEF Ops!Init, Ops!NoStreaks
  <2>2. script \in [Ops!Scripts -> Registers]
    BY IdleRegister DEF Ops!Init
  <2> QED BY <2>1, <2>2, IdleRegister, OpsTypes DEF Ops!Init
<1>2. \A s \in Ops!Scripts : script[s].at = "idle" /\ script[s].down = {} /\ script[s].back = {}
  BY IdleRegister DEF Ops!Init
<1>3. Exclusion /\ OnlyMonitorsProbe
  BY <1>2 DEF Exclusion, OnlyMonitorsProbe, WellPlaced, MonitorStages, Ops!At, Ops!Running
<1>4. streaks # None /\ \A v \in Services : streaks[v] = 0 /\ announced[v] = 0
  BY IdleRegister, Something DEF Ops!Init, Ops!NoStreaks
<1>5. Announced
  BY <1>2, <1>4 DEF Announced, NewsAreRight, IsDown, Ops!At, Ops!Running, Ops!Scripts
<1> QED BY <1>1, <1>3, <1>5 DEF OpsInv

-----------------------------------------------------------------------------
(* Steps *)

\* Who finds a stale lock is the suspect; the suspicion ends when all others
\* have.
LEMMA StatKeeps ==
    ASSUME OpsInv, NEW s \in Ops!Scripts, Ops!Stat(s)
    PROVE  OpsInv'
<1>1. PICK stage : /\ stage = IF Ops!Stale(s) THEN "unlink" ELSE "open"
                   /\ Ops!Go(s, stage)
  BY DEF Ops!Stat
<1>2. /\ script' \in [Ops!Scripts -> Registers]
      /\ script'[s].at = stage
      /\ script'[s].down = script[s].down /\ script'[s].back = script[s].back
      /\ \A t \in Ops!Scripts : t # s => script'[t] = script[t]
  BY <1>1, ScriptGoes DEF OpsInv, Ops!Stages
<1>3. Ops!TypeOK'
  BY <1>2 DEF OpsInv, Ops!Stat, Ops!TypeOK, Registers, Streaks
<1>4. Exclusion'
  <2> SUFFICES ASSUME ~suspect', NEW t \in Ops!Scripts
               PROVE  ~Ops!At(t, "unlink")' /\ (Ops!Running(t)' => HoldsLock(t)')
    BY DEF Exclusion
  <2>1. stage = "open"
    BY <1>1 DEF Ops!Stat
  <2>2. CASE t = s
    BY <1>2, <2>1, <2>2 DEF Ops!At, Ops!Running
  <2>3. CASE t # s /\ suspect
    BY <1>2, <2>3 DEF Ops!Stat, Ops!At, Ops!Running
  <2>4. CASE t # s /\ ~suspect
    BY <1>2, <2>4 DEF OpsInv, Exclusion, HoldsLock, Ops!Stat, Ops!At, Ops!Running
  <2> QED BY <2>2, <2>3, <2>4
<1>5. Announced' /\ OnlyMonitorsProbe'
  <2>1. script[s].down = {} /\ script[s].back = {}
    BY NothingBefore DEF Ops!Stat, Ops!At
  <2>2. stage \notin MonitorStages /\ ~Ops!Running(s)'
    BY <1>1, <1>2 DEF MonitorStages, Ops!Running
  <2> QED BY <1>2, <2>1, <2>2, NothingToTell DEF Ops!Stat
<1> QED BY <1>3, <1>4, <1>5 DEF OpsInv

\* Only a suspect removes a lock that may be another's.
LEMMA UnlinkKeeps ==
    ASSUME OpsInv, NEW s \in Ops!Scripts, Ops!Unlink(s)
    PROVE  OpsInv'
<1>1. /\ script' \in [Ops!Scripts -> Registers]
      /\ script'[s].at = "open"
      /\ script'[s].down = script[s].down /\ script'[s].back = script[s].back
      /\ \A t \in Ops!Scripts : t # s => script'[t] = script[t]
  BY ScriptGoes DEF OpsInv, Ops!Stages, Ops!Unlink
<1>2. Ops!TypeOK'
  BY <1>1 DEF OpsInv, Ops!Unlink, Ops!TypeOK, Registers, Streaks
<1>3. suspect'
  BY DEF OpsInv, Exclusion, Ops!Unlink, Ops!At
<1>4. Announced' /\ OnlyMonitorsProbe'
  <2>1. script[s].down = {} /\ script[s].back = {}
    BY NothingBefore DEF Ops!Unlink, Ops!At
  <2>2. script'[s].at \notin MonitorStages /\ ~Ops!Running(s)'
    BY <1>1 DEF MonitorStages, Ops!Running
  <2> QED BY <1>1, <2>1, <2>2, NothingToTell DEF Ops!Unlink
<1> QED BY <1>2, <1>3, <1>4 DEF OpsInv, Exclusion

\* A lock is created where none is, so nobody else holds one; another monitor
\* at work spoils the announcements.
LEMMA OpenKeeps ==
    ASSUME OpsInv, NEW s \in Ops!Scripts, Ops!Open(s)
    PROVE  OpsInv'
<1>1. spoilt \in BOOLEAN /\ script[s].down = {} /\ script[s].back = {}
  BY NothingBefore DEF OpsInv, Ops!TypeOK, Ops!Open, Ops!At
<1>2. ASSUME spoilt'
      PROVE  announced' \in [Services -> Int] /\ lost' \in SUBSET Services /\ Announced'
  BY <1>2, IdleRegister DEF Ops!Open, Ops!Count, Ops!NoStreaks, Announced
<1>3. ASSUME ~spoilt' PROVE announced' = announced /\ lost' = lost
  BY <1>3 DEF Ops!Open, Ops!Count
<1>4. announced' \in [Services -> Int] /\ lost' \in SUBSET Services
  BY <1>2, <1>3 DEF OpsInv, Ops!TypeOK
<1>5. CASE lock # None
  <2>1. /\ script' \in [Ops!Scripts -> Registers]
        /\ script'[s].at = "idle"
        /\ script'[s].down = script[s].down /\ script'[s].back = script[s].back
        /\ \A t \in Ops!Scripts : t # s => script'[t] = script[t]
    BY <1>5, ScriptGoes DEF OpsInv, Ops!Stages, Ops!Open
  <2>2. lock' = lock /\ streaks' = streaks /\ suspect' = suspect /\ spoilt' = spoilt /\ kills' = kills
    BY <1>5 DEF Ops!Open
  <2>3. Ops!TypeOK'
    BY <1>4, <2>1, <2>2 DEF OpsInv, Ops!TypeOK, Registers, Streaks
  <2>4. Exclusion'
    BY <2>1, <2>2 DEF OpsInv, Exclusion, HoldsLock, Ops!At, Ops!Running
  <2>5. script'[s].at \notin MonitorStages /\ ~Ops!Running(s)'
    BY <2>1 DEF MonitorStages, Ops!Running
  <2>6. OnlyMonitorsProbe'
    BY <1>1, <2>1, <2>5 DEF OpsInv, OnlyMonitorsProbe, WellPlaced
  <2>7. Announced'
    BY <1>1, <1>2, <1>3, <2>1, <2>2, <2>5, NothingToTell
  <2> QED BY <2>3, <2>4, <2>6, <2>7 DEF OpsInv
<1>6. CASE lock = None
  <2>1. /\ script' \in [Ops!Scripts -> Registers]
        /\ script'[s].at = "work"
        /\ script'[s].down = script[s].down /\ script'[s].back = script[s].back
        /\ \A t \in Ops!Scripts : t # s => script'[t] = script[t]
    BY <1>6, ScriptGoes DEF OpsInv, Ops!Stages, Ops!Open
  <2>2. /\ lock' = [by |-> s, age |-> 0, left |-> FALSE]
        /\ spoilt' = (spoilt \/ Ops!Overlap(s))
        /\ streaks' = streaks /\ suspect' = suspect /\ kills' = kills
    BY <1>6 DEF Ops!Open
  <2>3. lock' \in Locks /\ lock' # None /\ lock'.by = s
    <3>1. lock' \in Locks
      BY <2>2 DEF Locks, Ops!MaxAge
    <3> QED BY <2>2, <3>1, Something
  <2>4. spoilt' \in BOOLEAN
    BY <1>1, <2>2 DEF Ops!Overlap
  <2>5. Ops!TypeOK'
    BY <1>4, <2>1, <2>2, <2>3, <2>4 DEF OpsInv, Ops!TypeOK, Registers, Streaks, Locks
  <2>6. Exclusion'
    BY <1>6, <2>1, <2>2, <2>3 DEF OpsInv, Exclusion, HoldsLock, Ops!At, Ops!Running
  <2>7. script'[s].at \notin MonitorStages
    BY <2>1 DEF MonitorStages
  <2>8. OnlyMonitorsProbe'
    BY <1>1, <2>1, <2>7 DEF OpsInv, OnlyMonitorsProbe, WellPlaced
  <2>9. Announced'
    <3>1. CASE spoilt'
      BY <1>2, <3>1
    <3>2. CASE ~spoilt'
      <4>1. ~Ops!Overlap(s) /\ spoilt' = spoilt
        BY <1>1, <2>2, <2>4, <3>2
      <4> QED BY <1>1, <1>3, <2>1, <2>2, <2>7, <3>2, <4>1, NothingToTell
    <3> QED BY <3>1, <3>2
  <2> QED BY <2>5, <2>6, <2>8, <2>9 DEF OpsInv
<1> QED BY <1>5, <1>6

\* A script releases the lock it holds.
LEMMA ReleaseKeeps ==
    ASSUME OpsInv, NEW s \in Ops!Scripts, Ops!Release(s)
    PROVE  OpsInv'
<1>1. /\ script' \in [Ops!Scripts -> Registers]
      /\ script'[s].at = "idle" /\ script'[s].down = {} /\ script'[s].back = {}
      /\ \A t \in Ops!Scripts : t # s => script'[t] = script[t]
  <2>1. script' \in [Ops!Scripts -> Registers] /\ script'[s] = Ops!Idle /\ \A t \in Ops!Scripts : t # s => script'[t] = script[t]
    BY IdleRegister, ScriptMoves DEF OpsInv, Ops!Release
  <2> QED BY <2>1, IdleRegister
<1>2. /\ lock' = None /\ Ops!Running(s) /\ streaks' = streaks /\ suspect' = suspect
      /\ spoilt' = spoilt /\ announced' = announced /\ lost' = lost /\ kills' = kills
  BY DEF Ops!Release, Ops!At, Ops!Running
<1>3. Ops!TypeOK'
  BY <1>1, <1>2 DEF OpsInv, Ops!TypeOK, Registers, Streaks
<1>4. Exclusion'
  <2> SUFFICES ASSUME ~suspect, NEW t \in Ops!Scripts
               PROVE  ~Ops!At(t, "unlink")' /\ ~Ops!Running(t)'
    BY <1>2 DEF Exclusion
  <2>1. CASE t = s
    BY <1>1, <2>1 DEF Ops!At, Ops!Running
  <2>2. CASE t # s
    <3>1. ~Ops!Running(t) /\ ~Ops!At(t, "unlink")
      BY <1>2, <2>2 DEF OpsInv, Exclusion, HoldsLock
    <3> QED BY <1>1, <2>2, <3>1 DEF Ops!At, Ops!Running
  <2> QED BY <2>1, <2>2
<1>5. Announced' /\ OnlyMonitorsProbe'
  <2>1. script[s].down = {} /\ script[s].back = {}
    BY NothingBefore DEF Ops!Release, Ops!At
  <2>2. script'[s].at \notin MonitorStages
    BY <1>1 DEF MonitorStages
  <2> QED BY <1>1, <1>2, <2>1, <2>2, NothingToTell
<1> QED BY <1>3, <1>4, <1>5 DEF OpsInv

\* A script at work goes on: the lock is untouched.
LEMMA GoesOn ==
    ASSUME OpsInv, NEW s \in Ops!Scripts, Ops!Running(s), NEW register \in Registers,
           register.at \in {"save", "alert", "recover", "release"}, WellPlaced(s, register),
           script' = [script EXCEPT ![s] = register],
           UNCHANGED <<lock, suspect>>
    PROVE  /\ script' \in [Ops!Scripts -> Registers]
           /\ script'[s] = register
           /\ \A t \in Ops!Scripts : t # s => script'[t] = script[t]
           /\ \A t \in Ops!Scripts : Ops!Running(t)' <=> Ops!Running(t)
           /\ Exclusion' /\ OnlyMonitorsProbe'
<1>1. /\ script' \in [Ops!Scripts -> Registers]
      /\ script'[s] = register
      /\ \A t \in Ops!Scripts : t # s => script'[t] = script[t]
  BY ScriptMoves DEF OpsInv
<1>2. \A t \in Ops!Scripts : Ops!Running(t)' <=> Ops!Running(t)
  BY <1>1 DEF Ops!Running
<1>3. \A t \in Ops!Scripts : Ops!At(t, "unlink")' => Ops!At(t, "unlink")
  BY <1>1 DEF Ops!At
<1>4. Exclusion'
  BY <1>2, <1>3 DEF OpsInv, Exclusion, HoldsLock
<1>5. OnlyMonitorsProbe'
  BY <1>1 DEF OpsInv, OnlyMonitorsProbe, WellPlaced
<1> QED BY <1>1, <1>2, <1>4, <1>5

\* The other monitors are not at work, and have nothing to tell.
LEMMA OnlyOne ==
    ASSUME OpsInv, ~spoilt, NEW s \in Monitors, Ops!Running(s), NEW m \in Monitors, m # s
    PROVE  ~Ops!Running(m) /\ ~Ops!At(m, "save") /\ script[m].down = {} /\ script[m].back = {}
<1>1. ~Ops!Running(m)
  BY DEF OpsInv, Announced
<1>2. script[m].at \notin {"save", "alert", "recover"}
  BY <1>1 DEF Ops!Running
<1> QED BY <1>1, <1>2, NothingBefore DEF Ops!At, Ops!Scripts

\* Probes and the loading of the streaks.
LEMMA WorkKeeps ==
    ASSUME OpsInv, NEW s \in Ops!Scripts,
           Ops!WorkEnds(s) \/ \E up \in SUBSET Services : Ops!Probe(s, up)
    PROVE  OpsInv'
<1>1. script[s] \in Registers /\ Ops!At(s, "work") /\ Ops!Running(s)
  BY OpsTypes DEF OpsInv, Ops!WorkEnds, Ops!Probe, Ops!At, Ops!Running
<1>2. script[s].down = {} /\ script[s].back = {}
  BY <1>1, NothingBefore DEF Ops!At
<1>3. UNCHANGED <<lock, streaks, suspect, announced, lost, spoilt, kills>>
  BY DEF Ops!WorkEnds, Ops!Probe
<1>4. ASSUME NEW register \in Registers, register.down = {}, register.back = {},
             \/ register.at = "release"
             \/ register.at = "save" /\ s \in Monitors /\ (spoilt \/ register.streaks = streaks),
             script' = [script EXCEPT ![s] = register]
      PROVE  OpsInv'
  <2>1. /\ script' \in [Ops!Scripts -> Registers]
        /\ script'[s] = register
        /\ \A t \in Ops!Scripts : t # s => script'[t] = script[t]
        /\ \A t \in Ops!Scripts : Ops!Running(t)' <=> Ops!Running(t)
        /\ Exclusion' /\ OnlyMonitorsProbe'
    <3>1. register.at \in {"save", "alert", "recover", "release"} /\ WellPlaced(s, register)
      BY <1>4 DEF WellPlaced, MonitorStages
    <3> QED BY <1>1, <1>3, <1>4, <3>1, GoesOn
  <2>2. Ops!TypeOK'
    BY <1>3, <2>1 DEF OpsInv, Ops!TypeOK, Registers, Streaks
  <2>3. Announced'
    <3> SUFFICES ASSUME ~spoilt PROVE Announced'
      BY <1>3 DEF Announced
    <3>1. \A m \in Monitors : script'[m].down = script[m].down /\ script'[m].back = script[m].back
      BY <1>2, <1>4, <2>1 DEF Ops!Scripts
    <3>2. \A v \in Services : Settled(v)' <=> Settled(v)
      BY <1>3, <3>1 DEF Settled
    <3>3. \A m \in Monitors : NewsAreRight(m)'
      BY <1>3, <3>1 DEF OpsInv, Announced, NewsAreRight, IsDown
    <3>4. \A m \in Monitors : Ops!At(m, "save")' => script'[m].streaks = streaks'
      BY <1>3, <1>4, <2>1 DEF OpsInv, Announced, Ops!At, Ops!Scripts
    <3>5. \A m, n \in Monitors : Ops!Running(m)' /\ Ops!Running(n)' => m = n
      BY <2>1 DEF OpsInv, Announced, Ops!Scripts
    <3> QED BY <1>3, <3>2, <3>3, <3>4, <3>5 DEF OpsInv, Announced, IsDown
  <2> QED BY <2>1, <2>2, <2>3 DEF OpsInv
<1>5. CASE Ops!WorkEnds(s)
  <2>1. PICK register : register = [script[s] EXCEPT !.at = "release"]
    OBVIOUS
  <2>2. register \in Registers /\ register.at = "release" /\ register.down = {} /\ register.back = {}
    BY <1>1, <1>2, <2>1 DEF Registers, Ops!Stages
  <2>3. script' = [script EXCEPT ![s] = register]
    BY <1>5, <2>1 DEF Ops!WorkEnds, Ops!Go
  <2> QED BY <1>4, <2>2, <2>3
<1>6. ASSUME NEW up \in SUBSET Services, Ops!Probe(s, up)
      PROVE  OpsInv'
  <2>1. PICK register : register = [script[s] EXCEPT !.at = "save", !.up = up, !.streaks = Ops!Loaded]
    OBVIOUS
  <2>2. Ops!Loaded \in Streaks /\ (spoilt \/ Ops!Loaded = streaks)
    BY IdleRegister, OpsTypes DEF OpsInv, Announced, Ops!Loaded
  <2>3. register \in Registers /\ register.at = "save" /\ register.down = {} /\ register.back = {} /\ register.streaks = Ops!Loaded
    BY <1>1, <1>2, <2>1, <2>2 DEF Registers, Ops!Stages
  <2>4. script' = [script EXCEPT ![s] = register] /\ s \in Monitors
    BY <1>6, <2>1 DEF Ops!Probe
  <2> QED BY <1>4, <2>2, <2>3, <2>4
<1> QED BY <1>5, <1>6

\* The only monitor goes on from the streaks there are: where they cross the
\* required length is what it is about to tell.
LEMMA SaveKeeps ==
    ASSUME OpsInv, NEW s \in Ops!Scripts, Ops!Save(s)
    PROVE  OpsInv'
<1>1. PICK down \in SUBSET Services : down = {v \in Services : Ops!Alert(s, v)}
  OBVIOUS
<1>2. PICK back \in SUBSET Services : back = {v \in Services : Ops!Recovered(s, v)}
  OBVIOUS
<1>3. PICK register : register = [Ops!Idle EXCEPT !.at = Ops!ToTell(down, back), !.down = down, !.back = back]
  OBVIOUS
<1>4. /\ register \in Registers /\ register.down = down /\ register.back = back
      /\ register.at = Ops!ToTell(down, back) /\ register.at \in {"alert", "recover", "release"}
  BY <1>3, IdleRegister DEF Registers, Ops!Stages, Ops!ToTell
<1>5. Ops!At(s, "save") /\ Ops!Running(s) /\ s \in Monitors /\ script[s].streaks \in Streaks
  BY OpsTypes DEF OpsInv, OnlyMonitorsProbe, WellPlaced, MonitorStages, Ops!Save, Ops!At, Ops!Running, Registers
<1>6. script' = [script EXCEPT ![s] = register] /\ UNCHANGED <<lock, suspect, announced, lost, spoilt, kills>>
  BY <1>1, <1>2, <1>3 DEF Ops!Save
<1>7. /\ script' \in [Ops!Scripts -> Registers]
      /\ script'[s] = register
      /\ \A t \in Ops!Scripts : t # s => script'[t] = script[t]
      /\ \A t \in Ops!Scripts : Ops!Running(t)' <=> Ops!Running(t)
      /\ Exclusion' /\ OnlyMonitorsProbe'
  <2>1. WellPlaced(s, register)
    BY <1>4, <1>5 DEF WellPlaced, MonitorStages, Ops!ToTell
  <2> QED BY <1>4, <1>5, <1>6, <2>1, GoesOn
<1>8. PICK before \in Streaks : before = script[s].streaks
  BY <1>5
<1>9. /\ streaks' \in Streaks
      /\ \A v \in Services : streaks'[v] = IF Ops!Fails(s, v) THEN Ops!Longer(before[v]) ELSE 0
  BY <1>8 DEF Ops!Save, Streaks, Ops!Longer
<1>10. Ops!TypeOK'
  BY <1>6, <1>7, <1>9 DEF OpsInv, Ops!TypeOK, Registers, Streaks
<1>11. Announced'
  <2> SUFFICES ASSUME ~spoilt PROVE Announced'
    BY <1>6 DEF Announced
  <2>1. streaks = before /\ \A m, n \in Monitors : Ops!Running(m) /\ Ops!Running(n) => m = n
    BY <1>5, <1>8 DEF OpsInv, Announced
  <2>2. ASSUME NEW m \in Monitors, m # s
        PROVE  ~Ops!At(m, "save")' /\ script'[m].down = {} /\ script'[m].back = {} /\ script[m].down = {} /\ script[m].back = {}
    BY <1>5, <1>7, <2>2, OnlyOne DEF Ops!At, Ops!Scripts
  <2>3. ~Ops!At(s, "save")' /\ script[s].down = {} /\ script[s].back = {}
    BY <1>4, <1>5, <1>7, NothingBefore DEF Ops!At
  <2>4. ASSUME NEW v \in Services, v \notin lost
        PROVE  announced[v] = IF before[v] >= Required THEN 1 ELSE 0
    BY <2>1, <2>2, <2>3, <2>4 DEF OpsInv, Announced, Settled, IsDown
  <2>5. ASSUME NEW v \in Services
        PROVE  /\ v \in down => streaks'[v] >= Required /\ ~(before[v] >= Required)
               /\ v \in back => ~(streaks'[v] >= Required) /\ before[v] >= Required
               /\ v \notin down \cup back => (streaks'[v] >= Required <=> before[v] >= Required)
    <3>1. before[v] \in 0 .. Required + 1
      BY DEF Streaks
    <3>2. /\ v \in down <=> Ops!Fails(s, v) /\ before[v] + 1 = Required
          /\ v \in back <=> ~Ops!Fails(s, v) /\ before[v] >= Required
      BY <1>1, <1>2, <1>8 DEF Ops!Alert, Ops!Recovered
    <3> QED BY <1>9, <3>1, <3>2 DEF Ops!Longer
  <2>6. \A m \in Monitors : NewsAreRight(m)'
    <3>1. ASSUME NEW m \in Monitors, m # s PROVE NewsAreRight(m)'
      BY <2>2, <3>1 DEF NewsAreRight
    <3>2. NewsAreRight(s)'
      BY <1>4, <1>6, <1>7, <2>4, <2>5 DEF NewsAreRight, IsDown
    <3> QED BY <3>1, <3>2
  <2>7. ASSUME NEW v \in Services, Settled(v)'
        PROVE  announced'[v] = IF IsDown(v)' THEN 1 ELSE 0
    <3>1. v \notin lost /\ v \notin down \cup back
      BY <1>4, <1>5, <1>6, <1>7, <2>7 DEF Settled
    <3> QED BY <1>6, <2>4, <2>5, <3>1 DEF IsDown
  <2>8. \A m, n \in Monitors : Ops!Running(m)' /\ Ops!Running(n)' => m = n
    BY <1>7, <2>1 DEF Ops!Scripts
  <2>9. streaks' # None
    BY <1>9, Something
  <2> QED BY <2>2, <2>3, <2>6, <2>7, <2>8, <2>9 DEF Announced
<1> QED BY <1>7, <1>10, <1>11 DEF OpsInv

\* What Telegram has been told since the loss, if there was one, changes by
\* the news.
LEMMA Told ==
    ASSUME OpsInv, ~spoilt, spoilt' = spoilt, NEW news \in SUBSET Services, NEW told \in SUBSET news,
           NEW state \in {0, 1}, Ops!Tell(news, told, state),
           \A v \in news : v \in lost \/ announced[v] = 1 - state
    PROVE  /\ announced' \in [Services -> Int] /\ lost' \in SUBSET Services
           /\ \A v \in Services \ news : announced'[v] = announced[v] /\ (v \in lost' <=> v \in lost)
           /\ \A v \in news : v \notin lost' => announced'[v] = state
<1>1. /\ announced' = [v \in Services |-> IF v \notin told THEN announced[v]
                                          ELSE IF v \in lost THEN state
                                          ELSE IF state = 1 THEN announced[v] + 1 ELSE announced[v] - 1]
      /\ lost' = (lost \ told) \cup (news \ told)
  BY DEF Ops!Tell, Ops!Count
<1>2. announced \in [Services -> Int] /\ lost \in SUBSET Services
  BY DEF OpsInv, Ops!TypeOK
<1>3. announced' \in [Services -> Int]
  BY <1>1, <1>2
<1>4. ASSUME NEW v \in news, v \notin lost' PROVE announced'[v] = state
  <2>1. v \in told /\ v \in Services
    BY <1>1, <1>4
  <2>2. CASE v \in lost
    BY <1>1, <2>1, <2>2
  <2>3. CASE v \notin lost
    BY <1>1, <2>1, <2>3
  <2> QED BY <2>2, <2>3
<1> QED BY <1>1, <1>2, <1>3, <1>4

\* Once spoilt, nothing is counted.
LEMMA ToldInVain ==
    ASSUME NEW news, NEW told, NEW state, Ops!Tell(news, told, state), spoilt'
    PROVE  announced' \in [Services -> Int] /\ lost' \in SUBSET Services
BY DEF Ops!Tell, Ops!Count, Ops!NoStreaks

\* The only monitor sends its alerts.
LEMMA AlertsKeep ==
    ASSUME OpsInv, NEW s \in Ops!Scripts, NEW told \in SUBSET script[s].down, Ops!SendAlerts(s, told)
    PROVE  OpsInv'
<1>1. /\ script[s] \in Registers /\ Ops!At(s, "alert") /\ Ops!Running(s) /\ s \in Monitors
      /\ script[s].down \in SUBSET Services /\ script[s].back \in SUBSET Services
  BY OpsTypes DEF OpsInv, OnlyMonitorsProbe, WellPlaced, MonitorStages, Ops!SendAlerts, Ops!At, Ops!Running, Registers
<1>2. PICK register : register = [script[s] EXCEPT !.at = Ops!ToTell({}, script[s].back), !.down = {}]
  OBVIOUS
<1>3. /\ register \in Registers /\ register.down = {} /\ register.back = script[s].back
      /\ register.at = Ops!ToTell({}, script[s].back) /\ register.at \in {"recover", "release"}
  BY <1>1, <1>2 DEF Registers, Ops!Stages, Ops!ToTell
<1>4. script' = [script EXCEPT ![s] = register] /\ UNCHANGED <<lock, suspect, streaks, spoilt, kills>>
  BY <1>2 DEF Ops!SendAlerts
<1>5. /\ script' \in [Ops!Scripts -> Registers]
      /\ script'[s] = register
      /\ \A t \in Ops!Scripts : t # s => script'[t] = script[t]
      /\ \A t \in Ops!Scripts : Ops!Running(t)' <=> Ops!Running(t)
      /\ Exclusion' /\ OnlyMonitorsProbe'
  <2>1. WellPlaced(s, register)
    BY <1>1, <1>3 DEF WellPlaced, MonitorStages, Ops!ToTell
  <2> QED BY <1>1, <1>3, <1>4, <2>1, GoesOn
<1>6. Ops!Tell(script[s].down, told, 1)
  BY DEF Ops!SendAlerts
<1>7. CASE spoilt
  <2>1. announced' \in [Services -> Int] /\ lost' \in SUBSET Services
    BY <1>4, <1>6, <1>7, ToldInVain
  <2>2. Ops!TypeOK'
    BY <1>4, <1>5, <2>1 DEF OpsInv, Ops!TypeOK, Registers, Streaks
  <2>3. Announced'
    BY <1>4, <1>7 DEF Announced
  <2> QED BY <1>5, <2>2, <2>3 DEF OpsInv
<1>8. CASE ~spoilt
  <2>1. NewsAreRight(s) /\ \A m, n \in Monitors : Ops!Running(m) /\ Ops!Running(n) => m = n
    BY <1>1, <1>8 DEF OpsInv, Announced
  <2>2. /\ announced' \in [Services -> Int] /\ lost' \in SUBSET Services
        /\ \A v \in Services \ script[s].down : announced'[v] = announced[v] /\ (v \in lost' <=> v \in lost)
        /\ \A v \in script[s].down : v \notin lost' => announced'[v] = 1
    <3>1. \A v \in script[s].down : v \in lost \/ announced[v] = 1 - 1
      BY <2>1 DEF NewsAreRight
    <3>2. script[s].down \in SUBSET Services /\ told \in SUBSET script[s].down /\ 1 \in {0, 1} /\ spoilt' = spoilt
      BY <1>1, <1>4
    <3> QED BY <1>6, <1>8, <3>1, <3>2, Told
  <2>3. Ops!TypeOK'
    BY <1>4, <1>5, <2>2 DEF OpsInv, Ops!TypeOK, Registers, Streaks
  <2>4. ASSUME NEW m \in Monitors, m # s
        PROVE  ~Ops!At(m, "save")' /\ script'[m].down = {} /\ script'[m].back = {} /\ script[m].down = {} /\ script[m].back = {}
    BY <1>1, <1>5, <1>8, <2>4, OnlyOne DEF Ops!At, Ops!Scripts
  <2>5. ~Ops!At(s, "save")'
    BY <1>3, <1>5 DEF Ops!At
  <2>6. \A m \in Monitors : NewsAreRight(m)'
    <3>1. ASSUME NEW m \in Monitors, m # s PROVE NewsAreRight(m)'
      BY <2>4, <3>1 DEF NewsAreRight
    <3>2. \A v \in script[s].back : v \notin script[s].down /\ v \in Services
      BY <1>1, <2>1 DEF NewsAreRight
    <3>3. NewsAreRight(s)'
      BY <1>3, <1>4, <1>5, <2>1, <2>2, <3>2 DEF NewsAreRight, IsDown
    <3> QED BY <3>1, <3>3
  <2>7. ASSUME NEW v \in Services, Settled(v)'
        PROVE  announced'[v] = IF IsDown(v)' THEN 1 ELSE 0
    <3>1. v \notin lost' /\ v \notin script[s].back
      BY <1>1, <1>3, <1>5, <2>7 DEF Settled
    <3>2. CASE v \in script[s].down
      BY <1>4, <2>1, <2>2, <3>1, <3>2 DEF NewsAreRight, IsDown
    <3>3. CASE v \notin script[s].down
      <4>1. Settled(v)
        BY <2>2, <2>4, <3>1, <3>3 DEF Settled
      <4> QED BY <1>4, <1>8, <2>2, <3>3, <4>1 DEF OpsInv, Announced, IsDown
    <3> QED BY <3>2, <3>3
  <2>8. \A m, n \in Monitors : Ops!Running(m)' /\ Ops!Running(n)' => m = n
    BY <1>5, <2>1 DEF Ops!Scripts
  <2>9. streaks' # None
    BY <1>4, <1>8 DEF OpsInv, Announced
  <2> QED BY <1>5, <2>3, <2>4, <2>5, <2>6, <2>7, <2>8, <2>9 DEF OpsInv, Announced
<1> QED BY <1>7, <1>8

\* ... and its recoveries.
LEMMA RecoveriesKeep ==
    ASSUME OpsInv, NEW s \in Ops!Scripts, NEW told \in SUBSET script[s].back, Ops!SendRecoveries(s, told)
    PROVE  OpsInv'
<1>1. /\ script[s] \in Registers /\ Ops!At(s, "recover") /\ Ops!Running(s) /\ s \in Monitors
      /\ script[s].back \in SUBSET Services /\ script[s].down = {}
  BY OpsTypes DEF OpsInv, OnlyMonitorsProbe, WellPlaced, MonitorStages, Ops!SendRecoveries, Ops!At, Ops!Running, Registers
<1>2. PICK register : register = [script[s] EXCEPT !.at = "release", !.back = {}]
  OBVIOUS
<1>3. register \in Registers /\ register.down = {} /\ register.back = {} /\ register.at = "release"
  BY <1>1, <1>2 DEF Registers, Ops!Stages
<1>4. script' = [script EXCEPT ![s] = register] /\ UNCHANGED <<lock, suspect, streaks, spoilt, kills>>
  BY <1>2 DEF Ops!SendRecoveries
<1>5. /\ script' \in [Ops!Scripts -> Registers]
      /\ script'[s] = register
      /\ \A t \in Ops!Scripts : t # s => script'[t] = script[t]
      /\ \A t \in Ops!Scripts : Ops!Running(t)' <=> Ops!Running(t)
      /\ Exclusion' /\ OnlyMonitorsProbe'
  <2>1. WellPlaced(s, register)
    BY <1>3 DEF WellPlaced, MonitorStages
  <2> QED BY <1>1, <1>3, <1>4, <2>1, GoesOn
<1>6. Ops!Tell(script[s].back, told, 0)
  BY DEF Ops!SendRecoveries
<1>7. CASE spoilt
  <2>1. announced' \in [Services -> Int] /\ lost' \in SUBSET Services
    BY <1>4, <1>6, <1>7, ToldInVain
  <2>2. Ops!TypeOK'
    BY <1>4, <1>5, <2>1 DEF OpsInv, Ops!TypeOK, Registers, Streaks
  <2>3. Announced'
    BY <1>4, <1>7 DEF Announced
  <2> QED BY <1>5, <2>2, <2>3 DEF OpsInv
<1>8. CASE ~spoilt
  <2>1. NewsAreRight(s) /\ \A m, n \in Monitors : Ops!Running(m) /\ Ops!Running(n) => m = n
    BY <1>1, <1>8 DEF OpsInv, Announced
  <2>2. /\ announced' \in [Services -> Int] /\ lost' \in SUBSET Services
        /\ \A v \in Services \ script[s].back : announced'[v] = announced[v] /\ (v \in lost' <=> v \in lost)
        /\ \A v \in script[s].back : v \notin lost' => announced'[v] = 0
    <3>1. \A v \in script[s].back : v \in lost \/ announced[v] = 1 - 0
      BY <2>1 DEF NewsAreRight
    <3>2. script[s].back \in SUBSET Services /\ told \in SUBSET script[s].back /\ 0 \in {0, 1} /\ spoilt' = spoilt
      BY <1>1, <1>4
    <3> QED BY <1>6, <1>8, <3>1, <3>2, Told
  <2>3. Ops!TypeOK'
    BY <1>4, <1>5, <2>2 DEF OpsInv, Ops!TypeOK, Registers, Streaks
  <2>4. ASSUME NEW m \in Monitors, m # s
        PROVE  ~Ops!At(m, "save")' /\ script'[m].down = {} /\ script'[m].back = {} /\ script[m].down = {} /\ script[m].back = {}
    BY <1>1, <1>5, <1>8, <2>4, OnlyOne DEF Ops!At, Ops!Scripts
  <2>5. ~Ops!At(s, "save")'
    BY <1>3, <1>5 DEF Ops!At
  <2>6. \A m \in Monitors : NewsAreRight(m)'
    <3>1. ASSUME NEW m \in Monitors, m # s PROVE NewsAreRight(m)'
      BY <2>4, <3>1 DEF NewsAreRight
    <3>2. NewsAreRight(s)'
      BY <1>1, <1>3, <1>5 DEF NewsAreRight
    <3> QED BY <3>1, <3>2
  <2>7. ASSUME NEW v \in Services, Settled(v)'
        PROVE  announced'[v] = IF IsDown(v)' THEN 1 ELSE 0
    <3>1. v \notin lost'
      BY <2>7 DEF Settled
    <3>2. CASE v \in script[s].back
      BY <1>4, <2>1, <2>2, <3>1, <3>2 DEF NewsAreRight, IsDown
    <3>3. CASE v \notin script[s].back
      <4>1. Settled(v)
        BY <1>1, <2>2, <2>4, <3>1, <3>3 DEF Settled
      <4> QED BY <1>4, <1>8, <2>2, <3>3, <4>1 DEF OpsInv, Announced, IsDown
    <3> QED BY <3>2, <3>3
  <2>8. \A m, n \in Monitors : Ops!Running(m)' /\ Ops!Running(n)' => m = n
    BY <1>5, <2>1 DEF Ops!Scripts
  <2>9. streaks' # None
    BY <1>4, <1>8 DEF OpsInv, Announced
  <2> QED BY <1>5, <2>3, <2>4, <2>5, <2>6, <2>7, <2>8, <2>9 DEF OpsInv, Announced
<1> QED BY <1>7, <1>8

\* A lock grows older.
LEMMA TickKeeps == OpsInv /\ Ops!Tick => OpsInv'
<1> SUFFICES ASSUME OpsInv, Ops!Tick PROVE OpsInv'
  OBVIOUS
<1>1. lock \in Locks /\ lock # None /\ lock.age < Ops!MaxAge
  BY OpsTypes DEF OpsInv, Ops!Tick
<1>2. lock' \in Locks /\ lock'.by = lock.by
  BY <1>1 DEF Ops!Tick, Locks, Ops!MaxAge
<1>3. lock' # None
  BY <1>2, Something
<1>4. UNCHANGED <<streaks, script, suspect, announced, lost, spoilt, kills>>
  BY DEF Ops!Tick
<1>5. Ops!TypeOK'
  BY <1>2, <1>4 DEF OpsInv, Ops!TypeOK, Locks
<1>6. Exclusion'
  BY <1>2, <1>3, <1>4 DEF OpsInv, Exclusion, HoldsLock, Ops!At, Ops!Running
<1>7. Announced' /\ OnlyMonitorsProbe'
  BY <1>4 DEF OpsInv, Announced, Settled, NewsAreRight, IsDown, OnlyMonitorsProbe, WellPlaced, Ops!At, Ops!Running
<1> QED BY <1>5, <1>6, <1>7 DEF OpsInv

\* A killed script leaves its lock, and perhaps half a file.
LEMMA KillKeeps ==
    ASSUME OpsInv, NEW s \in Ops!Scripts, Ops!Kill(s)
    PROVE  OpsInv'
<1>1. /\ script' \in [Ops!Scripts -> Registers]
      /\ script'[s].at = "idle" /\ script'[s].down = {} /\ script'[s].back = {}
      /\ \A t \in Ops!Scripts : t # s => script'[t] = script[t]
  <2>1. /\ script' \in [Ops!Scripts -> Registers]
        /\ script'[s] = Ops!Idle
        /\ \A t \in Ops!Scripts : t # s => script'[t] = script[t]
    BY IdleRegister, ScriptMoves DEF OpsInv, Ops!Kill
  <2> QED BY <2>1, IdleRegister
<1>2. /\ lock = None <=> lock' = None
      /\ lock # None => lock' \in Locks /\ lock'.by = lock.by
  <2>1. CASE lock = None
    BY <2>1 DEF Ops!Kill
  <2>2. CASE lock # None
    <3>1. lock \in Locks
      BY <2>2, OpsTypes DEF OpsInv
    <3>2. Ops!Running(s) \in BOOLEAN
      BY DEF Ops!Running
    <3>3. lock' \in Locks /\ lock'.by = lock.by
      BY <2>2, <3>1, <3>2 DEF Ops!Kill, Locks
    <3> QED BY <2>2, <3>3, Something
  <2> QED BY <2>1, <2>2
<1>3. /\ suspect' = suspect /\ kills' = kills + 1
      /\ (streaks' = streaks /\ spoilt' = spoilt) \/ (streaks' = None /\ spoilt' = TRUE)
      /\ Ops!Count(announced, lost \cup script[s].down \cup script[s].back)
  BY DEF Ops!Kill
<1>4. script[s].down \in SUBSET Services /\ script[s].back \in SUBSET Services
  BY OpsTypes DEF OpsInv, Registers
<1>5. announced' \in [Services -> Int] /\ lost' \in SUBSET Services
  BY <1>3, <1>4 DEF OpsInv, Ops!TypeOK, Ops!Count, Ops!NoStreaks
<1>6. Ops!TypeOK'
  <2>1. lock' = None \/ lock' \in Locks
    BY <1>2
  <2>2. streaks' = None \/ streaks' \in Streaks
    BY <1>3, OpsTypes DEF OpsInv
  <2>3. suspect' \in BOOLEAN /\ kills' \in Nat
    BY <1>3, OpsTypes DEF OpsInv
  <2>4. spoilt' \in BOOLEAN
    BY <1>3 DEF OpsInv, Ops!TypeOK
  <2> QED BY <1>1, <1>5, <2>1, <2>2, <2>3, <2>4 DEF Ops!TypeOK, Registers, Streaks, Locks
<1>7. Exclusion'
  BY <1>1, <1>2, <1>3 DEF OpsInv, Exclusion, HoldsLock, Ops!At, Ops!Running
<1>8. OnlyMonitorsProbe'
  BY <1>1 DEF OpsInv, OnlyMonitorsProbe, WellPlaced, MonitorStages
<1>9. Announced'
  <2> SUFFICES ASSUME ~spoilt' PROVE Announced'
    BY DEF Announced
  <2>1. /\ ~spoilt /\ streaks' = streaks /\ announced' = announced
        /\ lost' = lost \cup script[s].down \cup script[s].back
    BY <1>3 DEF Ops!Count
  <2>2. \A m \in Monitors : m # s => script'[m] = script[m]
    BY <1>1 DEF Ops!Scripts
  <2>3. ASSUME NEW v \in Services, Settled(v)' PROVE announced'[v] = IF IsDown(v)' THEN 1 ELSE 0
    <3>1. Settled(v)
      BY <2>1, <2>2, <2>3 DEF Settled
    <3> QED BY <2>1, <3>1 DEF OpsInv, Announced, IsDown
  <2>4. \A m \in Monitors : NewsAreRight(m)'
    BY <1>1, <2>1, <2>2 DEF OpsInv, Announced, NewsAreRight, IsDown
  <2>5. /\ \A m, n \in Monitors : Ops!Running(m)' /\ Ops!Running(n)' => m = n
        /\ \A m \in Monitors : Ops!At(m, "save")' => script'[m].streaks = streaks'
    BY <1>1, <2>1, <2>2 DEF OpsInv, Announced, Ops!At, Ops!Running
  <2> QED BY <2>1, <2>3, <2>4, <2>5 DEF OpsInv, Announced
<1> QED BY <1>6, <1>7, <1>8, <1>9 DEF OpsInv

\* The invariant of HeavyOps.
LEMMA OpsInvHolds == Ops!Spec => []OpsInv
<1>1. OpsInv /\ [Ops!Next]_(Ops!vars) => OpsInv'
  <2> SUFFICES ASSUME OpsInv, [Ops!Next]_(Ops!vars) PROVE OpsInv'
    OBVIOUS
  <2>1. CASE UNCHANGED Ops!vars
    BY <2>1 DEF Ops!vars, OpsInv, Ops!TypeOK, Exclusion, HoldsLock, Announced, Settled, NewsAreRight, IsDown,
                OnlyMonitorsProbe, WellPlaced, Ops!At, Ops!Running
  <2>2. ASSUME NEW s \in Ops!Scripts, Ops!Step(s) PROVE OpsInv'
    BY <2>2, StatKeeps, UnlinkKeeps, OpenKeeps, ReleaseKeeps, WorkKeeps, SaveKeeps, AlertsKeep, RecoveriesKeep DEF Ops!Step
  <2> QED BY <2>1, <2>2, TickKeeps, KillKeeps DEF Ops!Next
<1> QED BY <1>1, InitOps, PTL DEF Ops!Spec

-----------------------------------------------------------------------------

\* For any scripts and any number of kills, the heavy operations run one at a
\* time while no running script has found a lock older than its limit.
THEOREM OperationsExclude == Ops!Spec => []OneAtATime
<1>1. OpsInv => OneAtATime
  BY DEF OpsInv, Exclusion, HoldsLock, OneAtATime, Ops!OneAtATime
<1> QED BY <1>1, OpsInvHolds, PTL

\* For any monitors, services and number of failures required, and wherever
\* monitors are killed, Telegram has been told that a service is down, once,
\* exactly while as many probes have failed, but for messages that are about
\* to be sent and services whose last one was lost.
THEOREM AlertsAreExact == Ops!Spec => []AnnouncedIffDown
<1>1. OpsInv => AnnouncedIffDown
  BY DEF OpsInv, Announced, Settled, IsDown, AnnouncedIffDown, Ops!AnnouncedIffDown, Ops!Pending
<1> QED BY <1>1, OpsInvHolds, PTL
=============================================================================
