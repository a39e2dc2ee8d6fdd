# Verification of the VPN panel API

TLA+ models of the panel (`server.js`, `routes/`, `lib/`), of the agent and the
relay that run on its edges (`vpn-edge-sync-agent/`, `vpn-ws-relay-go/`) and of
the scripts that change what it serves (`scripts/`); the TLC runs that check them
on small instances; and proofs that TLAPS checks for every value of the
constants. Paths below are those of the repository.

    tlc -workers 2 -config MobileUser.cfg MCMobileSessions.tla
    tlapm MobileSessionsProofs.tla

Contents: [the system](#the-system) · [the parts](#the-parts) ·
[what is hard](#what-is-hard-to-test) · [modules](#modules-and-the-code) ·
[runs](#runs) · [fairness](#fairness) · [proofs](#proofs) ·
[known behaviour](#behaviour-found-while-modelling) ·
[not modelled](#not-modelled) · [next](#what-is-left)

## The system

One Node process serves an admin API, a mobile API, subscription links, and an
internal API for edges. Its state is in PostgreSQL, except for short caches,
flags and timers in memory. Handlers interleave at every `await`; there is no
lock in the process, and almost every handler reads a row, decides, and writes
in separate statements at READ COMMITTED. Only the mobile session code uses
transactions with row locks. `setInterval` starts the limiter's sweep, and the
refresh of the subscription files; a failing handler leaves what it had written.
Scripts are processes of their own that work on the same database and files,
many of them on all clients, while the panel goes on.

    edge (Xray) <-- agent -- pull/push of the active clients --> panel -- PostgreSQL -- scripts
         |                                                         |  \-- local files, Google Drive
      relay (Go) <-- clients             traffic reports ----------+  \-- SSH: managed servers
                                                                   |  \-- chat bot, quarantine
                  mobile apps -- sessions, profiles ---------------+-- subscription links

How the parts touch each other:

- a report of an edge raises counters, and the limiter may then disable the
  user, which asks for a sync of the client registry and of the user's file;
- every change of users or settings asks `lib/background-sync.js` for a sync;
  some handlers publish by themselves (`lib/vpn-edge-sync.js`);
- an edge pulls the list every 15 s, or is sent it, and applies the difference;
- a deletion of a user removes sessions, codes, counters and the file, each by a
  statement of its own;
- a tunnel on a managed server adds links to the subscriptions of clients;
- a rollout writes servers, then the lists of all clients, then their files,
  from what it listed first, over what the panel saves meanwhile.

## The parts

Each part with its state, its operations, and what makes it correct.

| part | state | operations | correct when | module |
|---|---|---|---|---|
| mobile sessions (`lib/mobile-auth.js`, `routes/mobile.js`, `routes/hiddify-android.js`) | codes, sessions, history of refresh tokens | issue and replace a code, activate, bootstrap, refresh, revoke, switch access off, delete a user | a code opens one session; a token names one session; reuse of a spent token revokes; what is revoked stays so | `MobileSessions` |
| counters and limiter (`lib/traffic-usage.js`, `lib/user-enforcement.js`, `lib/reset-user-usage.js`) | bytes of a user and of its nodes, status, reason, expiry | reports that set or increment, sweep, edit, extend, reset | counters only grow; a user over its limit is disabled in the end | `UserLimits` |
| registry sync (`lib/background-sync.js`, `lib/vpn-edge-sync.js`) | the list in `settings`; queue, timer and progress in memory | ask at once or debounced, sync, fail, publish directly | no request is lost | `BackgroundSync` |
| edge agent (`vpn-edge-sync-agent/server.mjs`, `lib/relay-edge-agent-sync.js`) | last fingerprint, time of verification; Xray's clients | pull, push, apply, verify, restart | Xray ends up with the panel's list | `EdgeAgent` |
| subscription files (`lib/user-subscription-file.js`, `lib/files.js`, `lib/google-drive.js`, body cache, refresh) | rows, local files, Drive copies, cached bodies | create, update, refresh, delete | one row for a slug, a stable Drive identity, all copies current in the end | `SubscriptionFiles` |
| edge relay (`vpn-ws-relay-go/main.go`) | two connections, goroutines, write mutexes, read deadlines | dial, pump, ping, close | one writer, living sessions stay, dead ones end | `WsRelay` |
| managed servers (`lib/managed-*.js`, `lib/outline-management.js`) | rows of servers, tunnels and keys; units and keys on a remote host | create, update, restart and delete a tunnel, remove a unit, make and delete keys, delete a server | no unit or key is forgotten; a row shows what runs | `ManagedServers` |
| servers and clients (`routes/admin.js`, `lib/db-store.js`) | rows of servers and clients, addresses, a dealer's limit | edit all servers of a CDN, edit and delete a server, assign, create clients | edits stay; clients name servers that are there | `ServerRows` |
| settings (`lib/settings.js`, links of all clients) | the row, its cache, queue of rebuilds | read, edit through the cache, import, invalidate, rebuild by queue or in the request | an edit reaches every file | `PanelSettings` |
| rollouts (`scripts/rollout-*.mjs`, `scripts/apply-cdn-finalmask-only.mjs`) | what the script read, its backup, rows, files, cached bodies | list, publish, preview, apply, verify, roll back | success means published, a rollback restores, no list names a missing server | `Rollout` |
| maintenance scripts (107 of `scripts/`) | servers, lists, settings, files, backups | the script's own statements, a throw, a kill, a second run | a backup holds what was changed, "ok" is complete, "undone" is as before | `Maintenance`, `MaintenanceScripts` |
| script lock and probes (`lib/script-lock.mjs`, `lib/tls-probe-alert.js`, `scripts/monitor-tls-connect.mjs`) | the lock file, streaks of failures | acquire, take over, release, count, announce | one at a time; what was announced and delivered tells who is down; a left lock goes | `HeavyOps` |
| quarantine (`lib/maintenance-quarantine.js`) | files, jobs with manifests | quarantine, restore, undo | no file is lost | `Quarantine` |
| scans (`scripts/tm-cdn-ip-scan.mjs`, `scripts/filter-alibaba-esa-candidates.mjs`) | candidates, stages, files of what was found | probe, append, rank, resume | what is found is saved, also before a kill | `CdnScan`, `EsaFilter` |
| chat bot (`lib/telegram-cursor-bot.js`, its store) | offset, sessions in memory and in a file | fetch, handle, save, resume | no update is dropped unbegun, the agent of a chat is saved | `TelegramBot` |

Parts without a module are listed under [not modelled](#not-modelled).

## What is hard to test

`PROJECT.json` lists the hazards at their lines with the properties that would
catch them. In short:

- **overlapping handlers**: two activations of one code, replacement of codes
  beside an activation, a revocation beside a refresh; two totals recomputed
  from different snapshots; two requests that both create a user's file; two
  commands for one tunnel; two edits of one row; two creations under one limit;
- **values used after they went stale**: the limiter writes from a user it read
  before; a body under construction refills a cache that was dropped; a list
  built before a commit is written after a later one; a rollout writes lists
  computed minutes ago;
- **lost, late and repeated messages**: a refresh repeated because its answer
  was lost, reports out of order, a push that was aborted and applied all the
  same, an SSH command that runs after its timeout;
- **steps that fail between two stores**: row and unit, row and Drive file, key
  and its limit, node counter and total, session and its history, an update
  whose answer is lost before it is noted;
- **restarts and kills** that forget queues, timers and flags, leave locks
  behind, or end a script between two statements and let it run again;
- **things that must happen in the end**: enforcement, convergence of edges and
  files, the end of connections whose client vanished, the end of a left lock.

## Modules and the code

`PROJECT.json` maps every definition to its lines. A step is a statement, a
transaction segment between two row locks, one file operation, one call of a
remote API or one remote command, because that is what other handlers can come
between. A request is a register (`req[r]`): the stage it has reached and what
it has read. Data are abstracted to what decisions look at.

**`MobileSessions`** — tables `code`, `session`, `history` and the users' flags.
Lookups, `SELECT ... FOR UPDATE`, re-checks and commits are steps of their own;
`CodeLocked` and `SessionLocked` make a statement wait for a row another transaction holds, and a
multi-row `UPDATE` works on the rows of its snapshot and re-evaluates its WHERE
clause. Every unanswered request may fail at any step, its transaction rolled
back, or lose its answer.
**`TokenFamily`** is what the module promises: a token is fresh, current, spent
or void; sessions open with a fresh token, rotate the current one, die, or are
purged. `ImplementsTokenFamily` is the refinement.

**`UserLimits`** — bytes per user and per user and node, the limiter's fields of
a user, a clock. A report is an upsert of the node (`GREATEST` in set mode),
then the recomputation of the total, in two steps because the statement may wait
for a row between its snapshot and its write. Admin edits merge fields into the
row as `updateUser` does. The node's server is what a reporter names: the one in
the repository (`scripts/standalone-traffic-reporter.py:71`) posts increments with a
node id, and a reporter may also set, so the model has both, side by side. `torn`
records the users for whom a request stopped halfway, a reset ran through a report,
or an increment was committed between the snapshot and the write of a set report.

**`BackgroundSync`** — the queue, the debounce timer and the loop, each direct
publisher, and the list as the number of commits it was built at.
**`SyncService`** is what a caller relies on: a sync begins after every request.
`ImplementsSyncService` is the refinement, liveness included.

**`EdgeAgent`** — the panel's list, the agent's fingerprint and verification
flag, Xray's clients, and each pull or push as a carrier of a list. The
application of a difference (`applyClientDiff`, which is not in the repository)
is a look followed by a write in which any addition or removal may be missing.

**`SubscriptionFiles`** — a body is the version of the data it was built from.
Requests, the refresh and deletions go through the body cache, the file's row,
the local file and the Drive copy as the code does.

**`WsRelay`** — one connection in either upstream mode: handler, pumps, ping
loops, write mutexes, `closeDone`, deadlines counted in ping intervals. A peer
is alive, silent (it vanished without a word) or closed.

**`ManagedServers`** — rows, the unit each tunnel runs on the host, links given
to clients, Outline keys with what the service has. An SSH command is one step of
the host; when its request gives up or the panel restarts it joins `late` and
may run at any time after. `unit` is the configuration file on the host, `down`
says that the unit did not come up when it was last started: a restart fails
exactly then (`lib/managed-xray.js:130`), an update puts the file before it back
and starts the unit with that, whether it comes up or not. `refused` are the
tunnels whose last command the host answered with an error, of which the row is not
told; `overlapped` and `stopped` those for which commands overlapped or a request
stopped halfway. That `systemctl daemon-reload` or `enable` fails with the new
file in place is left out. Server, tunnel and key ids are
random in the code, so an id nothing remembers is used as new.

**`ServerRows`** — rows of servers and clients, and requests that list them,
then write row after row. The routes that create servers or choose which ones an
app shows answer 410 (`RETIRED_ADMIN_ROUTES`) and are left out. `meant` and
`meantIps` are what the edits amount to one after the other; `beside[r]` are the rows written by others since `r` began;
`broken` are rows whose last writer had been overtaken. A property about edits
excepts `broken` rows, so that it says what overlapping requests can spoil and
what they cannot.

**`PanelSettings`** — the row of links, the cache with its invalidation before
the write, edits through the cache, and the rebuilds of files, each client by
itself. An edit of links queues a rebuild, and queued ones wait for each other;
`POST batch/subscription-import` rebuilds in the request (`routes/admin.js:4113`),
beside the queue and other imports, and so does a handler that stores the file of
one client (`Refresh`, such as `routes/admin.js:919`). `overtaken` and `owed` play
the part of `broken`: who was last to store a file from links behind the row leaves
it `owed`, unless a queued rebuild follows.

**`Rollout`** — seven kinds of one sequence of statements, told apart by sets
(`UsersBackFirst`, `VerifiesAgain`, `DeletesNew`, ...). The panel works beside
it: it edits, creates and deletes clients and servers, its cache of bodies
expires, its refresh writes files. A server's document is whether it is enabled,
whether its fields are new, and whether it has the key the script adds, which
`upsertServer` never takes away. `edited` and `touched` are what the panel
changed since the first and the last listing; `torn` says that a statement took
effect and failed, or that an undo failed.

**`Maintenance`** — an interpreter of scripts: a script is three lists of loops
over users or servers, and each statement has one effect on lists, rows, files or
settings. **`MaintenanceScripts`** gives 107 scripts as data, each definition
under a comment that names its file, and says what can be read off such an entry
without running it (`KeepsFirst`, `UndoesLists`, `UndoesRows`).

**`HeavyOps`** — the lock file with the age and the writer of what it holds, two
monitors and the repair, each call of the file system a step; the streaks; and the
two messages, sent after the streaks are saved (`scripts/monitor-tls-connect.mjs:55-71`),
each of which may fail unnoticed or be lost by a kill. `announced` counts what was
delivered, `lost` are the services whose last message was not. An alert names eight
services and counts the others, which are `lost` too. A streak file that cannot be
written shows up as a kill of the script.

**`Quarantine`** — each file written is a number of its own, so that a rename
which replaces another file shows; requests check, move, write the manifest (half
of it, if they die there) and undo.

**`CdnScan`**, **`EsaFilter`** — pools of workers over candidates with duplicates
and what is no address; stages, files appended line by line, kills and resumption.

**`TelegramBot`** — the offset, the batch, the step of one update, sessions in
memory and in the file, and which agents are open.

MC modules give constants their values, and some put parts that share no state
into one run: `part` is chosen at the start, the chosen part moves, and the others
stay in one initial state (`MCIncoming`, `MCServices`, `MCManagedServers`,
`MCOperations`; `MCCdn`, which puts the two scans beside the rollouts of
`MCRollout`; `MCFiles` does so with two settings of one module). The states are
the sum of the parts', not their product, and nothing is lost, for no property
needs two parts. Symmetry is used for requests, nodes and configurations, which
the modules only compare, and only where no liveness is checked.

What the modules share: a user's status is a flag that `SetStatus` changes at any
time in `MobileSessions`, computed in `UserLimits`, part of the versioned data in
`SubscriptionFiles` and `BackgroundSync`, and a field in `ServerRows` and
`Rollout`; each of them allows every change the others make.

## Runs

Distinct states are those of one TLC run with the bounds named. CHECK_DEADLOCK
is off where the system may stop: bounded faults, edits and runs, the end of the
connection in `WsRelay`, the end of a script.

| run | states | what it shows |
|---|---|---|
| `mobile_user` | 366 k | codes, sessions and tokens of one user: `CodesAreSpentOnce`, `AnsweredTokenIsCurrent`, `ReuseRevokesSession`, `RevocationIsFinal`, `ImplementsTokenFamily` |
| `incoming` | 808 k | reports of two nodes in both modes, with resets, failures and restarts: `TotalCoversNodes`, `UsageNeverShrinks`; bootstraps of one installation in both public modes: `InstallationSessionsBounded` |
| `limits_sweep` | 266 k | limits, expiry and sweeps that fail or act on old data: `LimitIsEnforced` |
| `limits_reclassified` | violation | see [below](#behaviour-found-while-modelling) |
| `files` | 717 k | `TwoSlugsIdentify`, `TwoDriveIdentityStays` with creation off; `RefreshConverges` with creation on |
| `files_drive_created` | violation | see [below](#behaviour-found-while-modelling) |
| `ws_relay` | 21 k | `OneWriter`, `AliveSessionStays`, `ClientGoneEnds` |
| `managed_servers` | 954 k | tunnels and keys: `UnitsAreKnown`, `ActiveRuns`, `LinksWork`, `ListedKeysAreLimited`; 107 scripts: `BackupsHoldChanges`, `OkIsComplete`, `UndoneIsAsBefore` |
| `rollout` | 2.01 M | seven kinds of rollout beside the panel: `OkMeansPublished`, `RollbackRestoresLists`, `NoListNamesMissingServer`, `ChangedListsAreBackedUp`; the scans that find the addresses: `ScansLoseNothing` |
| `rollout_undone` | violation | see [below](#behaviour-found-while-modelling) |
| `operations` | 1.21 M | overlapping edits: `EditsStay`, `ClientsAreServed`; settings: `LinksReachFiles`; quarantine: `FilesAreKept`, `ReplacesOnlyNewFiles`; bot: `EveryUpdateIsBegun`, `SessionIsSaved` |
| `services` | 118 k | `QuietMeansPublished`, `ImplementsSyncService`; `EdgeConverges`; `OneAtATime`, `AnnouncedIffDown`, `LeftLockGoes` |

Each module states a type invariant, `TypeOK`. It is proved where a module has a
proof; it is not an INVARIANT of the runs, whose properties are the harder ones.
Bounds, and why they are enough to meet the cases that matter:

- **mobile_user**: two requests, one user, two codes, two sessions, two tokens.
  Two requests already interleave in every pair of stages; two codes are one
  that is replaced and one that replaces it; the second token is either a
  rotation of the first session or the first of a second session. The proofs have
  no such bound.
- **incoming**: one user, two nodes, two requests, counts up to 2, reports that set
  and reports that increment, no limit and no clock: two recomputations of one total,
  or one beside an increment, is the case. Public
  sessions: no users, three sessions and tokens, so that one session can be
  replaced while another rotates, and both modes, of which a restart may drop one.
- **limits_sweep**: both modes, one node, one request beside the sweep, limits 0
  (none) and 1, a clock up to 2 with a period of 1, so that a user can expire, be
  extended and expire again.
- **files**: one user and the refresh. Identity: two requests, one deletion, one
  fault, files with a Drive copy made before. Convergence: one request, one edit,
  one deletion, one fault; version 1 of the data has a body that is not built from
  the servers (`Uncached`). Four rows and four Drive files are never all in use.
- **ws_relay**: the read deadline is two ping intervals, the least the relay can
  work with; a longer one makes `AliveSessionStays` easier.
- **managed_servers**: one tunnel of two configurations, one client, one key,
  two requests, two faults. Tunnels share only the server's row, and so do tunnels
  and keys: a run of the model has requests for the one or for the other. Two
  faults are a command that times out and one more failure while it is still to
  run. Scripts:
  the one client on whom things are tried and one other, two new servers, one
  old, one other, eight states from before a script to after it with missing and
  disabled rows, two throws or kills and a second run.
- **rollout**: two targets, one server to retire, one other, two users in two
  orders of their lists, one event (an edit by the panel, a failure, a kill). The
  invariants of the proofs were checked with it too, and with one user and three
  events on several million states. Scans: three or four addresses of which one
  comes twice, two workers, one failed append or kill, two runs of the filter.
- **operations**: two servers, two clients, one over the limit, two requests;
  two links, edits, imports and rebuilds of one client's file beside a queued rebuild;
  two files, two jobs, two administrators; three messages to a chat,
  one failing call, one restart.
- **services**: the loop with two direct publishers and two commits; one client
  and two carriers (a difference is computed for each client by itself, and a
  fingerprint tells a list from any other with one client as well); two monitors
  and the repair, one probed node, two failures before an alert, one kill, and any
  message lost (with one node none is left out of an alert; the proof has any number).

## Fairness

Safety runs use `Spec` without fairness. For liveness:

- **`UserLimits`**: `setInterval` starts a sweep for ever (`SweepStart`), its
  `finally` ends it (`SweepEnd`, weak). The statement for one user may fail any
  number of times but not always (`SweepUser`, strong). The sweep catches nothing per
  user: it ends at the first statement that throws and begins anew at the next
  tick, so that a user whose statement always fails keeps those after it from being
  checked. That no user's does is assumed, not shown.
- **`BackgroundSync`**: a timer that is set fires, and an awaited statement or
  alert returns or throws (weak, on `TimerFires` and `Loop`). No request and no
  direct publisher is assumed to go on.
- **`EdgeAgent`**: the pull timer fires for ever and requests get lost, but not
  always, so that lists go on arriving (`[]<><<Apply(c)>>`); verification grows old
  and a list is recorded (weak); calls of Xray fail, but not always (strong, on
  `Look` and `Write`). Changes of the list and restarts are bounded.
- **`SubscriptionFiles`**: the refresh starts for ever and its steps get answers
  (weak, on `RefreshNext`); failures are bounded. `FilesConverge` has the
  hypothesis `<>[]Quiet` that requests stop in the end.
- **`WsRelay`**: goroutines that can run do, and time passes (strong, for a mutex
  and a deadline are enabled again and again). Peers have no fairness: a silent
  one never answers, and a stuck write to TCP returns only when its connection is
  closed.
- **`HeavyOps`**: time passes and cron starts each monitor again and again, whose
  steps end or time out (weak on `Tick` and on every `Step(m)`). A repair that has
  begun goes on (weak on its steps other than its start); nobody has to start it.

## Proofs

Each proof module extends the module it is about; `ServicesProofs`,
`OperationsProofs` and `FilesProofs` extend the modules that put several parts or
settings into one run, whose specifications are `Ops!Spec`, `Two!Spec` and so on. TLC checked each
inductive invariant on a run's instance before it was proved.

| theorem | property | for every |
|---|---|---|
| `MobileSessionsProofs!TypeCorrect` | `TypeOK` | requests, users, codes, sessions, tokens |
| `MobileSessionsProofs!TokensIdentify` | `TokenIdentifiesOneSession` | same |
| `MobileSessionsProofs!RevocationHolds` | `RevocationIsFinal` | same |
| `MobileSessionsProofs!AnswersAreCurrent` | `AnsweredTokenIsCurrent` | same |
| `MobileSessionsProofs!ReuseIsRevoked` | `ReuseRevokesSession` | same |
| `MobileSessionsProofs!CodesAreSpent` | `CodesAreSpentOnce` | same |
| `MobileSessionsProofs!InstallationsAreBounded` | `InstallationSessionsBounded` | same, finitely many requests |
| `MobileSessionsProofs!FamiliesAreImplemented` | `ImplementsTokenFamily` | same |
| `UserLimitsProofs!PublicSessionsAreBounded` | `InstallationSessionsBounded` of the `incoming` run | requests (finitely many), sessions, tokens |
| `UserLimitsProofs!TypeCorrect` | `TypeOK` | users, nodes, requests, limits, bounds |
| `UserLimitsProofs!CountersGrow` | `UsageNeverShrinks` | same |
| `UserLimitsProofs!TotalsCover` | `TotalCoversNodes` | same, finitely many nodes, either mode or both |
| `ServicesProofs!NoRequestLost` | `AskIsPending` | direct publishers, commits |
| `ServicesProofs!QuietPublished` | `QuietMeansPublished` | same |
| `ServicesProofs!StepsOfService` | steps of `SyncService` | same |
| `ServicesProofs!OperationsExclude` | `OneAtATime` | monitors, fixers, kills, ages of the lock |
| `ServicesProofs!AlertsAreExact` | `AnnouncedIffDown` | same, services, failures before an alert |
| `WsRelayProofs!TypeCorrect` | `TypeOK` | deadlines of two intervals or more |
| `WsRelayProofs!OneWriterHolds` | `OneWriter` | same |
| `WsRelayProofs!AliveSessionStaysHolds` | `AliveSessionStays` | same |
| `ManagedServersProofs!TypeCorrect` | `TypeOK` and registers | requests, tunnels, configurations, clients, keys, faults |
| `ManagedServersProofs!UnitsStayKnown` | `UnitsAreKnown` | same |
| `ManagedServersProofs!KeysHaveLimits` | `ListedKeysAreLimited` | same |
| `ManagedServersProofs!LinksKeepWorking` | `LinksWork` | same |
| `ManagedServersProofs!ActiveRowsRun` | `ActiveRuns` | same |
| `ManagedServersProofs!BackupsSuffice` | `BackupsHoldChanges` | servers, clients, first lists and rows, throws, kills, runs; each of the 107 scripts |
| `ManagedServersProofs!UndoneIsRestored` | `UndoneIsAsBefore` | same |
| `ManagedServersProofs!OkIsDone` | `OkIsComplete` | same |
| `FilesProofs!TwoTypeCorrect` | `TypeOK`, two requests | users, requests, changes, deletions, failures, bounds |
| `FilesProofs!SlugsStayApart` | `TwoSlugsIdentify` | same |
| `FilesProofs!DriveIdentitiesStay` | `TwoDriveIdentityStays` | same |
| `OperationsProofs!RowsTypeCorrect` | `TypeOK` of `ServerRows` | servers, clients, values, requests, limits |
| `OperationsProofs!EditsAreKept` | `EditsStay` | same |
| `OperationsProofs!ClientsStayServed` | `ClientsAreServed` | same |
| `RolloutProofs!TypeCorrect` | `TypeOK` | users, targets, retired and other servers, lists, events |
| `RolloutProofs!ListsAreBackedUp` | `ChangedListsAreBackedUp` | same |
| `RolloutProofs!ListsNameServers` | `NoListNamesMissingServer` | same |
| `RolloutProofs!ListsAreRestored` | `RollbackRestoresLists` | same |
| `RolloutProofs!SuccessIsPublished` | `OkMeansPublished` | same |
| `RolloutProofs!ScansAreComplete` | `ScansLoseNothing` | addresses, plans, listings, limits, workers, statuses, starts, passes, failures |
| `OperationsProofs!FilesStay` | `FilesAreKept` | paths, jobs, administrators, files, failures; finitely many paths |
| `OperationsProofs!RenamesReplaceNewFiles` | `ReplacesOnlyNewFiles` | same |
| `OperationsProofs!NoUpdateIsPassedOver` | `EveryUpdateIsBegun` | chats, updates, agents, failures, restarts |
| `OperationsProofs!OpenSessionsAreSaved` | `SessionIsSaved` | same |
| `OperationsProofs!LinksArrive` | `LinksReachFiles` | requests, clients, links, failures, edits by scripts |

Why the invariants are what they are:

- **Mobile tokens** (`IInv`). That a token names one session is not inductive: a
  rotation is decided on a row read earlier. `LockInv` says that a request about
  to write holds the lock of its row and that the row still is what it read;
  `HistoryInv` that a spent token was once minted, so that a fresh one is in no row
  and no history. `RespectsLocks` is the frame: what other requests may do to a
  row that is locked. Revocation is then final because only a holder of the lock
  that saw the row unrevoked writes a token.
- **Mobile answers.** `AnswerInv`: what a request is about to answer is on its way
  by this request alone. `CodesInv`: from the lock of an activation to its write
  the code can be used, and each session of a user was opened by a code of that
  user. `OpenersInv`: the sessions of an installation inject into the requests,
  each of which sees, before it opens a session, the one it opened before.
- **Refinement of `TokenFamily`.** The abstract status of a token is read off the
  row it is the token of (`Views`); every step opens, rotates, ends or purges
  sessions, or leaves the view alone.
- **Counters.** `ReadsOK` types what a report has read before it writes. Growth
  follows from `GREATEST`, whatever snapshot was read. `Covers`: the total of a
  user covers its nodes (`Covered`), or a request has yet to sum them up
  (`Pending`), or one has summed up all they hold now and has yet to write it
  (`Snapshot`). A set report that comes in between ends the third case and opens the
  second, by its own recomputation; the write of an older snapshot loses neither,
  since `GREATEST` never lowers a total. An increment raises node and total alike;
  one that ends the third case has nobody to recompute it, and is `torn`. The sum
  is recursive: `SumSteps` gives its
  defining equation, `NothingSums` that of nodes without rows.
- **Background sync.** `Ordered` (what has begun, was asked, was committed) and
  `LoopCovers`: the loop's own list is at least as new as the requests it began
  for. Without it a publication that ends last could be older than the request.
- **Relay.** `Mutex` ties the holder of each write mutex to the stage of a
  goroutine, `Stages` the goroutines to what the handler has started,
  `Answering` gives the deadline: the peer is alive, so a pong is on its way
  whenever an interval has passed, and is read before the second one has.
- **Managed servers.** `UnitsAreKnown` fails to be inductive in two ways: a
  command may put a unit on a host whose row has just gone, and a deletion may
  drop the row of a unit that has come back. `AppliesToKnown` says that whoever
  may still put a unit there does so for a known tunnel, `DeletesUnused` that a
  deletion at its last statement has no unit left, and `OneAtATime` that off the
  tunnels marked `overlapped` at most one request, or late commands, work on a
  tunnel; the one exception is a creation that notes its failure while its own
  command may still run. Keys: a key about to be saved has its limit
  (`SavedIsLimited`). Links: one creation for a tunnel, which nobody has a link to
  before it is active (`UnlinkedUntilActive`). A unit is down only if the host
  has said so to somebody, or a request stopped before it was told (`DownIsTold`).
  Rows and units: what a request finds
  of both at each of its stages (`Ready`), and what it leaves (`Settled`).
- **Subscription files.** Slugs (`SlugsInv`) need no more than what each step does
  to the table (`ChangesOneRow`): the statement checks the slug, so nothing that a
  request read earlier matters. The Drive file of a row does depend on it, since
  a request writes back the whole record it has read: `DrivesAgree` says that
  all requests that hold a row of one file hold the same Drive file, which is the
  row's if the row is there. The agreement among requests is for files whose row
  is deleted under them: one of them puts it back, and the others must agree with
  it. A new row starts with an id that no request holds.
- **Server rows.** `Fresh(r)`: what `r` has read of a row is what is there, or the
  row is in `beside[r]`; nobody uses a server that `r` is about to delete but who
  was given it meanwhile; there was room when `r` counted. `Noticed` is the frame:
  what a step of another request changes is in `beside`.
- **Rollouts.** Two layers. `Safe` is for rollbacks: where the script still knows
  of a client it has changed (`Placed`: in `applied`, or in what is left to undo);
  which rows are there while lists may name them (`Rows`: before the publication
  what is left to publish, afterwards all targets, and lists that were there before
  name servers that were read); and when the backup is complete (`Backups`).
  `Right` is for success and adds what the script has achieved at each stage:
  documents published (`Written`), clients given their list (`Patched`), bodies
  previewed, files written and clients checked, each as "done, or still in
  `left`", for clients and servers nobody else has edited. Success then is the
  last stage with nothing left. An ordering of the scripts that breaks one of
  these shows as the first conjunct that a step does not preserve.

- **Script lock and alerts** (`OpsInv`). `Exclusion`: unless the lock was taken
  from a holder at work (`suspect`), who runs holds it and nobody is about to
  remove it, which is what a taker between its check and its removal would
  break. `Announced`: unless two ran at once or a kill left half a file of streaks
  (`spoilt`), one monitor runs at a time, is about to go on from the streaks that
  are saved, and has yet to send what it read off them (`Pending`); a service that is
  neither `lost` nor pending is announced as what it is.
- **Quarantine** (`FilesInv`). That a completed job holds its files fails to be
  inductive while a request restores it. `Held` therefore counts a file that a
  request has moved and not moved back (`Outstanding`); `Alone` says that nobody
  else works in the directory of a job that is not complete yet, which holds all
  that its request has moved; `Orderly` that a request goes through different
  paths, so that what it undoes it has moved once. `Looked` is for renames: at
  every path where a request may yet put a file there was none when it looked, or
  it moved the file away itself, so that one there now is newer.
- **Chat bot.** `UpdatesInv`: the batch is a row of consecutive updates, all
  before it, before the offset and before what Telegram dropped have been begun
  (`AllBegun`), the others not since the last restart (`BegunOnce`). `AgentsInv`:
  no agent is saved for two chats, and from the disposal of a session to the next
  one (`BotKeepsOrder`) the chat has none, and the agent to come is new or the one
  the chat has saved.
- **Settings** (`SettingsInv`). The cache is the least obvious: `CacheFollows`
  says that whoever is writing was already writing when the cache was filled, for
  a write that begins drops it; so every cache that a write overtakes was filled
  beside it. What was read is the row or known to be behind it (`Ready`), and a
  file without the links of the row is owed, being rebuilt, or a rebuild is queued
  or about to be (`FilesFollow`). A rebuild that stores links behind the row makes
  its client `owed`, but for a queued one that another queued one follows.
- **Scans.** `ScanInv` says where each address of the plan is. `PoolInv`: what the
  pool has not taken, what its workers hold and what has been probed make up the
  list, without one twice. `StagesInv`: the stages before this one are over, each
  has probed all that passed the one before, and this one is given no other.
  `SavedInv` and `PlanInv`: the list of a provider holds what its stages found, and
  nothing before its turn; `AppendsInv`: the second file has all of it, and more
  only where an append failed or a kill came between. `ReportInv` is what the
  ranking reads off that. For the filter `ListInv` says that the lines
  of the file are of candidates inspected, one each (`IsInjective`), so that a
  resumed filter takes up exactly the others. The list that a sort makes is a
  `CHOOSE` among the orders of a set; that there is one is had from the sets
  that can be put in a sequence, as for numbers below.
- **Sessions of an installation in public mode.** `MCIncoming` has `MobileSessions`
  without users and codes. `UserLimitsProofs` instantiates the lemmas of
  `MobileSessionsProofs` the same way (`Mobile`); the initial states and the steps
  of the two instances are the same (`SameInit`, `SameNext`).
- **Maintenance scripts.** The proofs do not go through the 107 scripts: they use
  what `IsScript`, `BackupsComeFirst`, `ListsAreUndone`, `RowsAreUndone` and
  `ListsAndFilesFollow` demand of an entry of the table, whatever servers and clients there are, and TLC
  evaluates these demands for every entry. `BackupInv`: in a run either the
  statement that keeps the backup is ahead (`Ahead`), nothing is written, and what
  was read is what is there, or all that was read has been kept; a second run does
  not write over it, and finds the rest as it was; for lists and for servers apart,
  as a script may back up either. `UndoInv`: in a run each list
  that is not as it was read is noted as changed, or is written by the statement
  just before the one that notes it (`JustListed`), or is one of those to be undone
  anyway; each server is in `saved` and among those of a loop the script has come
  to (`RunRows`). While it undoes, each of them is `Due`: what is left of this
  loop, or a later one, comes to it with a statement that writes it back. The
  exceptions of the property are the entries of which the demands do not hold.
  `CompleteInv` is about what a script that says ok has done. It names the place `p`
  at which the clients are read (`HasRead`), before any list or file is written, and
  says from there on: every client `Descends` from one there was at first; the list
  of each selected client is as read and still `Due`, or as `Wanted` (`ListReady`);
  their file is `Due`, in a loop over clients or over those listed again
  (`Relisting`, `Relisted`), or shows what they hold (`FileReady`); who has been
  listed again has what is wanted (`ListedReady`); whom a first run passes over has
  the file they had (`PassedOver`). When the loops are over nothing is due
  (`Finished`). A step that writes a row makes files stale: the demand
  `FilesFollow` says of each such loop that files are made after it, or that no
  client whose list is as wanted has what it writes (`Spares`).

What the proofs found about the models: `OkMeansPublished` used to say more, that
no file of an unedited or edited client has stale lines after a success. TLC
agreed with one event; the proof failed at `Refresh` and `CreateUser`, and two
events show why: see [below](#behaviour-found-while-modelling). `OkIsComplete` said
nothing of `CleanupServers`: the statement that makes a file or notes that it could
not (`fileOrNote`) had no action, so the script could never say ok, and a run
without the deadlock check does not notice; it has one now (`WriteFile`), and that
script also writes the other lines a client has (`own`). `Document` was a
CASE with overlapping guards, which TLC evaluates in order and logic does not.

Assumptions on constants: `None` is no value of the data (`NoneAssumption`,
`NoneIsNoReason`, `NoneIsNoRow`), bounds are natural numbers, `PongWait >= 2`,
the sets of users, clients or requests are finite where they are counted or put
in a sequence or summed over (`UsersAssumption`, `ClientsAssumption`,
`NodesAssumption`, `ValuesAssumption`), requests are not clients
(`ValuesAssumption`), clients and servers are not `None` and one of the new servers
is `n1`, and `None` is no document of a client (`ClientsAssumption` of
`MCManagedServers`), the first lists and rows of a
script are lists and rows (`WorldsAssumption`), an alert needs at least one failure (`RequiredAssumption`,
the `Math.max(1, …)` of `lib/tls-probe-alert.js`), targets are a non-empty
sequence of servers apart from the retired ones (`TargetsAssumption`), a scan has a
worker or more, each provider once, and lists of addresses (`ScansAssumption`), lists are
lists of servers (`ListsAssumption`), and files made before fit the bounds
(`LegacyAssumption`).

Recursion. `Rollout` filters lists with `Keep`, a recursive function, because its
proofs need what a filter returns. Induction over numbers is had from sets: a set
of numbers has a least one (`LeastNumber`), and a set with 0 that is closed under
successor has them all (`Numbers`); both avoid operators as parameters, which the
provers cannot instantiate.

Checked by TLC only: all liveness (`LimitIsEnforced`, `EdgeConverges`, `RefreshConverges`,
  `ClientGoneEnds`, `LeftLockGoes`, the fairness part of `SyncService`), and
anything with ENABLED: TLAPS proves nothing under fairness.

## Behaviour found while modelling

Three runs show a disagreement between the code and what the repository says of it:

- **`limits_reclassified`**. `test/user-enforcement.test.js` says "disabled users
  are not reclassified by the automatic limiter". `lib/user-enforcement.js:29`
  writes status and reason from the user it was given, which may have been read
  before an admin disabled the user by hand: the manual reason is replaced by an
  automatic one, and a later reset re-activates the user.
- **`files_drive_created`**. `lib/files.js:288` says the Drive URL is "the
  client's stable identity". With `GOOGLE_DRIVE_CREATE_FILES` on, two updates of
  a file without a Drive copy each create one, and the second id replaces the
  first. With the flag off (the default) `TwoDriveIdentityStays` holds.
- **`rollout_undone`**. A script reports "rolled back" and servers are not as
  before: `rollout-bunny-az-all-users.mjs` leaves the ones it created, enabled and
  given to new clients, and what is restored through `upsertServer` keeps the keys
  that were added (`apply-cdn-finalmask-only.mjs` restores none of its changes).

Other behaviour the models make visible, and that no property calls wrong.

Sessions, counters, sync:

- overlapping bootstraps of one installation may each leave a session, up to the
  number of requests (`InstallationSessionsBounded` is that bound), and
  overlapping requests for codes may leave several usable codes;
- a check of mobile access comes before the transaction of an activation: a
  session may outlive a PATCH that switched access off in between, until the
  profile route or the next refresh checks again;
- a total may stay below the sum of its nodes after a failure between the two
  statements, a reset that runs through a report, or an increment that is committed
  between the snapshot and the write of a set report (`torn`), until the next set
  report; the last needs reporters of both modes for one client;
- an older list of clients may be put back after a newer one (next item):
  `QuietMeansPublished` says that a new enough one was written once;
- of two lists published at once the last one written stays, not the newest
  (`lib/vpn-edge-sync.js:15-25`); the next sync mends it.

Files and relay:

- a row of `files` without slug and user may be inserted when a file is deleted
  while its Drive id is saved (`lib/files.js:298`), and a refresh may create the
  file of a user deleted since it was listed (`SlugsIdentify` and `FilesConverge`
  hold beside them);
- the cache of links answers for 45 s after a change of the servers, although
  `routes/subscription.js:85-88` speaks of the current ones; a body that was being
  built when the cache was dropped refills it with links from before
  (`lib/user-subscription-file.js:38`), which the next refresh drops;
- `RELAY_WS_PING_MS` has no upper bound (from 90 s on every idle session ends), and
  a message that takes longer than 90 s ends a session whose peers are alive,
  for its pongs are read after it; `WsRelay` assumes neither happens.

Managed servers:

- `publishManagedXrayServer` and `publishManagedOutlineServer` throw on every
  call (`lib/managed-server-registry.js:25` names a variable of its callers): the
  tunnel route logs it (`routes/admin.js:875-878`), the Outline routes answer
  with an error after the key was made and saved;
- an Outline record whose key is gone from the service cannot be deleted, since
  the service answers 404 first;
- a tunnel's links stay with clients when it is deleted, and of two tunnels
  created at once for one client one link may be lost (`routes/admin.js:905`);
- a failed restart is not noted either: the unit is not running, the admin is
  answered with an error, and the row keeps "active" (`ActiveRuns` excepts the
  tunnels whose last command was `refused`), until a later restart or update;
- a failed tunnel update is not noted: the row keeps "active" with the
  configuration that is restored on the host, whose unit may not come up with it
  either; but after a removal of the unit by
  its name, the row stays "active" without a unit (such tunnels are `stopped`).

Servers, clients, settings (`ServerRows`, `PanelSettings`):

- `upsertServer` in the loops over a CDN writes documents listed before, and the
  edit of one server or of a client's addresses one it has read: fields that others
  saved since are lost, and a server deleted since is inserted again
  (`EditsStay` excepts rows whose writer was overtaken; what it says of the others
  is that a request loses nothing saved before it read);
- a forced deletion of a client's only server leaves an empty list, which means
  all default servers; clients that are inactive during a change of addresses
  keep the old ones; a client given a server between the listing of a deletion and
  the DELETE keeps its name (`ClientsAreServed` excepts it);
- a dealer's limit is exceeded by creations that overlap, each of which counts
  before the other inserts (`ClientsAreServed` bounds the excess by them);
- the settings cache is dropped before the write: a reader in between refills it
  with the old settings, from which the next edit starts, and a link is lost
  (`overtaken`);
- an import rebuilds the files in its request, beside the queue: a queued rebuild
  that has read the links before the import may store its files after it, and so may
  one of two imports; the files then lack links of the row until the next rebuild
  (`LinksReachFiles` excepts the clients that are `owed` so). It also excepts
  rebuilds that overlap with an edit by a script or were given a stale cache. A
  queued rebuild that overlaps with an edit of links is made good by the one that
  the edit queues, and that one must arrive.

Rollouts and maintenance scripts:

- after a success, the file of a client that somebody created or edited during
  the run may carry lines of the documents as they were, until the refresh: the
  script verifies the row of such a client, and files only of those it listed;
- an update that is carried out and whose answer is lost is not undone (`torn`);
  the backup file still has the list;
- `upsertServer` restores no key that a script added, as above, so `Maintenance`
  compares fields that both documents have;
- **not in the backup.** `BackupsHoldChanges` is about scripts with a backup file,
  and says that what they change of clients and of servers was in it before. Lists
  (`ListsUnkept`): `remove-germany-vless-tcp-lines.mjs` writes them first. Servers
  (`RowsUnkept`): `enable-fastly-h2-fallback-all.mjs`,
  `remove-all-fastly-from-subscriptions.mjs`, `remove-old-fastly-subscription-lines.mjs`,
  `fix-old-clients-fastly-compat.mjs`, `deploy-fastly-tm-h3-pilots.mjs`,
  `deploy-fastly-tampa-fornex-pilots.mjs`, `rollout-bunny-ws-to-xhttp-all-users.mjs`
  and `rotate-fastly-tm-ip.mjs` write them before the backup;
  `add-dayanch-fr1-bunny-xhttp2-test.mjs` writes them also in a run without `--apply`,
  which makes no backup. Both: the backup of `delete-disabled-panel-servers-only.mjs`
  holds the servers alone and has a fixed path, which a second run writes over;
- **passed over on a second run** (`SkipsChanged`): a client whose list is as
  wanted and whose file is not, after a kill, in `disable-worker-tampa-pilot.mjs`,
  `fix-all-empty-subscriptions.mjs`, `remove-germany-vless-tcp-lines.mjs`,
  `remove-retired-vps-bundle-lines.mjs`, `restore-token-hashes-and-provider.mjs`,
  `restrict-fastly-tm-h3-to-dayanch.mjs`, `rollback-fastly-h2-compat.mjs`,
  `rollback-ss-per-user-links.mjs`; `fix-old-clients-fastly-compat.mjs` changes
  servers and leaves the files of clients who keep their list;
- **settings after files** (`SettingsLast`): files are built from the old panel
  settings in the scripts that register or repair bundle and Shadowsocks links,
  `remove-retired-vps-bundle-lines.mjs` and `restore-token-hashes-and-provider.mjs`;
- `restrict-fastly-tm-h3-to-dayanch.mjs` tunes servers before its `try`, and a throw
  there is not undone (`UndoneIsAsBefore` is about scripts that say "undone");
- **noted late** (`NotesLate`): `enable-fastly-h2-fallback-all.mjs`,
  `remove-all-fastly-from-subscriptions.mjs`, `rollback-fastly-h2-compat.mjs` note
  a client as changed after its file; a throw in between leaves its list changed
  by a script that says it undid its work;
- **servers kept** (`KeepsRows`): `add-render-fr1-all-clients.mjs`,
  `add-vless-fr1-relay-all-clients.mjs`, `deploy-fastly-tm-h3-pilots.mjs`,
  `deploy-fastly-tampa-fornex-pilots.mjs`, `enable-fastly-h2-fallback-all.mjs`,
  `register-cloudflare-fr1-ws-dayanch-pilot.mjs`,
  `register-gcore-fr1-dayanch-pilot.mjs` do not delete what they created;
- **saved together** (`SavesTogether`): `register-bunny-az-dayanch-pilots.mjs` and
  `apply-dayanch-android-bunny-compat.mjs` note their servers after the last save;
  a throw between two saves leaves the first;
- several undo lists and files before servers, so that the files they rebuild (if any) are
  of the servers to be undone (`rollback-fastly-h2-compat.mjs`,
  `rotate-fastly-tm-ip.mjs`, `switch-fastly-tm-edge-ip.mjs`,
  `publish-shared-ss-all-clients.mjs` among them): `UndoneIsAsBefore` speaks of lists
  and servers.

Lock, quarantine, scans, bot:

- two scripts that find the same stale lock may both remove it, the second time
  when it is new, and run at once (`lib/script-lock.mjs:13`); a script that takes longer than the lock's age
  is overtaken as well; the exit handler removes whoever's lock is there
  (`OneAtATime` excepts all three: `suspect`);
- the streaks are saved before the messages are sent, and a message that fails or is
  killed before is never sent again: an outage may go unannounced, or a recovery
  (`lost`; `AnnouncedIffDown` excepts the service until its next message arrives);
- a restore may replace a file written between its check and its rename
  (`ReplacesOnlyNewFiles` is what remains true); a crash after the moves and before
  the manifest leaves files in a job that no listing shows (`loose`);
- an append of a scan that fails at its fsync has written its line, and the address
  counts as failed: the report leaves it out and a live file may have it (`faulty`);
- a kill between the lines written for one address in
  `filter-alibaba-esa-candidates.mjs` leaves it in the list without its details,
  and the next run passes over it;
- a failed save leaves an agent of the bot open that no session names (`leaked`).

## Not modelled

Within modelled parts: rows of `mobile_diagnostics` and `last_seen_at`; upload
and download as separate counts; the text of bodies and profiles; files without
a user and `refreshFileStorageUrl`; status records of edges, maintenance reports;
HTTP routing and read limits of the relay; inventory, status, address and
installation of managed servers, Outline keys without a limit, the name of a key
(set by the same kind of call as its limit). Outline's calls and the SSH script
are each one step: nothing of the panel looks in between. The dry runs of
rollouts, the requests of scripts to CDNs and hosts (a call that answers or
throws), the sockets behind a probe (only its outcome; probes with idle timeouts
alone could take for ever), the prompts and answers of the bot; clients created
during an import of subscriptions.

Whole parts:

- **SSH fallback of the edge sync** (`lib/relay-edge-sync.js`): the queue, timer
  and loop of `BackgroundSync` around SSH runs, reached only in pilot mode with
  push, or by an emergency script; **the edges' status row**: shown, and decides
  nothing;
- **dealers and admin sessions**: the routes of dealers answer 410
  (`RETIRED_ADMIN_ROUTES` in `routes/admin.js:198-210`), as do those that create
  servers (`POST /servers`, `POST /servers/bulk`) and those of the apps' settings; only
  a dealer's limit is in `ServerRows`;
- **pure functions without state**: rendering of links and profiles, server
  assignment and shards, the choice of an address, parsing of lists;
- **the older Node relay**, which deployments have replaced by the one in Go, the
  stateless relay on Render, the project log, the schema, the user interface;
- **operational scripts** that install or configure hosts and services, report or
  test, and some fifty that import modules the repository no longer has and end
  before their first statement.

## What is left

Every invariant and every action property that a passing run checks is proved.
What is left is liveness, which the provers do not reach, the parts listed above,
and, for the components called partly modelled, the operations their notes name.
