----------------------------- MODULE UserLimits -----------------------------
(***************************************************************************)
(* Traffic counters and the automatic limiter: reports of the edge nodes   *)
(* (routes/internal.js, lib/traffic-usage.js), the limiter after a report  *)
(* or an edit and in its periodic sweep (lib/user-enforcement.js,          *)
(* server.js), and the admin routes that disable, renew, extend and reset  *)
(* users (routes/admin.js, lib/reset-user-usage.js).                       *)
(*                                                                         *)
(* A step is one SQL statement or one transaction.  The statement that     *)
(* recomputes a total from the nodes is two steps, its snapshot and its    *)
(* write, for it may wait for a row in between.  Upload and download are   *)
(* one count of bytes: no decision separates them.                         *)
(***************************************************************************)
EXTENDS Integers, FiniteSets, FiniteSetsExt

CONSTANTS
    Users,
    Nodes,         \* edge nodes that name themselves in their reports
    Requests,      \* HTTP requests that may be in flight at once
    ReportModes,   \* of {"set", "increment"}: the modes the reporters use
    Limits,        \* values of trafficLimitGB, 0 for no limit
    Period,        \* days a reset or an extension gives
    MaxBytes,      \* bound on every byte count
    MaxTime,       \* bound on the clock
    None           \* SQL NULL, and an unused register

ASSUME NodesAssumption == IsFiniteSet(Nodes)
ASSUME ModesAssumption == ReportModes \subseteq {"set", "increment"}
ASSUME LimitsAssumption == Limits \subseteq Nat
ASSUME PeriodAssumption == Period \in Nat \ {0}
ASSUME BoundsAssumption == MaxBytes \in Nat /\ MaxTime \in Nat
ASSUME NoneAssumption == None \notin Users \cup Nodes \cup Int
ASSUME NoneIsNoReason == None \notin {"manual", "expired", "traffic_exceeded"}

VARIABLES
    now,       \* Date.now()
    user,      \* users: the fields of `data' the limiter reads
    total,     \* traffic_usage: bytes of a user, None without a row
    node,      \* traffic_usage_nodes: bytes of a user on a node, or None
    torn,      \* users for whom a request stopped, or was overlapped, halfway:
               \* a report cut off, a reset a report ran through, a set report's
               \* recomputation an increment ran through
    req,       \* what each request in flight has read and does next
    sweeping,  \* enforcementInProgress
    sweep      \* users the sweep still has to check, as its listUsers saw them

counters == <<total, node, torn>>
sweeps == <<sweeping, sweep>>
vars == <<now, user, counters, req, sweeps>>

-----------------------------------------------------------------------------

Bytes == 0 .. MaxBytes
Count == Bytes \cup {None}
AutoReasons == {"expired", "traffic_exceeded"}
Reasons == {"manual"} \cup AutoReasons

\* disabledReason is null exactly while the status is 'active'.
UserRow == {row \in [status : {"active", "disabled"}, reason : Reasons \cup {None},
                     expiresAt : Int, limit : Limits, used : Bytes] :
                row.status = "active" <=> row.reason = None}

\* What a sweep keeps of an active user: over its limit?, and its expiry.
Seen == [over : BOOLEAN, expiresAt : Int]

Stages == {"idle", "aggregate", "aggregate-write", "enforce", "disable",
           "reset-nodes", "reset-total", "reset-user", "extend"}
Register == [at : Stages, user : Users \cup {None}, count : Int, reason : Reasons \cup {None}]
Idle == [at |-> "idle", user |-> None, count |-> 0, reason |-> None]

TypeOK ==
    /\ now \in 0 .. MaxTime
    /\ user \in [Users -> UserRow]
    /\ total \in [Users -> Count]
    /\ node \in [Users -> [Nodes -> Count]]
    /\ torn \subseteq Users
    /\ req \in [Requests -> Register]
    /\ sweeping \in BOOLEAN
    /\ sweep \in [Users -> Seen \cup {None}]

-----------------------------------------------------------------------------
(* Counters *)

BytesOf(count) == IF count = None THEN 0 ELSE count

\* ON CONFLICT DO UPDATE SET bytes = GREATEST(...), or bytes + EXCLUDED.bytes.
Overwritten(count, bytes) == bytes
Greatest(count, bytes) == IF BytesOf(count) > bytes THEN count ELSE bytes
Added(count, bytes) == BytesOf(count) + bytes

SumOf(counts) == MapThenSumSet(LAMBDA n : BytesOf(counts[n]), Nodes)
NodeSum(u) == SumOf(node[u])
HasNodeRow(u) == \E n \in Nodes : node[u][n] # None

\* mapUser: the counter hides the usage stored with the user, unless it is 0.
Used(u) == IF BytesOf(total[u]) > 0 THEN total[u] ELSE user[u].used
Over(u) == user[u].limit > 0 /\ Used(u) >= user[u].limit

\* shouldAutoDisable of an active user: the reason to disable it, or None.
DisableReasonLate(expiresAt, over) ==
    IF expiresAt < now THEN "expired" ELSE IF over THEN "traffic_exceeded" ELSE None
DisableReason(expiresAt, over) ==
    IF expiresAt <= now THEN "expired" ELSE IF over THEN "traffic_exceeded" ELSE None

-----------------------------------------------------------------------------
(* Program counters *)

At(r, stage) == req[r].at = stage
Goto(r, register) == req' = [req EXCEPT ![r] = register]
Begin(r, stage, u) == At(r, "idle") /\ Goto(r, [Idle EXCEPT !.at = stage, !.user = u])
Move(r, stage) == Goto(r, [req[r] EXCEPT !.at = stage])
Finish(r) == Goto(r, Idle)

Init ==
    /\ now = 0
    /\ user \in [Users -> [status : {"active"}, reason : {None}, expiresAt : {Period},
                           limit : Limits, used : {0}]]
    /\ total = [u \in Users |-> None]
    /\ node = [u \in Users |-> [n \in Nodes |-> None]]
    /\ torn = {}
    /\ req = [r \in Requests |-> Idle]
    /\ sweeping = FALSE
    /\ sweep = [u \in Users |-> None]

-----------------------------------------------------------------------------
(* POST /traffic/report: each report writes counters, then runs the limiter *)

\* A report without a node: setTrafficUsageBytes, incrementTrafficUsageBytes.
ReportTotal(r, u, bytes, mode) ==
    LET count == IF mode = "set" THEN Greatest(total[u], bytes) ELSE Added(total[u], bytes) IN
    /\ count <= MaxBytes
    /\ Begin(r, "enforce", u)
    /\ total' = [total EXCEPT ![u] = count]
    /\ UNCHANGED <<now, user, node, torn, sweeps>>

\* incrementNodeTrafficUsageBytes: one transaction, nothing for 0 bytes.  A total
\* that a set report has computed and not written yet misses it.
Recomputing(u) == \E r \in Requests : req[r].user = u /\ At(r, "aggregate-write")

IncrementNode(r, u, n, bytes) ==
    /\ Added(node[u][n], bytes) <= MaxBytes /\ Added(total[u], bytes) <= MaxBytes
    /\ Begin(r, "enforce", u)
    /\ IF bytes = 0
       THEN UNCHANGED counters
       ELSE /\ node' = [node EXCEPT ![u][n] = Added(@, bytes)]
            /\ total' = [total EXCEPT ![u] = Added(@, bytes)]
            /\ torn' = IF Recomputing(u) THEN torn \cup {u} ELSE torn
    /\ UNCHANGED <<now, user, sweeps>>

\* setNodeTrafficUsageBytes: first the node ...
SetNode(r, u, n, bytes) ==
    /\ Begin(r, "aggregate", u)
    /\ node' = [node EXCEPT ![u][n] = Greatest(@, bytes)]
    /\ UNCHANGED <<now, user, total, torn, sweeps>>

\* ... then the total, from the nodes its snapshot sees (no row, no write) ...
Aggregate(r) ==
    LET u == req[r].user IN
    /\ At(r, "aggregate")
    /\ NodeSum(u) \in Bytes
    /\ IF HasNodeRow(u)
       THEN Goto(r, [req[r] EXCEPT !.at = "aggregate-write", !.count = NodeSum(u)])
       ELSE Move(r, "enforce")
    /\ UNCHANGED <<now, user, counters, sweeps>>

\* ... unless the total is greater by now.
AggregateWrite(r) ==
    /\ At(r, "aggregate-write")
    /\ total' = [total EXCEPT ![req[r].user] = Greatest(@, req[r].count)]
    /\ Goto(r, [Idle EXCEPT !.at = "enforce", !.user = req[r].user])
    /\ UNCHANGED <<now, user, node, torn, sweeps>>

-----------------------------------------------------------------------------
(* The limiter *)

\* enforceUserLimits(id): SELECT the user, shouldAutoDisable.
Enforce(r) ==
    LET u == req[r].user
        reason == DisableReason(user[u].expiresAt, Over(u))
    IN
    /\ At(r, "enforce")
    /\ IF user[u].status = "active" /\ reason # None
       THEN Goto(r, [req[r] EXCEPT !.at = "disable", !.reason = reason])
       ELSE Finish(r)
    /\ UNCHANGED <<now, user, counters, sweeps>>

\* The UPDATE does not look at the status it replaces.
DisabledWithoutReason(u, reason) == [user EXCEPT ![u].status = "disabled"]
Disabled(u, reason) == [user EXCEPT ![u].status = "disabled", ![u].reason = reason]

Disable(r) ==
    /\ At(r, "disable")
    /\ user' = Disabled(req[r].user, req[r].reason)
    /\ Finish(r)
    /\ UNCHANGED <<now, counters, sweeps>>

\* runPeriodicUserEnforcement: one sweep at a time, over what listUsers saw.
SweepStart ==
    /\ ~sweeping
    /\ sweeping' = TRUE
    /\ sweep' = [u \in Users |-> IF user[u].status = "active"
                                THEN [over |-> Over(u), expiresAt |-> user[u].expiresAt]
                                ELSE None]
    /\ UNCHANGED <<now, user, counters, req>>

SweepUser(u) ==
    LET reason == DisableReason(sweep[u].expiresAt, sweep[u].over) IN
    /\ sweep[u] # None
    /\ user' = IF reason = None THEN user ELSE Disabled(u, reason)
    /\ sweep' = [sweep EXCEPT ![u] = None]
    /\ UNCHANGED <<now, counters, req, sweeping>>

SweepEnd ==
    /\ sweeping
    /\ \A u \in Users : sweep[u] = None
    /\ sweeping' = FALSE
    /\ UNCHANGED <<now, user, counters, req, sweep>>

\* A statement, or the refresh of a user's files, throws: the rest is skipped.
SweepFails ==
    /\ sweeping
    /\ sweeping' = FALSE
    /\ sweep' = [u \in Users |-> None]
    /\ UNCHANGED <<now, user, counters, req>>

-----------------------------------------------------------------------------
(* The admin API *)

\* PATCH /users/:id with a status or a limit runs no limiter.
PatchStatus(u) ==
    /\ \/ user' = [user EXCEPT ![u].status = "active", ![u].reason = None]
       \/ user' = [user EXCEPT ![u].status = "disabled", ![u].reason = "manual"]
    /\ UNCHANGED <<now, counters, req, sweeps>>

PatchLimit(u) ==
    /\ \E limit \in Limits : user' = [user EXCEPT ![u].limit = limit]
    /\ UNCHANGED <<now, counters, req, sweeps>>

\* With an expiry (a renewal sends status 'active' too) or a usage it does.
PatchExpiry(r, u) ==
    /\ Begin(r, "enforce", u)
    /\ \E expiresAt \in {now, now + Period} :
         \/ user' = [user EXCEPT ![u].expiresAt = expiresAt]
         \/ user' = [user EXCEPT ![u].expiresAt = expiresAt,
                                 ![u].status = "active", ![u].reason = None]
    /\ UNCHANGED <<now, counters, sweeps>>

PatchUsage(r, u) ==
    /\ Begin(r, "enforce", u)
    /\ \E bytes \in Bytes : user' = [user EXCEPT ![u].used = bytes]
    /\ UNCHANGED <<now, counters, sweeps>>

\* resetUserUsage of a user read earlier: DELETE its nodes, DELETE its total,
\* then start a period and undo the limiter if it had disabled that user.
ResetBegin(r, u) ==
    /\ At(r, "idle")
    /\ Goto(r, [Idle EXCEPT !.at = "reset-nodes", !.user = u, !.reason = user[u].reason])
    /\ UNCHANGED <<now, user, counters, sweeps>>

ResetNodes(r) ==
    /\ At(r, "reset-nodes")
    /\ node' = [node EXCEPT ![req[r].user] = [n \in Nodes |-> None]]
    /\ Move(r, "reset-total")
    /\ UNCHANGED <<now, user, total, torn, sweeps>>

ResetTotal(r) ==
    LET u == req[r].user IN
    /\ At(r, "reset-total")
    /\ total' = [total EXCEPT ![u] = None]
    /\ torn' = IF HasNodeRow(u) THEN torn \cup {u} ELSE torn \ {u}
    /\ Move(r, "reset-user")
    /\ UNCHANGED <<now, user, node, sweeps>>

ResetUser(r) ==
    LET u == req[r].user IN
    /\ At(r, "reset-user")
    /\ user' = [user EXCEPT ![u].used = 0,
                            ![u].expiresAt = now + Period,
                            ![u].status = IF req[r].reason \in AutoReasons THEN "active" ELSE @,
                            ![u].reason = IF req[r].reason \in AutoReasons THEN None ELSE @]
    /\ Finish(r)
    /\ UNCHANGED <<now, counters, sweeps>>

\* POST /users/bulk-extend: from the expiry its listUsers saw; always active.
ExtendBegin(r, u) ==
    /\ At(r, "idle")
    /\ Goto(r, [Idle EXCEPT !.at = "extend", !.user = u,
                  !.count = IF user[u].expiresAt > now THEN user[u].expiresAt ELSE now])
    /\ UNCHANGED <<now, user, counters, sweeps>>

Extend(r) ==
    /\ At(r, "extend")
    /\ req[r].count <= MaxTime
    /\ user' = [user EXCEPT ![req[r].user].expiresAt = req[r].count + Period,
                            ![req[r].user].status = "active",
                            ![req[r].user].reason = None]
    /\ Finish(r)
    /\ UNCHANGED <<now, counters, sweeps>>

-----------------------------------------------------------------------------
(* Time and failures *)

Tick ==
    /\ now < MaxTime
    /\ now' = now + 1
    /\ UNCHANGED <<user, counters, req, sweeps>>

\* A report between its two statements leaves a node without its total.
TornBy(set) == {req[r].user : r \in {s \in set : req[s].at \in {"aggregate", "aggregate-write"}}}

RequestFails(r) ==
    /\ ~At(r, "idle")
    /\ torn' = torn \cup TornBy({r})
    /\ Finish(r)
    /\ UNCHANGED <<now, user, total, node, sweeps>>

Restart ==
    /\ torn' = torn \cup TornBy(Requests)
    /\ req' = [r \in Requests |-> Idle]
    /\ sweeping' = FALSE
    /\ sweep' = [u \in Users |-> None]
    /\ UNCHANGED <<now, user, total, node>>

-----------------------------------------------------------------------------

Report(r, u) ==
    \E bytes \in Bytes :
        \/ \E mode \in ReportModes : ReportTotal(r, u, bytes, mode)
        \/ \E n \in Nodes : "increment" \in ReportModes /\ IncrementNode(r, u, n, bytes)
        \/ \E n \in Nodes : "set" \in ReportModes /\ SetNode(r, u, n, bytes)

Arrive(r, u) ==
    \/ Report(r, u)
    \/ PatchExpiry(r, u) \/ PatchUsage(r, u)
    \/ ResetBegin(r, u) \/ ExtendBegin(r, u)

Continue(r) ==
    \/ Aggregate(r) \/ AggregateWrite(r)
    \/ Enforce(r) \/ Disable(r)
    \/ ResetNodes(r) \/ ResetTotal(r) \/ ResetUser(r)
    \/ Extend(r)

Sweep == SweepStart \/ SweepEnd \/ SweepFails \/ \E u \in Users : SweepUser(u)

Next ==
    \/ \E r \in Requests, u \in Users : Arrive(r, u)
    \/ \E r \in Requests : Continue(r) \/ RequestFails(r)
    \/ \E u \in Users : PatchStatus(u) \/ PatchLimit(u)
    \/ Sweep \/ Tick \/ Restart

Spec == Init /\ [][Next]_vars

\* setInterval starts sweeps for ever and a sweep goes on; its statements may
\* fail any number of times, but not always.
Fairness ==
    /\ WF_vars(SweepStart)
    /\ WF_vars(SweepEnd)
    /\ \A u \in Users : SF_vars(SweepUser(u))

LiveSpec == Spec /\ Fairness

-----------------------------------------------------------------------------
(* Properties *)

\* No report takes usage away: a late or repeated report, or a total computed
\* from nodes that have grown since, never lowers a counter; only a reset
\* removes it.
UsageNeverShrinks ==
    [][\A u \in Users :
        /\ total[u] # None => total'[u] = None \/ total'[u] >= total[u]
        /\ \A n \in Nodes :
             node[u][n] # None => node'[u][n] = None \/ node'[u][n] >= node[u][n]]_vars

\* When no report is between its two statements, the total of a user covers
\* what its nodes reported, in either mode or both, whatever order their
\* statements ran in, unless a request stopped halfway, a reset ran through a
\* report or an increment through the recomputation of a set report.
TotalCoversNodes ==
    \A u \in Users :
        \/ u \in torn
        \/ \E r \in Requests : req[r].user = u /\ req[r].at \in {"aggregate", "aggregate-write"}
        \/ NodeSum(u) <= BytesOf(total[u])

\* A user over its limit, or at its expiry, does not stay active: whatever
\* sweeps fail or act on what they saw before, one disables it in the end.
Due(u) == user[u].status = "active" /\ (user[u].expiresAt <= now \/ Over(u))
LimitIsEnforced == \A u \in Users : Due(u) ~> ~Due(u)

\* test/user-enforcement.test.js: "disabled users are not reclassified by the
\* automatic limiter".
DisabledIsNotReclassified ==
    [][\A u \in Users : user[u].reason = "manual" => user'[u].reason \notin AutoReasons]_vars
=============================================================================
