-------------------------- MODULE UserLimitsProofs --------------------------
(***************************************************************************)
(* For any number of users, nodes and requests, and any bounds: the types  *)
(* of UserLimits, with a reason for every disabled user, that reports      *)
(* never lower a counter, and that the total of a user covers its nodes,   *)
(* in either mode of reports.  And the bound on the sessions that          *)
(* bootstraps leave, from MobileSessionsProofs.                            *)
(***************************************************************************)
EXTENDS MCIncoming, FiniteSetTheorems, TLAPS

\* What a request in flight has read.
ReadsOK ==
    \A r \in Requests :
        /\ ~At(r, "idle") => req[r].user \in Users
        /\ At(r, "aggregate-write") => req[r].count \in Bytes
        /\ At(r, "disable") => req[r].reason \in AutoReasons

IInv == TypeOK /\ ReadsOK

USE NoneIsNoReason

-----------------------------------------------------------------------------
(* Rows *)

\* The writes to a row of `users' keep its type.
LEMMA RowWrites ==
    ASSUME NEW row \in UserRow
    PROVE  /\ \A reason \in Reasons :
                [row EXCEPT !.status = "disabled", !.reason = reason] \in UserRow
           /\ [row EXCEPT !.status = "active", !.reason = None] \in UserRow
           /\ \A limit \in Limits : [row EXCEPT !.limit = limit] \in UserRow
           /\ \A bytes \in Bytes : [row EXCEPT !.used = bytes] \in UserRow
           /\ \A expiresAt \in Int : [row EXCEPT !.expiresAt = expiresAt] \in UserRow
BY DEF UserRow, Reasons, AutoReasons

\* Counting bytes up keeps a counter's type and does not lower it.
LEMMA Counting ==
    ASSUME NEW count \in Count, NEW bytes \in Bytes
    PROVE  /\ Greatest(count, bytes) \in Bytes
           /\ count # None => Greatest(count, bytes) >= count
           /\ Added(count, bytes) \in Nat
           /\ count # None => Added(count, bytes) >= count
BY NoneAssumption, BoundsAssumption DEF Count, Bytes, Greatest, Added, BytesOf

\* The limiter has a reason of its own for each user it disables.
LEMMA ReasonIsAutomatic ==
    \A expiresAt, over : DisableReason(expiresAt, over) \in AutoReasons \cup {None}
BY DEF DisableReason, AutoReasons

-----------------------------------------------------------------------------
(* Registers *)

\* A register of its type, with what its stage needs.
RegisterOK(register) ==
    /\ register \in Register
    /\ register.at # "idle" => register.user \in Users
    /\ register.at = "aggregate-write" => register.count \in Bytes
    /\ register.at = "disable" => register.reason \in AutoReasons

ReqOK == req \in [Requests -> Register] /\ ReadsOK

\* A request that moves on to a good register keeps the registers good.
LEMMA GotoKeeps ==
    ASSUME ReqOK, NEW r \in Requests, NEW register, RegisterOK(register), Goto(r, register)
    PROVE  ReqOK'
BY DEF ReqOK, ReadsOK, RegisterOK, Goto, At

\* The registers the actions move to.
LEMMA Registers ==
    /\ RegisterOK(Idle)
    /\ \A u \in Users, stage \in Stages \ {"aggregate-write", "disable"} :
         RegisterOK([Idle EXCEPT !.at = stage, !.user = u])
    /\ \A u \in Users, reason \in Reasons \cup {None} :
         RegisterOK([Idle EXCEPT !.at = "reset-nodes", !.user = u, !.reason = reason])
    /\ \A u \in Users, count \in Int :
         RegisterOK([Idle EXCEPT !.at = "extend", !.user = u, !.count = count])
<1>1. RegisterOK(Idle)
  BY DEF RegisterOK, Register, Idle, Stages
<1>2. ASSUME NEW u \in Users, NEW stage \in Stages \ {"aggregate-write", "disable"}
      PROVE  RegisterOK([Idle EXCEPT !.at = stage, !.user = u])
  <2> DEFINE register == [Idle EXCEPT !.at = stage, !.user = u]
  <2>1. register \in Register
    BY <1>1 DEF RegisterOK, Register
  <2>2. register.at = stage /\ register.user = u
    BY DEF Idle
  <2> HIDE DEF register
  <2>3. RegisterOK(register)
    BY <2>1, <2>2 DEF RegisterOK
  <2> QED BY <2>3 DEF register
<1>3. ASSUME NEW u \in Users, NEW reason \in Reasons \cup {None}
      PROVE  RegisterOK([Idle EXCEPT !.at = "reset-nodes", !.user = u, !.reason = reason])
  <2> DEFINE register == [Idle EXCEPT !.at = "reset-nodes", !.user = u, !.reason = reason]
  <2>1. register \in Register
    BY <1>1 DEF RegisterOK, Register, Stages
  <2>2. register.at = "reset-nodes" /\ register.user = u
    BY DEF Idle
  <2> HIDE DEF register
  <2>3. RegisterOK(register)
    BY <2>1, <2>2 DEF RegisterOK
  <2> QED BY <2>3 DEF register
<1>4. ASSUME NEW u \in Users, NEW count \in Int
      PROVE  RegisterOK([Idle EXCEPT !.at = "extend", !.user = u, !.count = count])
  BY DEF RegisterOK, Register, Idle, Stages
<1> QED BY <1>1, <1>2, <1>3, <1>4

\* A register that goes on stays well typed.
LEMMA RegisterMoves ==
    ASSUME ReqOK, NEW r \in Requests, ~At(r, "idle")
    PROVE  /\ \A stage \in Stages \ {"aggregate-write", "disable"} :
                RegisterOK([req[r] EXCEPT !.at = stage])
           /\ \A count \in Bytes :
                RegisterOK([req[r] EXCEPT !.at = "aggregate-write", !.count = count])
           /\ \A reason \in AutoReasons :
                RegisterOK([req[r] EXCEPT !.at = "disable", !.reason = reason])
<1>1. req[r] \in Register /\ req[r].user \in Users
  BY DEF ReqOK, ReadsOK
<1>2. ASSUME NEW stage \in Stages \ {"aggregate-write", "disable"}
      PROVE  RegisterOK([req[r] EXCEPT !.at = stage])
  BY <1>1 DEF RegisterOK, Register
<1>3. ASSUME NEW count \in Bytes
      PROVE  RegisterOK([req[r] EXCEPT !.at = "aggregate-write", !.count = count])
  <2> DEFINE register == [req[r] EXCEPT !.at = "aggregate-write", !.count = count]
  <2>1. count \in Int
    BY DEF Bytes
  <2>2. register \in Register
    BY <1>1, <2>1 DEF Register, Stages
  <2>3. register.at = "aggregate-write" /\ register.user = req[r].user /\ register.count = count
    BY <1>1 DEF Register
  <2> HIDE DEF register
  <2>4. RegisterOK(register)
    BY <1>1, <2>2, <2>3 DEF RegisterOK
  <2> QED BY <2>4 DEF register
<1>4. ASSUME NEW reason \in AutoReasons
      PROVE  RegisterOK([req[r] EXCEPT !.at = "disable", !.reason = reason])
  BY <1>1 DEF RegisterOK, Register, Stages, Reasons
<1> QED BY <1>2, <1>3, <1>4

-----------------------------------------------------------------------------
(* The invariant, one lemma per group of actions *)

\* A report writes one counter and leaves a good register.
LEMMA ReportKeeps ==
    ASSUME IInv, NEW r \in Requests, NEW u \in Users, Report(r, u)
    PROVE  IInv'
<1> USE DEF sweeps, IInv
<1>1. PICK bytes \in Bytes :
        \/ \E mode \in ReportModes : ReportTotal(r, u, bytes, mode)
        \/ \E n \in Nodes : IncrementNode(r, u, n, bytes) \/ SetNode(r, u, n, bytes)
  BY DEF Report
<1>2. ASSUME NEW stage \in {"enforce", "aggregate"}, Begin(r, stage, u) PROVE ReqOK'
  <2>1. RegisterOK([Idle EXCEPT !.at = stage, !.user = u])
    BY Registers DEF Stages
  <2> QED BY <1>2, <2>1, GotoKeeps DEF Begin, ReqOK, TypeOK
<1>3. total[u] \in Count /\ \A n \in Nodes : node[u][n] \in Count
  BY DEF TypeOK
<1>4. ASSUME NEW mode \in ReportModes, ReportTotal(r, u, bytes, mode) PROVE IInv'
  <2> DEFINE count == IF mode = "set" THEN Greatest(total[u], bytes) ELSE Added(total[u], bytes)
  <2>1. count \in Bytes
    BY <1>3, <1>4, Counting DEF ReportTotal, Bytes
  <2>2. total' = [total EXCEPT ![u] = count]
    BY <1>4 DEF ReportTotal
  <2> HIDE DEF count
  <2>3. total' \in [Users -> Count]
    BY <2>1, <2>2 DEF TypeOK, Count
  <2>4. ReqOK'
    BY <1>2, <1>4 DEF ReportTotal
  <2> QED BY <1>4, <2>3, <2>4 DEF ReportTotal, TypeOK, ReqOK
<1>5. ASSUME NEW n \in Nodes, IncrementNode(r, u, n, bytes) PROVE IInv'
  <2>1. Added(node[u][n], bytes) \in Bytes /\ Added(total[u], bytes) \in Bytes
    BY <1>3, <1>5, Counting DEF IncrementNode, Bytes
  <2>2. ReqOK'
    BY <1>2, <1>5 DEF IncrementNode
  <2>3. total' \in [Users -> Count]
    BY <1>5, <2>1 DEF IncrementNode, counters, TypeOK, Count
  <2>4. node' \in [Users -> [Nodes -> Count]]
    <3>1. node' = node \/ node' = [node EXCEPT ![u][n] = Added(node[u][n], bytes)]
      BY <1>5 DEF IncrementNode, counters
    <3>2. Added(node[u][n], bytes) \in Count
      BY <2>1 DEF Count
    <3>3. CASE node' = [node EXCEPT ![u][n] = Added(node[u][n], bytes)]
      BY <3>2, <3>3 DEF TypeOK
    <3> QED BY <3>1, <3>3 DEF TypeOK
  <2>5. torn' \subseteq Users
    BY <1>5 DEF IncrementNode, counters, TypeOK
  <2> QED BY <1>5, <2>2, <2>3, <2>4, <2>5 DEF IncrementNode, TypeOK, ReqOK
<1>6. ASSUME NEW n \in Nodes, SetNode(r, u, n, bytes) PROVE IInv'
  <2>1. Greatest(node[u][n], bytes) \in Bytes
    BY <1>3, Counting
  <2>2. ReqOK'
    BY <1>2, <1>6 DEF SetNode
  <2>3. node' \in [Users -> [Nodes -> Count]]
    BY <1>6, <2>1 DEF SetNode, TypeOK, Count
  <2> QED BY <1>6, <2>2, <2>3 DEF SetNode, TypeOK, ReqOK
<1> QED BY <1>1, <1>4, <1>5, <1>6

\* Writing one row of `users' keeps the table.
LEMMA TableWrites ==
    ASSUME TypeOK, NEW u \in Users, NEW row \in UserRow,
           user' = [user EXCEPT ![u] = row]
    PROVE  user' \in [Users -> UserRow]
BY DEF TypeOK

\* Disabling with a reason, and undoing it, keep the table.
LEMMA StatusWrites ==
    ASSUME TypeOK, NEW u \in Users
    PROVE  /\ \A reason \in Reasons : Disabled(u, reason) \in [Users -> UserRow]
           /\ [user EXCEPT ![u].status = "active", ![u].reason = None] \in [Users -> UserRow]
<1>1. user[u] \in UserRow
  BY DEF TypeOK
<1>2. ASSUME NEW reason \in Reasons PROVE Disabled(u, reason) \in [Users -> UserRow]
  <2>1. [user[u] EXCEPT !.status = "disabled", !.reason = reason] \in UserRow
    BY <1>1, RowWrites
  <2> QED BY <2>1 DEF Disabled, TypeOK
<1>3. [user EXCEPT ![u].status = "active", ![u].reason = None] \in [Users -> UserRow]
  <2>1. [user[u] EXCEPT !.status = "active", !.reason = None] \in UserRow
    BY <1>1, RowWrites
  <2> QED BY <2>1 DEF TypeOK
<1> QED BY <1>2, <1>3

\* The later steps of a report, of the limiter, of a reset and of an extension.
LEMMA ContinueKeeps ==
    ASSUME IInv, NEW r \in Requests, Continue(r)
    PROVE  IInv'
<1> USE DEF counters, sweeps, IInv
<1> DEFINE u == req[r].user
<1>1. ~At(r, "idle") /\ u \in Users /\ req[r] \in Register /\ ReqOK
  BY DEF Continue, Aggregate, AggregateWrite, Enforce, Disable, ResetNodes, ResetTotal,
         ResetUser, Extend, At, ReadsOK, ReqOK, TypeOK
<1>2. ASSUME NEW stage \in Stages \ {"aggregate-write", "disable"}, Move(r, stage) PROVE ReqOK'
  BY <1>1, <1>2, RegisterMoves, GotoKeeps DEF Move
<1>3. Finish(r) => ReqOK'
  BY <1>1, Registers, GotoKeeps DEF Finish
<1>4. CASE Aggregate(r)
  <2>1. ReqOK'
    BY <1>1, <1>2, <1>4, RegisterMoves, GotoKeeps DEF Aggregate, Stages
  <2> QED BY <1>4, <2>1 DEF Aggregate, TypeOK, ReqOK
<1>5. CASE AggregateWrite(r)
  <2>1. req[r].count \in Bytes /\ total[u] \in Count
    BY <1>1, <1>5 DEF AggregateWrite, ReadsOK, TypeOK
  <2>2. Greatest(total[u], req[r].count) \in Count
    BY <2>1, Counting DEF Count
  <2>3. total' \in [Users -> Count]
    BY <1>5, <2>2 DEF AggregateWrite, TypeOK
  <2>4. RegisterOK([Idle EXCEPT !.at = "enforce", !.user = u])
    BY <1>1, Registers DEF Stages
  <2>5. ReqOK'
    BY <1>1, <1>5, <2>4, GotoKeeps DEF AggregateWrite
  <2> QED BY <1>5, <2>3, <2>5 DEF AggregateWrite, TypeOK, ReqOK
<1>6. CASE Enforce(r)
  <2> DEFINE reason == DisableReason(user[u].expiresAt, Over(u))
  <2>1. reason \in AutoReasons \cup {None}
    BY ReasonIsAutomatic
  <2>2. Finish(r) \/ (reason # None /\ Goto(r, [req[r] EXCEPT !.at = "disable", !.reason = reason]))
    BY <1>6 DEF Enforce
  <2> HIDE DEF reason
  <2>3. ReqOK'
    BY <1>1, <1>3, <2>1, <2>2, RegisterMoves, GotoKeeps
  <2> QED BY <1>6, <2>3 DEF Enforce, TypeOK, ReqOK
<1>7. CASE Disable(r)
  <2>1. req[r].reason \in Reasons
    BY <1>7 DEF Disable, ReadsOK, Reasons
  <2>2. user' \in [Users -> UserRow]
    BY <1>1, <1>7, <2>1, StatusWrites DEF Disable
  <2>3. ReqOK'
    BY <1>3, <1>7 DEF Disable
  <2> QED BY <1>7, <2>2, <2>3 DEF Disable, TypeOK, ReqOK
<1>8. CASE ResetNodes(r)
  <2>1. ReqOK'
    BY <1>2, <1>8 DEF ResetNodes, Stages
  <2>2. node' \in [Users -> [Nodes -> Count]]
    BY <1>8 DEF ResetNodes, TypeOK, Count
  <2> QED BY <1>8, <2>1, <2>2 DEF ResetNodes, TypeOK, ReqOK
<1>9. CASE ResetTotal(r)
  <2>1. ReqOK'
    BY <1>2, <1>9 DEF ResetTotal, Stages
  <2>2. total' \in [Users -> Count] /\ torn' \subseteq Users
    BY <1>1, <1>9 DEF ResetTotal, TypeOK, Count
  <2> QED BY <1>9, <2>1, <2>2 DEF ResetTotal, TypeOK, ReqOK
<1>10. CASE ResetUser(r)
  <2> DEFINE automatic == req[r].reason \in AutoReasons
             row == [user[u] EXCEPT !.used = 0, !.expiresAt = now + Period,
                       !.status = IF automatic THEN "active" ELSE @,
                       !.reason = IF automatic THEN None ELSE @]
  <2>1. user[u] \in UserRow /\ now + Period \in Int /\ 0 \in Bytes
    BY <1>1, PeriodAssumption, BoundsAssumption DEF TypeOK, Bytes
  <2>2. row \in UserRow
    BY <2>1 DEF UserRow, Reasons
  <2>3. user' = [user EXCEPT ![u] = row]
    BY <1>1, <1>10 DEF ResetUser, TypeOK
  <2> HIDE DEF row
  <2>4. user' \in [Users -> UserRow]
    BY <1>1, <2>2, <2>3, TableWrites
  <2>5. ReqOK'
    BY <1>3, <1>10 DEF ResetUser
  <2> QED BY <1>10, <2>4, <2>5 DEF ResetUser, TypeOK, ReqOK
<1>11. CASE Extend(r)
  <2> DEFINE row == [user[u] EXCEPT !.expiresAt = req[r].count + Period,
                                    !.status = "active", !.reason = None]
  <2>1. user[u] \in UserRow /\ req[r].count + Period \in Int
    BY <1>1, PeriodAssumption DEF TypeOK, Register
  <2>2. row \in UserRow
    BY <2>1 DEF UserRow, Reasons
  <2>3. user' = [user EXCEPT ![u] = row]
    BY <1>1, <1>11 DEF Extend, TypeOK
  <2> HIDE DEF row
  <2>4. user' \in [Users -> UserRow]
    BY <1>1, <2>2, <2>3, TableWrites
  <2>5. ReqOK'
    BY <1>3, <1>11 DEF Extend
  <2> QED BY <1>11, <2>4, <2>5 DEF Extend, TypeOK, ReqOK
<1> QED BY <1>4, <1>5, <1>6, <1>7, <1>8, <1>9, <1>10, <1>11 DEF Continue

\* The admin's edits without a limiter.
LEMMA EditKeeps ==
    ASSUME IInv, NEW u \in Users, PatchStatus(u) \/ PatchLimit(u)
    PROVE  IInv'
<1> USE DEF counters, sweeps, IInv
<1>1. user[u] \in UserRow /\ ReadsOK'
  BY DEF PatchStatus, PatchLimit, TypeOK, ReadsOK, At
<1>2. CASE PatchStatus(u)
  <2>1. user' \in [Users -> UserRow]
    <3>1. Disabled(u, "manual") \in [Users -> UserRow]
      BY StatusWrites DEF Reasons
    <3>2. [user EXCEPT ![u].status = "active", ![u].reason = None] \in [Users -> UserRow]
      BY StatusWrites
    <3>3. \/ user' = Disabled(u, "manual")
          \/ user' = [user EXCEPT ![u].status = "active", ![u].reason = None]
      BY <1>2, Zenon DEF PatchStatus, Disabled
    <3> QED BY <3>1, <3>2, <3>3, Zenon
  <2> QED BY <1>1, <1>2, <2>1 DEF PatchStatus, TypeOK
<1>3. CASE PatchLimit(u)
  <2>1. user' \in [Users -> UserRow]
    <3>1. PICK limit \in Limits : user' = [user EXCEPT ![u].limit = limit]
      BY <1>3 DEF PatchLimit
    <3> DEFINE row == [user[u] EXCEPT !.limit = limit]
    <3>2. row \in UserRow
      BY <1>1, RowWrites
    <3>3. user' = [user EXCEPT ![u] = row]
      BY <3>1 DEF TypeOK
    <3> HIDE DEF row
    <3> QED BY <3>2, <3>3, TableWrites
  <2> QED BY <1>1, <1>3, <2>1 DEF PatchLimit, TypeOK
<1> QED BY <1>2, <1>3

\* The admin's edits with a limiter, and the first steps of a reset and of an
\* extension.
LEMMA AdminKeeps ==
    ASSUME IInv, NEW r \in Requests, NEW u \in Users,
           \/ PatchExpiry(r, u) \/ PatchUsage(r, u)
           \/ ResetBegin(r, u) \/ ExtendBegin(r, u)
    PROVE  IInv'
<1> USE DEF counters, sweeps, IInv
<1>1. user[u] \in UserRow /\ user[u].expiresAt \in Int /\ now \in Int /\ ReqOK
  BY BoundsAssumption DEF TypeOK, ReqOK, UserRow
<1>2. Begin(r, "enforce", u) => ReqOK'
  BY <1>1, Registers, GotoKeeps DEF Begin, Stages
<1>3. CASE PatchExpiry(r, u)
  <2>1. PICK expiresAt \in {now, now + Period} :
          \/ user' = [user EXCEPT ![u].expiresAt = expiresAt]
          \/ user' = [user EXCEPT ![u].expiresAt = expiresAt,
                                  ![u].status = "active", ![u].reason = None]
    BY <1>3 DEF PatchExpiry
  <2>2. expiresAt \in Int
    BY <1>1, PeriodAssumption
  <2> DEFINE row == [user[u] EXCEPT !.expiresAt = expiresAt]
             renewed == [row EXCEPT !.status = "active", !.reason = None]
  <2>3. row \in UserRow /\ renewed \in UserRow
    <3>1. row \in UserRow
      BY <1>1, <2>2, RowWrites
    <3> HIDE DEF row
    <3> QED BY <3>1, RowWrites
  <2>4. user' = [user EXCEPT ![u] = row] \/ user' = [user EXCEPT ![u] = renewed]
    <3>1. \/ user' = [user EXCEPT ![u] = [@ EXCEPT !.expiresAt = expiresAt]]
          \/ user' = [user EXCEPT ![u] = [[@ EXCEPT !.expiresAt = expiresAt]
                                           EXCEPT !.status = "active", !.reason = None]]
      BY <2>1 DEF TypeOK
    <3> QED BY <3>1
  <2> HIDE DEF row, renewed
  <2>5. user' \in [Users -> UserRow]
    BY <2>3, <2>4, TableWrites
  <2>6. ReqOK'
    BY <1>2, <1>3 DEF PatchExpiry
  <2> QED BY <1>3, <2>5, <2>6 DEF PatchExpiry, TypeOK, ReqOK
<1>4. CASE PatchUsage(r, u)
  <2>1. user' \in [Users -> UserRow]
    <3>1. PICK bytes \in Bytes : user' = [user EXCEPT ![u].used = bytes]
      BY <1>4 DEF PatchUsage
    <3> DEFINE row == [user[u] EXCEPT !.used = bytes]
    <3>2. row \in UserRow
      BY <1>1, RowWrites
    <3>3. user' = [user EXCEPT ![u] = row]
      BY <3>1 DEF TypeOK
    <3> HIDE DEF row
    <3> QED BY <3>2, <3>3, TableWrites
  <2>2. ReqOK'
    BY <1>2, <1>4 DEF PatchUsage
  <2> QED BY <1>4, <2>1, <2>2 DEF PatchUsage, TypeOK, ReqOK
<1>5. CASE ResetBegin(r, u)
  <2>1. user[u].reason \in Reasons \cup {None}
    BY <1>1 DEF UserRow
  <2>2. ReqOK'
    BY <1>1, <1>5, <2>1, Registers, GotoKeeps DEF ResetBegin
  <2> QED BY <1>5, <2>2 DEF ResetBegin, TypeOK, ReqOK
<1>6. CASE ExtendBegin(r, u)
  <2> DEFINE count == IF user[u].expiresAt > now THEN user[u].expiresAt ELSE now
             register == [Idle EXCEPT !.at = "extend", !.user = u, !.count = count]
  <2>1. count \in Int
    BY <1>1
  <2>2. Goto(r, register)
    BY <1>6 DEF ExtendBegin
  <2>3. RegisterOK(register)
    <3> HIDE DEF count
    <3> QED BY <2>1, Registers
  <2> HIDE DEF register
  <2>4. ReqOK'
    BY <1>1, <2>2, <2>3, GotoKeeps
  <2> QED BY <1>6, <2>4 DEF ExtendBegin, TypeOK, ReqOK
<1> QED BY <1>3, <1>4, <1>5, <1>6

\* The sweep, which disables users as it saw them when it started.
LEMMA SweepKeeps ==
    ASSUME IInv, Sweep
    PROVE  IInv'
<1> USE DEF counters, IInv
<1>1. req' = req => ReqOK'
  BY DEF ReqOK, ReadsOK, TypeOK, At
<1>2. CASE SweepStart
  <2>1. \A u \in Users : [over |-> Over(u), expiresAt |-> user[u].expiresAt] \in Seen
    <3>1. \A u \in Users : user[u].expiresAt \in Int /\ Over(u) \in BOOLEAN
      BY DEF TypeOK, UserRow, Over
    <3> QED BY <3>1 DEF Seen
  <2>2. sweep' \in [Users -> Seen \cup {None}]
    BY <1>2, <2>1 DEF SweepStart
  <2> QED BY <1>1, <1>2, <2>2 DEF SweepStart, TypeOK, ReqOK
<1>3. ASSUME NEW u \in Users, SweepUser(u) PROVE IInv'
  <2>1. user' \in [Users -> UserRow]
    BY <1>3, ReasonIsAutomatic, StatusWrites DEF SweepUser, TypeOK, Reasons
  <2>2. sweep' \in [Users -> Seen \cup {None}]
    BY <1>3 DEF SweepUser, TypeOK
  <2> QED BY <1>1, <1>3, <2>1, <2>2 DEF SweepUser, TypeOK, ReqOK
<1>4. CASE SweepEnd \/ SweepFails
  BY <1>1, <1>4 DEF SweepEnd, SweepFails, TypeOK, ReqOK
<1> QED BY <1>2, <1>3, <1>4 DEF Sweep

\* Time passes, requests fail, the process restarts.
LEMMA FailureKeeps ==
    ASSUME IInv, Tick \/ Restart \/ \E r \in Requests : RequestFails(r)
    PROVE  IInv'
<1> USE DEF counters, sweeps, IInv
<1>1. \A set \in SUBSET Requests : TornBy(set) \subseteq Users
  BY DEF TornBy, ReadsOK, At
<1>2. CASE Tick
  BY <1>2, BoundsAssumption DEF Tick, TypeOK, ReadsOK, At
<1>3. CASE Restart
  BY <1>1, <1>3, Registers DEF Restart, TypeOK, ReadsOK, RegisterOK, At
<1>4. ASSUME NEW r \in Requests, RequestFails(r) PROVE IInv'
  <2>1. ReqOK'
    BY <1>4, Registers, GotoKeeps DEF RequestFails, Finish, ReqOK, TypeOK
  <2> QED BY <1>1, <1>4, <2>1 DEF RequestFails, TypeOK, ReqOK
<1> QED BY <1>2, <1>3, <1>4

-----------------------------------------------------------------------------
(* Theorems *)

\* The inductive invariant: the types, and what the registers were given.
LEMMA IInvHolds == Spec => []IInv
<1>1. Init => IInv
  <2> SUFFICES ASSUME Init PROVE IInv
    OBVIOUS
  <2>1. now \in 0 .. MaxTime
    BY BoundsAssumption DEF Init
  <2>2. sweeping \in BOOLEAN /\ torn \subseteq Users
    BY DEF Init
  <2>3. user \in [Users -> UserRow]
    <3>1. [status : {"active"}, reason : {None}, expiresAt : {Period},
           limit : Limits, used : {0}] \subseteq UserRow
      BY PeriodAssumption, BoundsAssumption DEF UserRow, Reasons, Bytes
    <3> QED BY <3>1 DEF Init
  <2>4. total \in [Users -> Count] /\ node \in [Users -> [Nodes -> Count]]
    BY DEF Init, Count
  <2>5. sweep \in [Users -> Seen \cup {None}]
    BY DEF Init
  <2>6. Idle \in Register /\ Idle.at = "idle"
    BY Registers DEF RegisterOK, Idle
  <2>7. req \in [Requests -> Register] /\ ReadsOK
    BY <2>6 DEF Init, ReadsOK, At
  <2> QED BY <2>1, <2>2, <2>3, <2>4, <2>5, <2>7 DEF IInv, TypeOK
<1>2. IInv /\ [Next]_vars => IInv'
  <2> SUFFICES ASSUME IInv, [Next]_vars PROVE IInv'
    OBVIOUS
  <2>1. ASSUME NEW r \in Requests, NEW u \in Users, Arrive(r, u) PROVE IInv'
    BY <2>1, ReportKeeps, AdminKeeps DEF Arrive
  <2>2. CASE UNCHANGED vars
    BY <2>2 DEF vars, counters, sweeps, IInv, TypeOK, ReadsOK, At
  <2> QED BY <2>1, <2>2, EditKeeps, ContinueKeeps, SweepKeeps, FailureKeeps DEF Next
<1> QED BY <1>1, <1>2, PTL DEF Spec

\* The tables and registers hold values of their types, and a user is disabled
\* exactly while it has a reason to be.
THEOREM TypeCorrect == Spec => []TypeOK
BY IInvHolds, PTL DEF IInv

\* A counter that was there is still as high, or was removed.
Grown(old, new) == old # None => new = None \/ new >= old

\* What the statements write to a counter: itself, nothing, or more.
LEMMA Growth ==
    ASSUME NEW count \in Count
    PROVE  /\ Grown(count, count) /\ Grown(count, None)
           /\ \A bytes \in Bytes : /\ Grown(count, Greatest(count, bytes))
                                   /\ Grown(count, Added(count, bytes))
<1>1. Grown(count, None)
  BY DEF Grown
<1>2. Grown(count, count)
  BY NoneAssumption, BoundsAssumption DEF Grown, Count, Bytes
<1>3. ASSUME NEW bytes \in Bytes
      PROVE  Grown(count, Greatest(count, bytes)) /\ Grown(count, Added(count, bytes))
  BY Counting DEF Grown
<1> QED BY <1>1, <1>2, <1>3

CountersGrown ==
    \A u \in Users : /\ Grown(total[u], total'[u])
                     /\ \A n \in Nodes : Grown(node[u][n], node'[u][n])

\* No report, late, repeated, or aggregated from stale nodes, lowers a counter.
THEOREM CountersGrow == Spec => UsageNeverShrinks
<1>1. ASSUME IInv, [Next]_vars PROVE CountersGrown
  <2> USE <1>1 DEF IInv, counters, sweeps
  <2>1. /\ total \in [Users -> Count] /\ node \in [Users -> [Nodes -> Count]]
        /\ \A u \in Users : total[u] \in Count /\ \A n \in Nodes : node[u][n] \in Count
    BY DEF TypeOK
  <2>2. UNCHANGED total => \A u \in Users : Grown(total[u], total'[u])
    BY <2>1, Growth
  <2>3. UNCHANGED node => \A u \in Users : \A n \in Nodes : Grown(node[u][n], node'[u][n])
    BY <2>1, Growth
  <2>4. ASSUME NEW v \in Users, NEW count, Grown(total[v], count),
               total' = [total EXCEPT ![v] = count]
        PROVE  \A u \in Users : Grown(total[u], total'[u])
    BY <2>1, <2>4, Growth
  <2>5. ASSUME NEW v \in Users, NEW m \in Nodes, NEW count, Grown(node[v][m], count),
               node' = [node EXCEPT ![v][m] = count]
        PROVE  \A u \in Users : \A n \in Nodes : Grown(node[u][n], node'[u][n])
    BY <2>1, <2>5, Growth
  <2>6. ASSUME NEW r \in Requests, NEW v \in Users, Report(r, v) PROVE CountersGrown
    <3>1. ASSUME NEW bytes \in Bytes, NEW mode \in ReportModes, ReportTotal(r, v, bytes, mode)
          PROVE CountersGrown
      <4>1. \/ total' = [total EXCEPT ![v] = Greatest(total[v], bytes)]
            \/ total' = [total EXCEPT ![v] = Added(total[v], bytes)]
        BY <3>1 DEF ReportTotal
      <4>2. UNCHANGED node
        BY <3>1 DEF ReportTotal
      <4> QED BY <2>1, <2>3, <2>4, <4>1, <4>2, Growth DEF CountersGrown
    <3>2. ASSUME NEW bytes \in Bytes, NEW m \in Nodes, IncrementNode(r, v, m, bytes)
          PROVE CountersGrown
      <4>1. \/ UNCHANGED <<total, node>>
            \/ /\ total' = [total EXCEPT ![v] = Added(total[v], bytes)]
               /\ node' = [node EXCEPT ![v][m] = Added(node[v][m], bytes)]
        BY <2>1, <3>2 DEF IncrementNode
      <4> QED BY <2>1, <2>2, <2>3, <2>4, <2>5, <4>1, Growth DEF CountersGrown
    <3>3. ASSUME NEW bytes \in Bytes, NEW m \in Nodes, SetNode(r, v, m, bytes)
          PROVE CountersGrown
      <4>1. node' = [node EXCEPT ![v][m] = Greatest(node[v][m], bytes)] /\ UNCHANGED total
        BY <2>1, <3>3 DEF SetNode
      <4> QED BY <2>1, <2>2, <2>5, <4>1, Growth DEF CountersGrown
    <3> QED BY <2>6, <3>1, <3>2, <3>3 DEF Report
  <2>7. ASSUME NEW r \in Requests, AggregateWrite(r) PROVE CountersGrown
    <3>1. req[r].user \in Users /\ req[r].count \in Bytes
      BY <2>7 DEF AggregateWrite, ReadsOK, At
    <3>2. /\ total' = [total EXCEPT ![req[r].user] = Greatest(total[req[r].user], req[r].count)]
          /\ UNCHANGED node
      BY <2>1, <2>7 DEF AggregateWrite
    <3> QED BY <2>1, <2>3, <2>4, <3>1, <3>2, Growth DEF CountersGrown
  <2>8. ASSUME NEW r \in Requests, ResetNodes(r) PROVE CountersGrown
    <3>1. UNCHANGED total /\ \A u \in Users : \A n \in Nodes : node'[u][n] \in {node[u][n], None}
      BY <2>1, <2>8 DEF ResetNodes
    <3> QED BY <2>1, <2>2, <3>1, Growth DEF CountersGrown
  <2>9. ASSUME NEW r \in Requests, ResetTotal(r) PROVE CountersGrown
    <3>1. UNCHANGED node /\ \A u \in Users : total'[u] \in {total[u], None}
      BY <2>1, <2>9 DEF ResetTotal
    <3> QED BY <2>1, <2>3, <3>1, Growth DEF CountersGrown
  <2>10. ASSUME NEW r \in Requests, Continue(r), ~AggregateWrite(r),
                ~ResetNodes(r), ~ResetTotal(r)
         PROVE CountersGrown
    BY <2>2, <2>3, <2>10 DEF Continue, Aggregate, Enforce, Disable, ResetUser, Extend, CountersGrown
  <2>11. ASSUME NEW r \in Requests, NEW u \in Users, Arrive(r, u) PROVE CountersGrown
    BY <2>2, <2>3, <2>6, <2>11
       DEF Arrive, PatchExpiry, PatchUsage, ResetBegin, ExtendBegin, CountersGrown
  <2>12. CASE \/ \E u \in Users : PatchStatus(u) \/ PatchLimit(u)
              \/ Sweep \/ Tick \/ Restart
              \/ \E r \in Requests : RequestFails(r)
              \/ UNCHANGED vars
    <3>1. UNCHANGED <<total, node>>
      BY <2>12 DEF PatchStatus, PatchLimit, Sweep, SweepStart, SweepUser, SweepEnd,
                   SweepFails, Tick, Restart, RequestFails, vars
    <3> QED BY <2>2, <2>3, <3>1 DEF CountersGrown
  <2> QED BY <2>7, <2>8, <2>9, <2>10, <2>11, <2>12 DEF Next
<1>2. IInv /\ [Next]_vars => [CountersGrown]_vars
  BY <1>1
<1>3. [CountersGrown]_vars
      => [\A u \in Users :
            /\ total[u] # None => total'[u] = None \/ total'[u] >= total[u]
            /\ \A n \in Nodes :
                 node[u][n] # None => node'[u][n] = None \/ node'[u][n] >= node[u][n]]_vars
  BY DEF CountersGrown, Grown
<1> QED BY <1>2, <1>3, IInvHolds, PTL DEF Spec, UsageNeverShrinks

-----------------------------------------------------------------------------
(* A sum over the nodes. *)

\* Induction over numbers, for a set of them: a set of numbers without a least
\* one is empty.
LEMMA Numbers ==
    ASSUME NEW T, 0 \in T, \A n \in Nat : n \in T => n + 1 \in T
    PROVE  Nat \subseteq T
<1> SUFFICES ASSUME Nat \ T # {} PROVE FALSE
  OBVIOUS
<1>1. IsWellFoundedOn(OpToRel(<, Nat), Nat)
  BY NatLessThanWellFounded
<1>2. PICK x \in Nat \ T : \A y \in Nat \ T : ~ (<<y, x>> \in OpToRel(<, Nat))
  BY <1>1, WFMin
<1>3. x # 0 /\ x - 1 \in Nat /\ x - 1 < x
  OBVIOUS
<1>4. <<x - 1, x>> \in OpToRel(<, Nat)
  BY <1>3 DEF OpToRel
<1>5. x - 1 \in T
  BY <1>2, <1>3, <1>4
<1>6. (x - 1) + 1 \in T
  BY <1>3, <1>5
<1> QED BY <1>6

\* One step of a sum over the nodes of a set.
SumStep(counts, sum, set) ==
    IF set = {} THEN 0
    ELSE LET n == CHOOSE m \in set : TRUE IN BytesOf(counts[n]) + sum[set \ {n}]

\* The sets of nodes of k elements at most.
UpTo(k) == {set \in SUBSET Nodes : IsFiniteSet(set) /\ Cardinality(set) <= k}

\* A set without one of its elements is smaller.
LEMMA SmallerSets ==
    ASSUME NEW k \in Nat, NEW set \in UpTo(k + 1), set # {}
    PROVE  set \ {CHOOSE m \in set : TRUE} \in UpTo(k)
<1>1. PICK n : n = CHOOSE m \in set : TRUE
  OBVIOUS
<1>2. n \in set
  BY <1>1
<1>3. IsFiniteSet(set) /\ Cardinality(set) <= k + 1 /\ set \subseteq Nodes
  BY DEF UpTo
<1>4. IsFiniteSet(set \ {n}) /\ Cardinality(set \ {n}) = Cardinality(set) - 1
  BY <1>2, <1>3, FS_RemoveElement
<1>5. Cardinality(set) \in Nat
  BY <1>3, FS_CardinalityType
<1> QED BY <1>1, <1>3, <1>4, <1>5 DEF UpTo

\* The function that the sum is a value of.
LEMMA SumSteps ==
    ASSUME NEW counts
    PROVE  \E sum : /\ SumOf(counts) = sum[Nodes]
                    /\ \A set \in SUBSET Nodes : sum[set] = SumStep(counts, sum, set)
<1>1. PICK T : T = {k \in Nat : \E g : g = [set \in UpTo(k) |-> SumStep(counts, g, set)]}
  OBVIOUS
<1>2. 0 \in T
  <2>1. \A set \in UpTo(0) : set = {}
    <3>1. ASSUME NEW set \in UpTo(0) PROVE set = {}
      <4>1. IsFiniteSet(set) /\ Cardinality(set) <= 0 /\ Cardinality(set) \in Nat
        BY FS_CardinalityType DEF UpTo
      <4>2. Cardinality(set) = 0
        BY <4>1
      <4> QED BY <4>1, <4>2, FS_EmptySet
    <3> QED BY <3>1
  <2>2. PICK g : g = [set \in UpTo(0) |-> 0]
    OBVIOUS
  <2>3. g = [set \in UpTo(0) |-> SumStep(counts, g, set)]
    BY <2>1, <2>2 DEF SumStep
  <2> QED BY <1>1, <2>3
<1>3. ASSUME NEW k \in Nat, k \in T
      PROVE  k + 1 \in T
  <2>1. PICK g : g = [set \in UpTo(k) |-> SumStep(counts, g, set)]
    BY <1>1, <1>3
  <2>2. PICK h : h = [set \in UpTo(k + 1) |-> SumStep(counts, g, set)]
    OBVIOUS
  <2>3. UpTo(k) \subseteq UpTo(k + 1)
    <3>1. ASSUME NEW set \in UpTo(k) PROVE set \in UpTo(k + 1)
      <4>1. IsFiniteSet(set) /\ Cardinality(set) <= k /\ Cardinality(set) \in Nat
        BY FS_CardinalityType DEF UpTo
      <4>2. Cardinality(set) <= k + 1
        BY <4>1
      <4> QED BY <4>1, <4>2 DEF UpTo
    <3> QED BY <3>1
  <2>4. \A set \in UpTo(k) : h[set] = g[set]
    BY <2>1, <2>2, <2>3
  <2>5. ASSUME NEW set \in UpTo(k + 1)
        PROVE  h[set] = SumStep(counts, h, set)
    <3>1. CASE set = {}
      BY <2>2, <3>1 DEF SumStep
    <3>2. CASE set # {}
      <4>1. set \ {CHOOSE m \in set : TRUE} \in UpTo(k)
        BY <3>2, SmallerSets
      <4>2. SumStep(counts, h, set) = SumStep(counts, g, set)
        BY <2>4, <3>2, <4>1 DEF SumStep
      <4> QED BY <2>2, <4>2
    <3> QED BY <3>1, <3>2
  <2>6. h = [set \in UpTo(k + 1) |-> SumStep(counts, h, set)]
    BY <2>2, <2>5
  <2> QED BY <1>1, <2>6
<1>4. Cardinality(Nodes) \in T
  BY <1>2, <1>3, Numbers, NodesAssumption, FS_CardinalityType
<1>5. UpTo(Cardinality(Nodes)) = SUBSET Nodes
  BY NodesAssumption, FS_Subset DEF UpTo
<1>6. PICK g : g = [set \in SUBSET Nodes |-> SumStep(counts, g, set)]
  BY <1>1, <1>4, <1>5
<1>7. PICK f : f = CHOOSE sum : sum = [set \in SUBSET Nodes |-> SumStep(counts, sum, set)]
  OBVIOUS
<1>8. f = [set \in SUBSET Nodes |-> SumStep(counts, f, set)]
  BY <1>6, <1>7
<1>9. SumOf(counts) = f[Nodes]
  BY <1>7 DEF SumOf, MapThenSumSet, MapThenFoldSet, SumStep
<1> QED BY <1>8, <1>9

\* Nodes without a row add nothing.
LEMMA NothingSums ==
    ASSUME NEW counts, \A n \in Nodes : counts[n] = None
    PROVE  SumOf(counts) = 0
<1>1. PICK sum : /\ SumOf(counts) = sum[Nodes]
                 /\ \A set \in SUBSET Nodes : sum[set] = SumStep(counts, sum, set)
  BY SumSteps
<1>2. PICK T : T = {k \in Nat : \A set \in UpTo(k) : sum[set] = 0}
  OBVIOUS
<1>3. ASSUME NEW k, k = 0 \/ (k - 1 \in T /\ k \in Nat), NEW set \in UpTo(k)
      PROVE  sum[set] = 0
  <2>0. set \in SUBSET Nodes /\ IsFiniteSet(set) /\ Cardinality(set) <= k /\ Cardinality(set) \in Nat
    BY FS_CardinalityType DEF UpTo
  <2>1. CASE set = {}
    BY <1>1, <2>0, <2>1 DEF SumStep
  <2>2. CASE set # {}
    <3>1. k # 0
      <4>1. k = 0 => Cardinality(set) = 0
        BY <2>0
      <4> QED BY <2>0, <2>2, <4>1, FS_EmptySet
    <3>2. k - 1 \in Nat /\ k - 1 \in T /\ (k - 1) + 1 = k
      BY <1>2, <1>3, <3>1
    <3>3. PICK n : n = CHOOSE m \in set : TRUE
      OBVIOUS
    <3>4. n \in set /\ set \ {n} \in UpTo(k - 1)
      BY <2>2, <3>2, <3>3, SmallerSets
    <3>5. sum[set \ {n}] = 0
      BY <1>2, <3>2, <3>4
    <3>6. BytesOf(counts[n]) = 0
      BY <2>0, <3>4 DEF BytesOf
    <3>7. sum[set] = BytesOf(counts[n]) + sum[set \ {n}]
      BY <1>1, <2>0, <2>2, <3>3 DEF SumStep
    <3> QED BY <3>5, <3>6, <3>7
  <2> QED BY <2>1, <2>2
<1>4. 0 \in T
  BY <1>2, <1>3
<1>5. ASSUME NEW k \in Nat, k \in T PROVE k + 1 \in T
  <2>1. (k + 1) - 1 \in T /\ k + 1 \in Nat
    BY <1>5
  <2> QED BY <1>2, <1>3, <2>1
<1>6. Cardinality(Nodes) \in T /\ Nodes \in UpTo(Cardinality(Nodes))
  BY <1>4, <1>5, Numbers, NodesAssumption, FS_CardinalityType DEF UpTo
<1> QED BY <1>1, <1>2, <1>6

\* Counting more bytes on one node adds as many to the sum.
LEMMA SumGrows ==
    ASSUME NEW counts, NEW more, NEW n \in Nodes, NEW bytes \in Nat,
           \A m \in Nodes : BytesOf(counts[m]) \in Nat /\ (m # n => more[m] = counts[m]),
           BytesOf(more[n]) = BytesOf(counts[n]) + bytes
    PROVE  SumOf(counts) \in Nat /\ SumOf(more) = SumOf(counts) + bytes
<1>1. PICK sum : /\ SumOf(counts) = sum[Nodes]
                 /\ \A set \in SUBSET Nodes : sum[set] = SumStep(counts, sum, set)
  BY SumSteps
<1>2. PICK big : /\ SumOf(more) = big[Nodes]
                 /\ \A set \in SUBSET Nodes : big[set] = SumStep(more, big, set)
  BY SumSteps
<1> DEFINE Grows(set) == /\ sum[set] \in Nat
                         /\ big[set] = sum[set] + IF n \in set THEN bytes ELSE 0
<1> HIDE DEF Grows
<1>3. PICK T : T = {k \in Nat : \A set \in UpTo(k) : Grows(set)}
  OBVIOUS
<1>4. ASSUME NEW k, k = 0 \/ (k - 1 \in T /\ k \in Nat), NEW set \in UpTo(k)
      PROVE  Grows(set)
  <2>0. set \in SUBSET Nodes /\ IsFiniteSet(set) /\ Cardinality(set) <= k /\ Cardinality(set) \in Nat
    BY FS_CardinalityType DEF UpTo
  <2>1. CASE set = {}
    <3>1. sum[set] = 0 /\ big[set] = 0
      BY <1>1, <1>2, <2>0, <2>1 DEF SumStep
    <3> QED BY <2>1, <3>1 DEF Grows
  <2>2. CASE set # {}
    <3>1. k # 0
      <4>1. k = 0 => Cardinality(set) = 0
        BY <2>0
      <4> QED BY <2>0, <2>2, <4>1, FS_EmptySet
    <3>2. k - 1 \in Nat /\ k - 1 \in T /\ (k - 1) + 1 = k
      BY <1>3, <1>4, <3>1
    <3>3. PICK m : m = CHOOSE x \in set : TRUE
      OBVIOUS
    <3>4. m \in set /\ m \in Nodes /\ set \ {m} \in UpTo(k - 1)
      BY <2>0, <2>2, <3>2, <3>3, SmallerSets
    <3>5. Grows(set \ {m})
      BY <1>3, <3>2, <3>4
    <3>6. /\ sum[set] = BytesOf(counts[m]) + sum[set \ {m}]
          /\ big[set] = BytesOf(more[m]) + big[set \ {m}]
      BY <1>1, <1>2, <2>0, <2>2, <3>3 DEF SumStep
    <3>7. CASE m = n
      <4>1. n \notin set \ {m} /\ n \in set
        BY <3>4, <3>7
      <4> QED BY <3>4, <3>5, <3>6, <3>7, <4>1 DEF Grows
    <3>8. CASE m # n
      <4>1. n \in set \ {m} <=> n \in set
        BY <3>8
      <4>2. BytesOf(more[m]) = BytesOf(counts[m]) /\ BytesOf(counts[m]) \in Nat
        BY <3>4, <3>8
      <4> QED BY <3>5, <3>6, <4>1, <4>2 DEF Grows
    <3> QED BY <3>7, <3>8
  <2> QED BY <2>1, <2>2
<1>5. 0 \in T
  BY <1>3, <1>4
<1>6. ASSUME NEW k \in Nat, k \in T PROVE k + 1 \in T
  <2>1. (k + 1) - 1 \in T /\ k + 1 \in Nat
    BY <1>6
  <2> QED BY <1>3, <1>4, <2>1
<1>7. Cardinality(Nodes) \in T /\ Nodes \in UpTo(Cardinality(Nodes))
  BY <1>5, <1>6, Numbers, NodesAssumption, FS_CardinalityType DEF UpTo
<1>8. Grows(Nodes)
  BY <1>3, <1>7
<1> QED BY <1>1, <1>2, <1>8 DEF Grows

-----------------------------------------------------------------------------
(* Totals cover their nodes. *)

\* A total covers its nodes, or somebody has yet to look at the nodes, or has
\* seen all they hold and has yet to write it.
Recomputes(r, u) == req[r].user = u /\ req[r].at \in {"aggregate", "aggregate-write"}
Pending(u) == \E r \in Requests : req[r].user = u /\ At(r, "aggregate")
Snapshot(r, u) == /\ req[r].user = u /\ At(r, "aggregate-write")
                  /\ NodeSum(u) \in Int /\ NodeSum(u) <= req[r].count
Covered(u) == NodeSum(u) \in Int /\ NodeSum(u) <= BytesOf(total[u])
Cover(u) == u \in torn \/ Pending(u) \/ (\E r \in Requests : Snapshot(r, u)) \/ Covered(u)
Covers == \A u \in Users : Cover(u)

\* The nodes of a user stay, or lose their rows.
NodesStay(u) == node'[u] = node[u] \/ \A n \in Nodes : node'[u][n] = None

\* A total counts.
LEMMA TotalsCount ==
    ASSUME TypeOK, NEW u \in Users
    PROVE  BytesOf(total[u]) \in Nat
BY BoundsAssumption DEF TypeOK, Count, Bytes, BytesOf

\* So their sum stays, or is nothing.
LEMMA SumsStay ==
    ASSUME NEW u \in Users, NodesStay(u)
    PROVE  NodeSum(u)' = NodeSum(u) \/ NodeSum(u)' = 0
<1>1. CASE node'[u] = node[u]
  BY <1>1 DEF NodeSum
<1>2. CASE \A n \in Nodes : node'[u][n] = None
  BY <1>2, NothingSums DEF NodeSum
<1> QED BY <1>1, <1>2 DEF NodesStay

\* What keeps a user's total covering.
LEMMA CoverStays ==
    ASSUME IInv, IInv', NEW u \in Users, Cover(u), NodesStay(u),
           BytesOf(total'[u]) >= BytesOf(total[u]),
           u \in torn => u \in torn',
           \A r \in Requests : Recomputes(r, u) => req'[r] = req[r] \/ u \in torn'
    PROVE  Cover(u)'
<1>1. CASE u \in torn
  BY <1>1 DEF Cover
<1>2. CASE Pending(u)
  BY <1>2 DEF Pending, Recomputes, Cover, At
<1>3. ASSUME NEW r \in Requests, Snapshot(r, u)
      PROVE  Cover(u)'
  <2>1. CASE u \in torn'
    BY <2>1 DEF Cover
  <2>2. CASE req'[r] = req[r]
    <3>1. req[r].count \in Bytes /\ req[r].count >= 0
      BY <1>3, BoundsAssumption DEF Snapshot, IInv, ReadsOK, Bytes
    <3>2. NodeSum(u)' \in Int /\ NodeSum(u)' <= req[r].count
      BY <1>3, <3>1, SumsStay, BoundsAssumption DEF Snapshot, Bytes
    <3>3. Snapshot(r, u)'
      BY <1>3, <2>2, <3>2 DEF Snapshot, At
    <3> QED BY <3>3 DEF Cover
  <2> QED BY <1>3, <2>1, <2>2 DEF Snapshot, Recomputes, At
<1>4. CASE Covered(u)
  <2>1. BytesOf(total[u]) \in Nat /\ BytesOf(total'[u]) \in Nat
    BY TotalsCount DEF IInv, TypeOK, BytesOf, Count, Bytes
  <2>2. Covered(u)'
    BY <1>4, <2>1, SumsStay DEF Covered
  <2> QED BY <2>2 DEF Cover
<1> QED BY <1>1, <1>2, <1>3, <1>4 DEF Cover

\* A request that goes on leaves the others where they are.
LEMMA OthersStay ==
    ASSUME TypeOK, NEW r \in Requests, NEW register, Goto(r, register)
    PROVE  /\ req'[r] = register
           /\ \A q \in Requests : q # r => req'[q] = req[q]
BY DEF TypeOK, Goto

\* A step that writes no node, lowers no total and stops no recomputation.
LEMMA QuietCovers ==
    ASSUME IInv, IInv', Covers, torn \subseteq torn',
           \A u \in Users : NodesStay(u) /\ BytesOf(total'[u]) >= BytesOf(total[u]),
           \A r \in Requests, u \in Users : Recomputes(r, u) => req'[r] = req[r] \/ u \in torn'
    PROVE  Covers'
BY CoverStays DEF Covers

\* Counting up lowers no total.
LEMMA TotalsGrow ==
    ASSUME TypeOK, NEW u \in Users, NEW count \in Nat, count >= BytesOf(total[u]),
           total' = [total EXCEPT ![u] = count]
    PROVE  \A v \in Users : BytesOf(total'[v]) >= BytesOf(total[v])
<1>1. \A v \in Users : BytesOf(total[v]) \in Nat
  BY TotalsCount
<1>2. \A v \in Users : total'[v] = IF v = u THEN count ELSE total[v]
  BY DEF TypeOK
<1>3. BytesOf(count) = count
  BY NoneAssumption DEF BytesOf
<1> QED BY <1>1, <1>2, <1>3

\* What counting some bytes gives.
LEMMA CountingBytes ==
    ASSUME TypeOK, NEW u \in Users, NEW bytes \in Bytes
    PROVE  /\ BytesOf(Greatest(total[u], bytes)) >= BytesOf(total[u])
           /\ BytesOf(Greatest(total[u], bytes)) >= bytes
           /\ Greatest(total[u], bytes) \in Nat
           /\ Added(total[u], bytes) \in Nat /\ Added(total[u], bytes) >= BytesOf(total[u])
<1>1. total[u] \in Count
  BY DEF TypeOK
<1> QED BY <1>1, NoneAssumption, BoundsAssumption DEF Count, Bytes, Greatest, Added, BytesOf

\* A report leaves its sum to be recomputed.
LEMMA ReportCovers ==
    ASSUME IInv, IInv', Covers,
           NEW r \in Requests, NEW v \in Users, Report(r, v)
    PROVE  Covers'
<1> USE DEF IInv
<1>1. PICK bytes \in Bytes :
        \/ \E mode \in ReportModes : ReportTotal(r, v, bytes, mode)
        \/ \E n \in Nodes : IncrementNode(r, v, n, bytes) \/ SetNode(r, v, n, bytes)
  BY DEF Report
<1>2. At(r, "idle") /\ \A q \in Requests : q # r => req'[q] = req[q]
  BY <1>1, OthersStay DEF ReportTotal, IncrementNode, SetNode, Begin
<1>3. \A q \in Requests, u \in Users : Recomputes(q, u) => req'[q] = req[q]
  BY <1>2 DEF Recomputes, At
<1>4. ASSUME NEW mode \in ReportModes, ReportTotal(r, v, bytes, mode)
      PROVE  Covers'
  <2>1. PICK count : /\ count = IF mode = "set" THEN Greatest(total[v], bytes) ELSE Added(total[v], bytes)
                     /\ total' = [total EXCEPT ![v] = count]
    BY <1>4 DEF ReportTotal
  <2>2. /\ Greatest(total[v], bytes) \in Nat /\ Added(total[v], bytes) \in Nat
        /\ BytesOf(Greatest(total[v], bytes)) >= BytesOf(total[v])
        /\ Added(total[v], bytes) >= BytesOf(total[v])
    BY CountingBytes
  <2>3. count \in Nat /\ count >= BytesOf(total[v])
    <3>1. BytesOf(Greatest(total[v], bytes)) = Greatest(total[v], bytes)
      BY <2>2, NoneAssumption DEF BytesOf
    <3> QED BY <2>1, <2>2, <3>1
  <2>4. \A u \in Users : BytesOf(total'[u]) >= BytesOf(total[u])
    BY <2>1, <2>3, TotalsGrow
  <2>5. torn' = torn /\ \A u \in Users : NodesStay(u)
    BY <1>4 DEF ReportTotal, NodesStay
  <2> QED BY <1>3, <2>4, <2>5, QuietCovers
<1>5. ASSUME NEW n \in Nodes, SetNode(r, v, n, bytes)
      PROVE  Covers'
  <2>1. /\ torn' = torn /\ total' = total
        /\ \A u \in Users : u # v => node'[u] = node[u]
        /\ req'[r] = [Idle EXCEPT !.at = "aggregate", !.user = v]
    BY <1>5, OthersStay DEF SetNode, Begin, TypeOK
  <2>2. Pending(v)'
    BY <2>1 DEF Pending, At, Idle
  <2>3. ASSUME NEW u \in Users, u # v PROVE Cover(u)'
    <3>1. BytesOf(total'[u]) >= BytesOf(total[u])
      BY <2>1, TotalsCount
    <3> QED BY <1>3, <2>1, <2>3, <3>1, CoverStays DEF Covers, NodesStay
  <2> QED BY <2>2, <2>3 DEF Covers, Cover
<1>6. ASSUME NEW n \in Nodes, IncrementNode(r, v, n, bytes), bytes # 0
      PROVE  Covers'
  <2>1. /\ torn' = IF Recomputing(v) THEN torn \cup {v} ELSE torn
        /\ node' = [node EXCEPT ![v][n] = Added(@, bytes)]
        /\ total' = [total EXCEPT ![v] = Added(@, bytes)]
    BY <1>6 DEF IncrementNode
  <2>2. /\ node'[v][n] = Added(node[v][n], bytes) /\ total'[v] = Added(total[v], bytes)
        /\ \A m \in Nodes : m # n => node'[v][m] = node[v][m]
        /\ \A u \in Users : u # v => node'[u] = node[u] /\ total'[u] = total[u]
    BY <2>1 DEF TypeOK
  <2>3. ASSUME v \in torn \/ Recomputing(v) PROVE Cover(v)'
    BY <2>1, <2>3 DEF Cover
  <2>4. ASSUME Pending(v) PROVE Cover(v)'
    <3>1. PICK q \in Requests : req[q].user = v /\ At(q, "aggregate")
      BY <2>4 DEF Pending
    <3>2. req'[q] = req[q]
      BY <1>3, <3>1 DEF Recomputes, At
    <3> QED BY <3>1, <3>2 DEF Pending, Cover, At
  <2>5. ASSUME Covered(v) PROVE Cover(v)'
    <3>1. bytes \in Nat /\ BytesOf(total[v]) \in Nat
      BY TotalsCount, BoundsAssumption DEF Bytes
    <3>2. \A m \in Nodes : BytesOf(node[v][m]) \in Nat
      BY BoundsAssumption DEF TypeOK, Count, Bytes, BytesOf
    <3>3. /\ BytesOf(Added(node[v][n], bytes)) = BytesOf(node[v][n]) + bytes
          /\ BytesOf(Added(total[v], bytes)) = BytesOf(total[v]) + bytes
      <4>1. BytesOf(node[v][n]) + bytes \in Nat /\ BytesOf(total[v]) + bytes \in Nat
        BY <3>1, <3>2
      <4>2. \A x \in Nat : BytesOf(x) = x
        BY NoneAssumption DEF BytesOf
      <4> QED BY <4>1, <4>2 DEF Added
    <3>4. SumOf(node[v]) \in Nat /\ SumOf(node'[v]) = SumOf(node[v]) + bytes
      <4>1. \A m \in Nodes : BytesOf(node[v][m]) \in Nat /\ (m # n => node'[v][m] = node[v][m])
        BY <2>2, <3>2
      <4>2. BytesOf(node'[v][n]) = BytesOf(node[v][n]) + bytes
        BY <2>2, <3>3
      <4>3. PICK counts, more : counts = node[v] /\ more = node'[v]
        OBVIOUS
      <4>4. /\ \A m \in Nodes : BytesOf(counts[m]) \in Nat /\ (m # n => more[m] = counts[m])
            /\ BytesOf(more[n]) = BytesOf(counts[n]) + bytes
        BY <4>1, <4>2, <4>3
      <4>5. SumOf(counts) \in Nat /\ SumOf(more) = SumOf(counts) + bytes
        BY <3>1, <4>4, SumGrows
      <4> QED BY <4>3, <4>5
    <3>5. NodeSum(v) \in Nat /\ NodeSum(v)' = NodeSum(v) + bytes
      BY <3>4 DEF NodeSum
    <3>6. BytesOf(total'[v]) = BytesOf(total[v]) + bytes
      BY <2>2, <3>3
    <3>7. NodeSum(v) <= BytesOf(total[v])
      BY <2>5 DEF Covered
    <3>8. NodeSum(v)' \in Int /\ NodeSum(v)' <= BytesOf(total'[v])
      BY <3>1, <3>5, <3>6, <3>7
    <3> QED BY <3>8 DEF Covered, Cover
  <2>6. Cover(v)'
    <3>1. Recomputing(v) \/ ~\E q \in Requests : Snapshot(q, v)
      BY DEF Recomputing, Snapshot
    <3> QED BY <2>3, <2>4, <2>5, <3>1 DEF Covers, Cover
  <2>7. ASSUME NEW u \in Users, u # v PROVE Cover(u)'
    <3>1. BytesOf(total'[u]) >= BytesOf(total[u])
      BY <2>2, <2>7, TotalsCount
    <3>2. u \in torn => u \in torn'
      BY <2>1
    <3>3. NodesStay(u)
      BY <2>2, <2>7 DEF NodesStay
    <3> QED BY <1>3, <3>1, <3>2, <3>3, CoverStays DEF Covers
  <2> QED BY <2>6, <2>7 DEF Covers
<1>7. ASSUME NEW n \in Nodes, IncrementNode(r, v, n, bytes), bytes = 0
      PROVE  Covers'
  <2>1. torn' = torn /\ total' = total /\ node' = node
    BY <1>7 DEF IncrementNode, counters
  <2>2. \A u \in Users : NodesStay(u) /\ BytesOf(total'[u]) >= BytesOf(total[u])
    BY <2>1, TotalsCount DEF NodesStay
  <2> QED BY <1>3, <2>1, <2>2, QuietCovers
<1> QED BY <1>1, <1>4, <1>5, <1>6, <1>7

\* The steps that look at the nodes, write what they saw, and reset.
LEMMA RecomputationCovers ==
    ASSUME IInv, IInv', Covers, NEW r \in Requests,
           Aggregate(r) \/ AggregateWrite(r) \/ ResetTotal(r)
    PROVE  Covers'
<1> USE DEF IInv
<1>1. PICK v \in Users : v = req[r].user
  BY DEF Aggregate, AggregateWrite, ResetTotal, ReadsOK, At
<1>2. \A q \in Requests : q # r => req'[q] = req[q]
  BY OthersStay DEF Aggregate, AggregateWrite, ResetTotal, Move
<1>3. node' = node /\ \A u \in Users : NodesStay(u)
  BY DEF Aggregate, AggregateWrite, ResetTotal, counters, NodesStay
<1>4. \A u \in Users : BytesOf(total[u]) \in Nat
  BY TotalsCount
<1>5. NodeSum(v)' = NodeSum(v)
  BY <1>3 DEF NodeSum
<1>6. ~HasNodeRow(v) => NodeSum(v) = 0
  BY NothingSums DEF HasNodeRow, NodeSum
<1>7. ASSUME NEW u \in Users, u # v PROVE Cover(u)'
  <2>1. total'[u] = total[u] /\ (u \in torn => u \in torn')
    BY <1>1, <1>7 DEF Aggregate, AggregateWrite, ResetTotal, counters, TypeOK
  <2>2. \A q \in Requests : Recomputes(q, u) => req'[q] = req[q]
    BY <1>1, <1>2, <1>7 DEF Recomputes
  <2>3. BytesOf(total'[u]) >= BytesOf(total[u])
    BY <1>4, <2>1
  <2> QED BY <1>3, <2>1, <2>2, <2>3, CoverStays DEF Covers
<1>8. CASE Aggregate(r)
  <2>1. CASE HasNodeRow(v)
    <3>1. /\ NodeSum(v) \in Bytes
          /\ req'[r] = [req[r] EXCEPT !.at = "aggregate-write", !.count = NodeSum(v)]
      BY <1>1, <1>8, <2>1, OthersStay DEF Aggregate
    <3>2. req'[r].user = v /\ req'[r].at = "aggregate-write" /\ req'[r].count = NodeSum(v)
      BY <1>1, <3>1 DEF TypeOK, Register
    <3>3. NodeSum(v) \in Int /\ NodeSum(v) <= NodeSum(v)
      BY <3>1, BoundsAssumption DEF Bytes
    <3>4. Snapshot(r, v)'
      BY <1>5, <3>2, <3>3 DEF Snapshot, At
    <3> QED BY <1>7, <3>4 DEF Covers, Cover
  <2>2. CASE ~HasNodeRow(v)
    <3>1. total' = total
      BY <1>8 DEF Aggregate, counters
    <3>2. Covered(v)'
      BY <1>4, <1>5, <1>6, <2>2, <3>1 DEF Covered
    <3> QED BY <1>7, <3>2 DEF Covers, Cover
  <2> QED BY <2>1, <2>2
<1>9. CASE AggregateWrite(r)
  <2>1. /\ req[r].count \in Bytes /\ torn' = torn
        /\ total' = [total EXCEPT ![v] = Greatest(total[v], req[r].count)]
    BY <1>1, <1>9 DEF AggregateWrite, ReadsOK, At
  <2>2. PICK bytes \in Bytes : bytes = req[r].count
    BY <2>1
  <2>3. /\ BytesOf(total'[v]) >= BytesOf(total[v]) /\ BytesOf(total'[v]) >= bytes
        /\ BytesOf(total'[v]) \in Nat
    <3>1. total'[v] = Greatest(total[v], bytes)
      BY <2>1, <2>2 DEF TypeOK
    <3>2. BytesOf(total'[v]) \in Nat
      BY TotalsCount, BoundsAssumption DEF TypeOK, Count, Bytes, BytesOf
    <3> QED BY <3>1, <3>2, CountingBytes
  <2>4. CASE Snapshot(r, v)
    <3>1. NodeSum(v)' \in Int /\ NodeSum(v)' <= bytes /\ bytes \in Int
      BY <1>5, <2>2, <2>4, BoundsAssumption DEF Snapshot, Bytes
    <3>2. Covered(v)'
      BY <2>3, <3>1 DEF Covered
    <3> QED BY <1>7, <3>2 DEF Covers, Cover
  <2>5. CASE ~Snapshot(r, v)
    <3>1. CASE v \in torn
      BY <1>7, <2>1, <3>1 DEF Covers, Cover
    <3>2. CASE Pending(v)
      <4>1. PICK q \in Requests : req[q].user = v /\ At(q, "aggregate")
        BY <3>2 DEF Pending
      <4>2. q # r
        BY <1>9, <4>1 DEF AggregateWrite, At
      <4>3. Pending(v)'
        BY <1>2, <4>1, <4>2 DEF Pending, At
      <4> QED BY <1>7, <4>3 DEF Covers, Cover
    <3>3. ASSUME NEW q \in Requests, Snapshot(q, v) PROVE Cover(v)'
      <4>1. q # r
        BY <2>5, <3>3
      <4>2. Snapshot(q, v)'
        BY <1>2, <1>5, <3>3, <4>1 DEF Snapshot, At
      <4> QED BY <4>2 DEF Cover
    <3>4. CASE Covered(v)
      <4>1. Covered(v)'
        BY <1>4, <1>5, <2>3, <3>4 DEF Covered
      <4> QED BY <1>7, <4>1 DEF Covers, Cover
    <3> QED BY <1>7, <3>1, <3>2, <3>3, <3>4 DEF Covers, Cover
  <2> QED BY <2>4, <2>5
<1>10. CASE ResetTotal(r)
  <2>1. CASE HasNodeRow(v)
    <3>1. v \in torn'
      BY <1>1, <1>10, <2>1 DEF ResetTotal
    <3> QED BY <1>7, <3>1 DEF Covers, Cover
  <2>2. CASE ~HasNodeRow(v)
    <3>1. BytesOf(total'[v]) \in Nat
      BY TotalsCount, BoundsAssumption DEF TypeOK, Count, Bytes, BytesOf
    <3>2. Covered(v)'
      BY <1>5, <1>6, <2>2, <3>1 DEF Covered
    <3> QED BY <1>7, <3>2 DEF Covers, Cover
  <2> QED BY <2>1, <2>2
<1> QED BY <1>8, <1>9, <1>10

\* The other steps.
LEMMA OtherStepsCover ==
    ASSUME IInv, IInv', Covers,
           \/ \E r \in Requests, u \in Users :
                 PatchExpiry(r, u) \/ PatchUsage(r, u) \/ ResetBegin(r, u) \/ ExtendBegin(r, u)
           \/ \E r \in Requests :
                 \/ Enforce(r) \/ Disable(r) \/ ResetNodes(r) \/ ResetUser(r) \/ Extend(r)
                 \/ RequestFails(r)
           \/ \E u \in Users : PatchStatus(u) \/ PatchLimit(u)
           \/ Sweep \/ Tick \/ Restart \/ UNCHANGED vars
    PROVE  Covers'
<1> USE DEF IInv
<1>1. total' = total
  BY DEF PatchExpiry, PatchUsage, ResetBegin, ExtendBegin, Enforce, Disable, ResetNodes, ResetUser,
         Extend, RequestFails, PatchStatus, PatchLimit, Sweep, SweepStart, SweepEnd, SweepFails,
         SweepUser, Tick, Restart, vars, counters
<1>2. torn \subseteq torn'
  BY DEF PatchExpiry, PatchUsage, ResetBegin, ExtendBegin, Enforce, Disable, ResetNodes, ResetUser,
         Extend, RequestFails, PatchStatus, PatchLimit, Sweep, SweepStart, SweepEnd, SweepFails,
         SweepUser, Tick, Restart, vars, counters
<1>3. \A u \in Users : BytesOf(total'[u]) >= BytesOf(total[u])
  BY <1>1, TotalsCount
<1>4. \A u \in Users : NodesStay(u)
  <2>1. CASE \E r \in Requests : ResetNodes(r)
    <3>1. PICK r \in Requests : node' = [node EXCEPT ![req[r].user] = [n \in Nodes |-> None]]
      BY <2>1 DEF ResetNodes
    <3> QED BY <3>1 DEF NodesStay, TypeOK
  <2>2. CASE ~\E r \in Requests : ResetNodes(r)
    <3>1. node' = node
      BY <2>2 DEF PatchExpiry, PatchUsage, ResetBegin, ExtendBegin, Enforce, Disable, ResetUser,
             Extend, RequestFails, PatchStatus, PatchLimit, Sweep, SweepStart, SweepEnd,
             SweepFails, SweepUser, Tick, Restart, vars, counters
    <3> QED BY <3>1 DEF NodesStay
  <2> QED BY <2>1, <2>2
<1>5. ASSUME NEW q \in Requests, NEW u \in Users, Recomputes(q, u)
      PROVE  req'[q] = req[q] \/ u \in torn'
  <2>1. CASE req' = req
    BY <2>1
  <2>2. CASE \E r \in Requests : RequestFails(r)
    <3>1. PICK r \in Requests : RequestFails(r)
      BY <2>2
    <3>2. CASE r = q
      BY <1>5, <3>1, <3>2 DEF RequestFails, TornBy, Recomputes
    <3>3. CASE r # q
      BY <3>1, <3>3, OthersStay DEF RequestFails, Finish
    <3> QED BY <3>2, <3>3
  <2>3. CASE Restart
    BY <1>5, <2>3 DEF Restart, TornBy, Recomputes
  <2>4. CASE \E r \in Requests, w \in Users :
                 PatchExpiry(r, w) \/ PatchUsage(r, w) \/ ResetBegin(r, w) \/ ExtendBegin(r, w)
    <3>1. PICK r \in Requests : At(r, "idle") /\ \E register : Goto(r, register)
      BY <2>4 DEF PatchExpiry, PatchUsage, ResetBegin, ExtendBegin, Begin
    <3> QED BY <1>5, <3>1, OthersStay DEF Recomputes, At
  <2>5. CASE \E r \in Requests : Enforce(r) \/ Disable(r) \/ ResetNodes(r) \/ ResetUser(r) \/ Extend(r)
    <3>1. PICK r \in Requests : /\ \E register : Goto(r, register)
                                /\ req[r].at \in {"enforce", "disable", "reset-nodes", "reset-user", "extend"}
      BY <2>5 DEF Enforce, Disable, ResetNodes, ResetUser, Extend, Move, Finish, At
    <3> QED BY <1>5, <3>1, OthersStay DEF Recomputes
  <2>6. CASE \/ \E w \in Users : PatchStatus(w) \/ PatchLimit(w)
             \/ Sweep \/ Tick \/ UNCHANGED vars
    BY <2>1, <2>6 DEF PatchStatus, PatchLimit, Sweep, SweepStart, SweepEnd, SweepFails, SweepUser, Tick, vars
  <2> QED BY <2>2, <2>3, <2>4, <2>5, <2>6
<1> QED BY <1>2, <1>3, <1>4, <1>5, QuietCovers

\* Whether nodes report what they have counted or increments, or some the one
\* and some the other, the total of a user covers its nodes, but for a request
\* that stopped halfway, a reset that ran through a report and an increment
\* that ran through the recomputation of a set report (lib/traffic-usage.js).
THEOREM TotalsCover == Spec => []TotalCoversNodes
<1>1. Init => Covers
  <2> SUFFICES ASSUME Init, NEW u \in Users PROVE Covered(u)
    BY DEF Covers, Cover
  <2>1. NodeSum(u) = 0
    BY NothingSums DEF Init, NodeSum
  <2>2. BytesOf(total[u]) = 0
    BY DEF Init, BytesOf
  <2> QED BY <2>1, <2>2 DEF Covered
<1>2. IInv /\ IInv' /\ Covers /\ [Next]_vars => Covers'
  <2> SUFFICES ASSUME IInv, IInv', Covers, [Next]_vars PROVE Covers'
    OBVIOUS
  <2>1. ASSUME NEW r \in Requests, NEW u \in Users, Report(r, u) PROVE Covers'
    BY <2>1, ReportCovers
  <2>2. ASSUME NEW r \in Requests, Aggregate(r) \/ AggregateWrite(r) \/ ResetTotal(r) PROVE Covers'
    BY <2>2, RecomputationCovers
  <2> QED BY <2>1, <2>2, OtherStepsCover DEF Next, Arrive, Continue
<1>3. Covers => TotalCoversNodes
  BY DEF Covers, Cover, Pending, Snapshot, Covered, At, TotalCoversNodes
<1> QED BY <1>1, <1>2, <1>3, IInvHolds, PTL DEF Spec

-----------------------------------------------------------------------------
(* The bootstraps beside the reports: what MobileSessionsProofs shows for   *)
(* any users holds where there are none.                                    *)

Mobile == INSTANCE MobileSessionsProofs WITH Users <- {}, Codes <- {}, req <- bootstraps

\* Both instances of MobileSessions are the same formulas.
LEMMA SameInit == Public!Init <=> Mobile!Init
BY DEF Public!Blank, Mobile!Blank, Public!BlankCode, Mobile!BlankCode, Public!Idle, Mobile!Idle,
       Public!Init, Mobile!Init

LEMMA SameNext == [Public!Next]_(Public!vars) <=> [Mobile!Next]_(Mobile!vars)
BY DEF Public!ActivateCheck, Mobile!ActivateCheck, Public!ActivateCommit, Mobile!ActivateCommit,
       Public!ActivateLock, Mobile!ActivateLock, Public!ActivateLookup, Mobile!ActivateLookup, Public!Apps,
       Mobile!Apps, Public!Arrive, Mobile!Arrive, Public!At, Mobile!At, Public!Blank, Mobile!Blank,
       Public!BlankCode, Mobile!BlankCode, Public!BootstrapBegin, Mobile!BootstrapBegin,
       Public!BootstrapCommit, Mobile!BootstrapCommit, Public!CodeBegin, Mobile!CodeBegin,
       Public!CodeExpires, Mobile!CodeExpires, Public!CodeInsert, Mobile!CodeInsert, Public!CodeLocked,
       Mobile!CodeLocked, Public!CodeRevoke, Mobile!CodeRevoke, Public!CodeRowExists, Mobile!CodeRowExists,
       Public!CodeSelect, Mobile!CodeSelect, Public!CodesOfUser, Mobile!CodesOfUser, Public!Continue,
       Mobile!Continue, Public!DeleteUser, Mobile!DeleteUser, Public!DisableAccess, Mobile!DisableAccess,
       Public!EnableAccess, Mobile!EnableAccess, Public!Environment, Mobile!Environment, Public!Finish,
       Mobile!Finish, Public!Fresh, Mobile!Fresh, Public!Goto, Mobile!Goto, Public!Idle, Mobile!Idle,
       Public!Live, Mobile!Live, Public!LocalStep, Mobile!LocalStep, Public!ModesOf, Mobile!ModesOf,
       Public!Move, Mobile!Move, Public!Next, Mobile!Next, Public!RefreshCheck, Mobile!RefreshCheck,
       Public!RefreshCommit, Mobile!RefreshCommit, Public!RefreshHistory, Mobile!RefreshHistory,
       Public!RefreshLookup, Mobile!RefreshLookup, Public!RefreshReuse, Mobile!RefreshReuse,
       Public!RefreshRevoke, Mobile!RefreshRevoke, Public!Reply, Mobile!Reply, Public!RequestFails,
       Mobile!RequestFails, Public!Restart, Mobile!Restart, Public!ReuseRecorded, Mobile!ReuseRecorded,
       Public!Revoke, Mobile!Revoke, Public!RevokeAll, Mobile!RevokeAll, Public!RevokeCodes,
       Mobile!RevokeCodes, Public!RevokeSelect, Mobile!RevokeSelect, Public!RevokeSession,
       Mobile!RevokeSession, Public!Rotated, Mobile!Rotated, Public!Row, Mobile!Row, Public!Serves,
       Mobile!Serves, Public!SessionExpires, Mobile!SessionExpires, Public!SessionLocked,
       Mobile!SessionLocked, Public!SessionsOfInstallation, Mobile!SessionsOfInstallation,
       Public!SessionsOfUser, Mobile!SessionsOfUser, Public!SetStatus, Mobile!SetStatus, Public!Unused,
       Mobile!Unused, Public!Usable, Mobile!Usable, Public!tables, Mobile!tables, Public!tokens,
       Mobile!tokens, Public!users, Mobile!users, Public!vars, Mobile!vars

LEMMA SameBound == Public!InstallationSessionsBounded <=> Mobile!InstallationSessionsBounded
BY DEF Public!InstallationSessionsBounded, Mobile!InstallationSessionsBounded,
       Public!SessionsOfInstallation, Mobile!SessionsOfInstallation, Public!Row, Mobile!Row,
       Public!Cardinality, Mobile!Cardinality

\* However its bootstraps overlap with each other, with rotations and with a
\* restart, an installation without a user has no more sessions than requests
\* that can run at once (createPublicMobileSession and
\* createHiddifyAndroidSession, lib/mobile-auth.js).
THEOREM PublicSessionsAreBounded ==
    ASSUME IsFiniteSet(Requests)
    PROVE  Public!Spec => []InstallationSessionsBounded
<1>1. Public!Init => Mobile!IInv /\ Mobile!OpenersInv
  BY SameInit, Mobile!InitIInv, Mobile!InitOpeners, PublicAssumption
<1>2. Mobile!IInv /\ Mobile!OpenersInv /\ [Public!Next]_(Public!vars) => (Mobile!IInv /\ Mobile!OpenersInv)'
  BY SameNext, Mobile!NextIInv, Mobile!NextOpeners, PublicAssumption
<1>3. Mobile!OpenersInv => InstallationSessionsBounded
  <2>1. Mobile!IsFiniteSet(Requests)
    BY DEF Mobile!IsFiniteSet, IsFiniteSet
  <2> QED BY <2>1, SameBound, Mobile!OpenersBound, PublicAssumption DEF InstallationSessionsBounded
<1> QED BY <1>1, <1>2, <1>3, PTL DEF Public!Spec

=============================================================================
