----------------------------- MODULE EsaFilter -----------------------------
(***************************************************************************)
(* The qualification of Alibaba edge addresses                             *)
(* (scripts/filter-alibaba-esa-candidates.mjs).  Workers inspect the       *)
(* candidates of a list one by one; those that qualify are appended, each  *)
(* line written through to the disk, to a list of addresses, a file of     *)
(* details and a list for each host that passed.  The run can be stopped   *)
(* (SIGINT) or killed, and started again: it resumes from the list of      *)
(* addresses.                                                              *)
(***************************************************************************)
EXTENDS Naturals, Sequences, FiniteSets, SequencesExt

CONSTANTS
    Input,         \* the lines read, as records of an address and its time
    MaxSourceMs,   \* 0 for no ceiling
    Limit,         \* 0 for none
    Concurrency,
    Targets,       \* the hosts, in the order they are tried
    Passes,        \* answers in a row that a host must give
    MaxStarts      \* bound on the runs

VARIABLES
    running,
    stopped,       \* SIGINT was received
    cursor,
    inspection,    \* what each worker inspects: position, step, host, answers, hosts passed
    alreadyFound, qualified,
    ipLines,       \* the list of addresses
    details,       \* addresses in the file of details
    targetLines,   \* addresses in the list of each host
    report,        \* what the last run has reported
    starts,
    tried,         \* addresses inspected to the end in this run, or listed before
    interrupted    \* addresses whose lines a kill has cut short

files == <<ipLines, details, targetLines>>
vars == <<running, stopped, cursor, inspection, alreadyFound, qualified, files, report, starts, tried, interrupted>>

-----------------------------------------------------------------------------
(* parseCandidates and the selection *)

MsOf(ip) == {row.ms : row \in {r \in ToSet(Input) : r.ip = ip}}
Least(ms) == CHOOSE m \in ms : \A n \in ms : m <= n
Parsed == {[ip |-> ip, ms |-> Least(MsOf(ip))] : ip \in {row.ip : row \in ToSet(Input)}}

Fast == {row \in Parsed : MaxSourceMs = 0 \/ row.ms <= MaxSourceMs}
Sorted == CHOOSE list \in SetToSeqs(Fast) : \A i, j \in 1 .. Len(list) : i < j => list[i].ms <= list[j].ms
Selected == IF Limit = 0 \/ Limit >= Len(Sorted) THEN Sorted ELSE SubSeq(Sorted, 1, Limit)
Candidate(i) == Selected[i].ip

Workers == 1 .. Concurrency
Hosts == ToSet(Targets)
Idle == [at |-> 0, step |-> "tcp", target |-> 1, passes |-> 0, passed |-> {}]
Inspecting(i) == [Idle EXCEPT !.at = i]
Busy(w) == inspection[w].at # 0
Ip(w) == Candidate(inspection[w].at)
NoReport == [ok |-> FALSE, total |-> 0]

-----------------------------------------------------------------------------
(* mapPool: a worker passes over what is listed already *)

\* The first position from i on that is not passed over.
NextAt(i, found) ==
    LET left == {n \in i .. Len(Selected) : Candidate(n) \notin found}
    IN IF left = {} THEN 0 ELSE Least(left)

\* Where the cursor is when a worker has taken n, or found the end.
After(n) == IF n = 0 THEN Len(Selected) + 1 ELSE n + 1

Init ==
    /\ running = FALSE /\ stopped = FALSE
    /\ cursor = 1 /\ inspection = [w \in Workers |-> Idle]
    /\ alreadyFound = {} /\ qualified = 0
    /\ ipLines = <<>> /\ details = {} /\ targetLines = [t \in Hosts |-> {}]
    /\ report = NoReport /\ starts = 0 /\ tried = {} /\ interrupted = {}

\* A run that starts all over ...
NothingListed == {}

\* ... and readExistingIps.
ReadExistingIps == ToSet(ipLines)

Start ==
    /\ ~running /\ starts < MaxStarts
    /\ running' = TRUE /\ stopped' = FALSE /\ starts' = starts + 1
    /\ alreadyFound' = ReadExistingIps
    /\ qualified' = Cardinality(ReadExistingIps)
    /\ tried' = ToSet(ipLines)
    /\ cursor' = 1 /\ inspection' = [w \in Workers |-> Idle]
    /\ UNCHANGED <<files, report, interrupted>>

Take(w) ==
    /\ running /\ ~Busy(w) /\ ~stopped
    /\ cursor <= Len(Selected)
    /\ LET n == NextAt(cursor, alreadyFound)
       IN /\ cursor' = After(n)
          /\ inspection' = [inspection EXCEPT ![w] = IF n = 0 THEN Idle ELSE Inspecting(n)]
    /\ UNCHANGED <<running, stopped, alreadyFound, qualified, files, report, starts, tried, interrupted>>

-----------------------------------------------------------------------------
(* inspectCandidate *)

Set(w, state) == inspection' = [inspection EXCEPT ![w] = state]
Ends(w) == Set(w, Idle) /\ tried' = tried \cup {Ip(w)}

\* The TCP or the TLS probe: what fails, is too slow or has the wrong
\* certificate or protocol is dropped.
Connect(w, ok) ==
    /\ running /\ Busy(w) /\ inspection[w].step \in {"tcp", "tls"}
    /\ IF ok
       THEN /\ Set(w, [inspection[w] EXCEPT !.step = IF @ = "tcp" THEN "tls" ELSE "ws"])
            /\ UNCHANGED tried
       ELSE Ends(w)
    /\ UNCHANGED <<running, stopped, cursor, alreadyFound, qualified, files, report, starts, interrupted>>

LastTarget(w) == inspection[w].target = Len(Targets)
Target(w) == Targets[inspection[w].target]

\* One WebSocket probe: the host passes with the last of its answers, and
\* fails with the first that is none.
HostPasses(w, ok) == ok /\ inspection[w].passes + 1 = Passes
HostIsDone(w, ok) == ~ok \/ HostPasses(w, ok)
PassedWith(w, ok) == inspection[w].passed \cup (IF HostPasses(w, ok) THEN {Target(w)} ELSE {})

Attempt(w, ok) ==
    /\ running /\ Busy(w) /\ inspection[w].step = "ws"
    /\ ~(HostIsDone(w, ok) /\ LastTarget(w))
    /\ Set(w, IF HostIsDone(w, ok)
              THEN [inspection[w] EXCEPT !.target = @ + 1, !.passes = 0, !.passed = PassedWith(w, ok)]
              ELSE [inspection[w] EXCEPT !.passes = @ + 1])
    /\ UNCHANGED <<running, stopped, cursor, alreadyFound, qualified, files, report, starts, tried, interrupted>>

\* With the last host the candidate qualifies or fails; its lines are
\* written in one go.
LastAttempt(w, ok) == running /\ Busy(w) /\ inspection[w].step = "ws" /\ HostIsDone(w, ok) /\ LastTarget(w)

Qualify(w, ok) ==
    /\ LastAttempt(w, ok) /\ PassedWith(w, ok) # {}
    /\ qualified' = qualified + 1
    /\ alreadyFound' = alreadyFound \cup {Ip(w)}
    /\ ipLines' = Append(ipLines, Ip(w))
    /\ details' = details \cup {Ip(w)}
    /\ targetLines' = [t \in Hosts |-> targetLines[t] \cup (IF t \in PassedWith(w, ok) THEN {Ip(w)} ELSE {})]
    /\ Ends(w)
    /\ UNCHANGED <<running, stopped, cursor, report, starts, interrupted>>

Fail(w, ok) ==
    /\ LastAttempt(w, ok) /\ PassedWith(w, ok) = {}
    /\ Ends(w)
    /\ UNCHANGED <<running, stopped, cursor, alreadyFound, qualified, files, report, starts, interrupted>>

-----------------------------------------------------------------------------

Sigint ==
    /\ running
    /\ stopped' = TRUE
    /\ UNCHANGED <<running, cursor, inspection, alreadyFound, qualified, files, report, starts, tried, interrupted>>

\* A pool is done with its last worker.
PoolEnds == (\A w \in Workers : ~Busy(w)) /\ (stopped \/ cursor > Len(Selected))

Report ==
    /\ running /\ PoolEnds
    /\ report' = [ok |-> ~stopped, total |-> qualified]
    /\ running' = FALSE
    /\ inspection' = [w \in Workers |-> Idle]
    /\ UNCHANGED <<stopped, cursor, alreadyFound, qualified, files, starts, tried, interrupted>>

\* Killed, also by an append that fails: of the lines of an address those up
\* to the kill are there, the list of addresses first.
Kill ==
    /\ running
    /\ running' = FALSE /\ report' = NoReport
    /\ inspection' = [w \in Workers |-> Idle]
    /\ \/ UNCHANGED <<files, interrupted>>
       \/ \E w \in Workers, ok \in BOOLEAN :
            /\ LastAttempt(w, ok) /\ PassedWith(w, ok) # {}
            /\ ipLines' = Append(ipLines, Ip(w))
            /\ interrupted' = interrupted \cup {Ip(w)}
            /\ \/ UNCHANGED <<details, targetLines>>
               \/ /\ details' = details \cup {Ip(w)}
                  /\ \E hosts \in SUBSET PassedWith(w, ok) :
                       targetLines' = [t \in Hosts |-> targetLines[t] \cup (IF t \in hosts THEN {Ip(w)} ELSE {})]
    /\ UNCHANGED <<stopped, cursor, alreadyFound, qualified, starts, tried>>

Next ==
    \/ Start \/ Sigint \/ Report \/ Kill
    \/ \E w \in Workers :
         \/ Take(w)
         \/ \E ok \in BOOLEAN : Connect(w, ok) \/ Attempt(w, ok) \/ Qualify(w, ok) \/ Fail(w, ok)

Spec == Init /\ [][Next]_vars

-----------------------------------------------------------------------------

TypeOK ==
    /\ running \in BOOLEAN /\ stopped \in BOOLEAN
    /\ cursor \in 1 .. Len(Selected) + 1
    /\ inspection \in [Workers -> [at : 0 .. Len(Selected), step : {"tcp", "tls", "ws"}, target : 1 .. Len(Targets),
                                   passes : 0 .. Passes - 1, passed : SUBSET Hosts]]
    /\ LET known == {row.ip : row \in ToSet(Input)}
       IN alreadyFound \cup ToSet(ipLines) \cup details \cup tried \cup interrupted \subseteq known
    /\ targetLines \in [Hosts -> SUBSET details]
    /\ report \in [ok : BOOLEAN, total : Nat] /\ starts \in 0 .. MaxStarts

\* Over any number of runs, stopped or killed anywhere, no address is listed
\* twice, and each one listed has its details and a host that passed, unless
\* a kill cut its own lines short: such an address counts as found from then
\* on, and no later run adds what is missing.  A report that says ok has
\* left out no candidate, and its total is the length of the list.
ListIsComplete ==
    /\ IsInjective(ipLines)
    /\ \A ip \in ToSet(ipLines) \ interrupted : ip \in details /\ \E t \in Hosts : ip \in targetLines[t]
    /\ report.ok /\ ~running => \A i \in 1 .. Len(Selected) : Candidate(i) \in tried
    /\ report.ok /\ ~running => report.total = Len(ipLines)
=============================================================================
