------------------------------ MODULE CdnScan ------------------------------
(***************************************************************************)
(* The scan of the edge addresses of CDN providers from the present        *)
(* network (scripts/tm-cdn-ip-scan.mjs).  The addresses of a provider are  *)
(* probed in stages, each by a pool of workers: TCP, TLS, and the          *)
(* application behind it; those that pass one stage, the fastest first,    *)
(* make up the next.  What is found is appended to two files at once; the  *)
(* ranking of all addresses comes with the report at the end.              *)
(*                                                                         *)
(* A probe has one outcome, whatever its socket still does: probes settle  *)
(* once.  The order in which a stage's addresses follow from their times   *)
(* is any order.                                                           *)
(***************************************************************************)
EXTENDS Naturals, Sequences, FiniteSets, SequencesExt

CONSTANTS
    Ips,
    Plans,        \* the providers to scan in turn, from the argument
    Listings,     \* the addresses that lists, DNS and patterns yield
    Limit, Concurrency, ApplicationLimit,
    Statuses,     \* the HTTP status an edge answers with, 0 for no answer
    MaxFaults     \* bound on appends that fail

VARIABLES
    plan,         \* providers left, the present one first
    stage,
    items, next,  \* what the pool works through, and how far it is
    busy,         \* position each worker is probing, 0 when it has ended
    rows,         \* outcome of each stage for each address probed
    jsonl, ips,   \* the live files
    reported,     \* for each provider in the report, the addresses ranked ok
    faulty,       \* addresses that could not be saved
    killed

files == <<jsonl, ips>>
vars == <<plan, stage, items, next, busy, rows, files, reported, faulty, killed>>

-----------------------------------------------------------------------------

Providers == {"cloudflare", "bunny", "fastly", "tencent", "alibaba ws", "alibaba xhttp"}
Provider == Head(plan)
Workers == 1 .. Concurrency

StagesOf(p) ==
    CASE p = "bunny" -> <<"tcp", "tls", "http", "ws">>
      [] p \in {"fastly", "alibaba xhttp"} -> <<"tcp", "tls", "http">>
      [] OTHER -> <<"tcp", "tls", "ws">>
Stages == {"tcp", "tls", "http", "ws"}

\* A TLS session that was set up may have the wrong protocol or certificate.
TlsOutcomes == {"failed", "protocol", "certificate", "good"}
Outcomes(s) == CASE s = "tcp" -> BOOLEAN [] s = "tls" -> TlsOutcomes [] OTHER -> Statuses
NoRows == [s \in Stages |-> <<>>]
Probed(s) == DOMAIN rows[s]

First(list, n) == SubSeq(list, 1, IF Len(list) < n THEN Len(list) ELSE n)

\* unique(...).slice(0, LIMIT); what is no address is left out.
TakeNew(list, ip) == IF ip \notin Ips \/ ip \in ToSet(list) THEN list ELSE Append(list, ip)
Candidates(listing) ==
    LET unique[n \in 0 .. Len(listing)] == IF n = 0 THEN <<>> ELSE TakeNew(unique[n - 1], listing[n])
    IN  First(unique[Len(listing)], Limit)

\* Cloudflare's edges are probed to the end.
ApplicationLimitOf(p) == IF p = "cloudflare" \/ Limit < ApplicationLimit THEN Limit ELSE ApplicationLimit

-----------------------------------------------------------------------------
(* The conditions of the scans *)

TlsPasses(p, outcome) ==
    CASE p = "fastly" -> outcome # "failed"
      [] p \in {"alibaba ws", "alibaba xhttp"} -> outcome \in {"certificate", "good"}
      [] OTHER -> outcome = "good"

\* isAlibabaStatus
IsAlibabaStatus(status) == status \in 200 .. 599 /\ status # 421

\* What an application's answer must be to be saved at once.
Found(p, s, ip, status) ==
    CASE p \in {"cloudflare", "tencent"} -> status = 101
      [] p = "bunny" -> s = "http" /\ status \in {200, 301, 302, 307, 308, 400, 404}
      [] p = "fastly" -> FALSE
      [] p = "alibaba ws" -> status = 101 /\ rows["tls"][ip] = "good"
      [] OTHER -> IsAlibabaStatus(status) /\ rows["tls"][ip] = "good"

GoodStatus(p, status) ==
    CASE p = "bunny" -> status \in {101, 200, 400, 404}
      [] p = "fastly" -> status \notin {0, 403, 421}
      [] p = "alibaba xhttp" -> IsAlibabaStatus(status)
      [] OTHER -> status = 101

Good(p, s, ip) == ip \in Probed(s) /\ GoodStatus(p, rows[s][ip])
TcpOk(ip) == ip \in Probed("tcp") /\ rows["tcp"][ip]
TlsIs(outcomes, ip) == ip \in Probed("tls") /\ rows["tls"][ip] \in outcomes

\* rankRows, and what the scan makes of it: Bunny and Fastly take its word,
\* which counts an address without any HTTP row as ok when no HTTP probe was
\* made.
Ranked(p, ip) ==
    CASE p \in {"bunny", "fastly"} ->
           /\ TcpOk(ip) /\ TlsIs(TlsOutcomes \ {"failed"}, ip)
           /\ Good(p, "http", ip) \/ Good(p, "ws", ip) \/ Probed("http") = {}
      [] p = "alibaba xhttp" -> TcpOk(ip) /\ TlsIs({"good"}, ip) /\ Good(p, "http", ip)
      [] OTHER -> TcpOk(ip) /\ TlsIs({"good"}, ip) /\ Good(p, "ws", ip)

-----------------------------------------------------------------------------
(* mapPool *)

\* Each worker takes the next position, up to the first await all in one go.
StartPool(s, list) ==
    /\ stage' = s /\ items' = list
    /\ next' = IF Len(list) < Concurrency THEN Len(list) + 1 ELSE Concurrency + 1
    /\ busy' = [w \in Workers |-> IF w <= Len(list) THEN w ELSE 0]

\* A pool that ends when everything is handed out, ...
PoolHandedOut == plan # <<>> /\ next > Len(items)

\* ... one that does not end without work, ...
PoolWithWork == plan # <<>> /\ items # <<>> /\ \A w \in Workers : busy[w] = 0

\* ... and the pool, which ends with its last worker.
PoolEnds == plan # <<>> /\ \A w \in Workers : busy[w] = 0

TakeNext(w) ==
    /\ busy' = [busy EXCEPT ![w] = IF next <= Len(items) THEN next ELSE 0]
    /\ next' = IF next <= Len(items) THEN next + 1 ELSE next

Ip(w) == items[busy[w]]
Row(w, outcome) == rows' = [rows EXCEPT ![stage] = [ip \in DOMAIN @ \cup {Ip(w)} |-> IF ip = Ip(w) THEN outcome ELSE @[ip]]]

Init ==
    /\ plan \in Plans
    /\ \E listing \in Listings :
         /\ items = Candidates(listing)
         /\ next = IF Len(items) < Concurrency THEN Len(items) + 1 ELSE Concurrency + 1
         /\ busy = [w \in Workers |-> IF w <= Len(items) THEN w ELSE 0]
    /\ stage = "tcp" /\ rows = NoRows
    /\ jsonl = {} /\ ips = {} /\ reported = <<>>
    /\ faulty = {} /\ killed = FALSE

\* Saving what a WebSocket has answered only ...
SavesSockets(outcome, ip) == stage = "ws" /\ Found(Provider, stage, ip, outcome)

Saves(outcome, ip) == stage \in {"http", "ws"} /\ Found(Provider, stage, ip, outcome)

\* liveResults.write comes with the answer, before anything is awaited.
Finish(w, outcome) ==
    /\ plan # <<>> /\ busy[w] # 0
    /\ outcome \in Outcomes(stage)
    /\ Row(w, outcome)
    /\ IF Saves(outcome, Ip(w))
       THEN jsonl' = jsonl \cup {<<Provider, Ip(w)>>} /\ ips' = ips \cup {<<Provider, Ip(w)>>}
       ELSE UNCHANGED files
    /\ TakeNext(w)
    /\ UNCHANGED <<plan, stage, items, reported, faulty, killed>>

\* An append fails, at its write or at its fsync: the row is one that failed,
\* which the pool catches, whatever is in the files.
SaveFails(w, outcome) ==
    /\ plan # <<>> /\ busy[w] # 0
    /\ Cardinality(faulty) < MaxFaults
    /\ Saves(outcome, Ip(w))
    /\ faulty' = faulty \cup {<<Provider, Ip(w)>>}
    /\ jsonl' \in {jsonl, jsonl \cup {<<Provider, Ip(w)>>}}
    /\ ips' \in {ips, (ips \cup {<<Provider, Ip(w)>>}) \cap jsonl'}
    /\ Row(w, 0)
    /\ TakeNext(w)
    /\ UNCHANGED <<plan, stage, items, reported, killed>>

-----------------------------------------------------------------------------
(* From one stage to the next *)

StageNo == CHOOSE n \in DOMAIN StagesOf(Provider) : StagesOf(Provider)[n] = stage
LastStage == StageNo = Len(StagesOf(Provider))
NextStage == StagesOf(Provider)[StageNo + 1]

\* Those that passed, in the order of their times.
NextItems ==
    CASE stage = "tcp" -> SetToSeqs({ip \in Probed("tcp") : rows["tcp"][ip]})
      [] stage = "tls" ->
           {First(list, ApplicationLimitOf(Provider)) :
               list \in SetToSeqs({ip \in Probed("tls") : TlsPasses(Provider, rows["tls"][ip])})}
      [] OTHER -> {items}

EndStage ==
    /\ PoolEnds /\ ~LastStage
    /\ \E list \in NextItems : StartPool(NextStage, list)
    /\ UNCHANGED <<plan, rows, files, reported, faulty, killed>>

\* The report takes in the provider; the next one is listed and started, or
\* everything is written.
EndScan ==
    /\ PoolEnds /\ LastStage
    /\ reported' = Append(reported, [provider |-> Provider, ok |-> {ip \in Probed("tcp") : Ranked(Provider, ip)}])
    /\ plan' = Tail(plan)
    /\ rows' = NoRows
    /\ \E listing \in Listings : StartPool("tcp", IF Len(plan) = 1 THEN <<>> ELSE Candidates(listing))
    /\ UNCHANGED <<files, faulty, killed>>

\* The live files are all that remains; a kill between the two appends
\* leaves an address in the first.
Kill ==
    /\ plan # <<>>
    /\ killed' = TRUE /\ plan' = <<>>
    /\ \/ jsonl' = jsonl
       \/ \E w \in Workers, status \in Statuses :
            /\ busy[w] # 0 /\ Saves(status, Ip(w))
            /\ jsonl' = jsonl \cup {<<Provider, Ip(w)>>}
    /\ rows' = NoRows
    /\ StartPool("tcp", <<>>)
    /\ UNCHANGED <<ips, reported, faulty>>

Work(w) == \E outcome \in Outcomes(stage) : Finish(w, outcome)

Next ==
    \/ \E w \in Workers : Work(w)
    \/ \E w \in Workers, outcome \in Statuses : SaveFails(w, outcome)
    \/ EndStage \/ EndScan \/ Kill

Spec == Init /\ [][Next]_vars

-----------------------------------------------------------------------------

TypeOK ==
    /\ plan \in Seq(Providers) /\ stage \in Stages
    /\ items \in Seq(Ips) /\ next \in 1 .. Len(items) + 1
    /\ busy \in [Workers -> 0 .. Len(items)]
    /\ \A s \in Stages : Probed(s) \subseteq Ips /\ \A ip \in Probed(s) : rows[s][ip] \in Outcomes(s)
    /\ jsonl \cup ips \cup faulty \subseteq Providers \X Ips
    /\ \A n \in DOMAIN reported : reported[n] \in [provider : Providers, ok : SUBSET Ips]
    /\ killed \in BOOLEAN

\* An address is saved the moment it is found, and so survives a kill: what
\* the rows of a scan show as found is in both files, the addresses in the
\* second are in the first, and one that could be saved in the first only is
\* one of the failed appends or the one a kill has interrupted.
FoundIsSaved ==
    /\ ips \subseteq jsonl
    /\ Cardinality((jsonl \ ips) \ faulty) <= (IF killed THEN 1 ELSE 0)
    /\ plan = <<>> \/ \A s \in {"http", "ws"} : \A ip \in Probed(s) :
           Found(Provider, s, ip, rows[s][ip]) => <<Provider, ip>> \in ips

\* Nothing falls between two stages: each address that passed one has its
\* row in the next by the time the scan goes on to a third.  Later stages
\* take no more than the limit.
NoneIsSkipped ==
    \A n \in 1 .. 2 :
        plan # <<>> /\ n + 1 < StageNo =>
            \A ip \in Probed(StagesOf(Provider)[n]) :
                \/ ip \in Probed(StagesOf(Provider)[n + 1])
                \/ n = 1 /\ ~rows["tcp"][ip]
                \/ n = 2 /\ ~TlsPasses(Provider, rows["tls"][ip])
                \/ n = 2 /\ Cardinality(Probed(StagesOf(Provider)[3])) = ApplicationLimitOf(Provider)

\* The report and the live files agree, and leave out no candidate: for
\* Cloudflare, Tencent and Alibaba the addresses ranked ok are those that
\* were saved while scanning, but for those that were written by an append
\* that failed.  Bunny's files also hold redirects.
RankedIsFound ==
    /\ NoneIsSkipped
    /\ \A n \in DOMAIN reported :
           LET p == reported[n].provider
           IN p \notin {"bunny", "fastly"} =>
                  /\ \A ip \in reported[n].ok : <<p, ip>> \in ips
                  /\ \A ip \in Ips : <<p, ip>> \in ips \ faulty => ip \in reported[n].ok
=============================================================================
