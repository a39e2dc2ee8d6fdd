------------------------------- MODULE MCCdn -------------------------------
(***************************************************************************)
(* What the scripts do about CDNs, checked in one run: the rollouts of CDN *)
(* servers and the scans of edge addresses, which share no state.  `part'  *)
(* says which of them moves, the others stay in an initial state.          *)
(***************************************************************************)
EXTENDS MCRollout

CONSTANTS
    Ips, Plans, Listings, Limit, Concurrency, ApplicationLimit, Statuses,     \* CdnScan
    Input, MaxSourceMs, Hostnames, Passes, MaxStarts,       \* EsaFilter
    ip1, ip2, ip3, ip4,
    MaxFaults                                               \* bound on appends that fail

VARIABLES
    part,
    plan, stage, items, next, busy, rowsOf, jsonl, ips, reported, faulty, killed,
    running, signalled, cursor, inspection, alreadyFound, qualified, ipLines, details, targetLines, report, starts,
    tried, interrupted

\* Duplicates and what is no address are among what a list yields.
ScanPlans == {<<>>, <<"cloudflare">>, <<"bunny">>, <<"fastly">>, <<"alibaba xhttp">>, <<"tencent", "alibaba ws">>}
ScanListings == {<<ip1, ip2, ip1, None, ip3>>}

\* One address twice, at two times, and one that is too slow.
ScanInput == <<[ip |-> ip1, ms |-> 3], [ip |-> ip2, ms |-> 2], [ip |-> ip1, ms |-> 1], [ip |-> ip3, ms |-> 4],
               [ip |-> ip4, ms |-> 9]>>
ScanHostnames == <<"fr1", "fr2">>

\* A scan names each provider once, and what is read are sequences.
ASSUME ScansAssumption ==
    /\ Concurrency \in Nat \ {0} /\ Limit \in Nat /\ ApplicationLimit \in Nat /\ Passes \in Nat \ {0}
    /\ \A providers \in Plans :
         /\ providers \in Seq({"cloudflare", "bunny", "fastly", "tencent", "alibaba ws", "alibaba xhttp"})
         /\ \A i, j \in 1 .. Len(providers) : providers[i] = providers[j] => i = j
    /\ Listings \subseteq Seq(Ips \cup {None})
    /\ MaxSourceMs \in Nat /\ Input \in Seq([ip : Ips, ms : Nat])
    /\ Hostnames # <<>> /\ Hostnames \in Seq({Hostnames[i] : i \in 1 .. Len(Hostnames)})

Cdn == INSTANCE CdnScan WITH rows <- rowsOf
Esa == INSTANCE EsaFilter WITH Limit <- 0, Targets <- Hostnames, stopped <- signalled

cdnVars == <<plan, stage, items, next, busy, rowsOf, jsonl, ips, reported, faulty, killed>>
esaVars == <<running, signalled, cursor, inspection, alreadyFound, qualified, ipLines, details, targetLines, report, starts,
             tried, interrupted>>

Moves(p) == part = p /\ UNCHANGED part

MCInit ==
    /\ part \in {"rollout", "cdn", "esa"}
    /\ Init /\ Cdn!Init /\ Esa!Init
    /\ part # "rollout" =>
          kind = "edge" /\ row = [id \in Ids |-> Before] /\ user = [u \in Users |-> None]
    /\ part # "cdn" => plan = <<>>

MCNext ==
    \/ Moves("rollout") /\ Next /\ UNCHANGED <<cdnVars, esaVars>>
    \/ Moves("cdn") /\ Cdn!Next /\ UNCHANGED <<vars, esaVars>>
    \/ Moves("esa") /\ Esa!Next /\ UNCHANGED <<vars, cdnVars>>

MCSpec == MCInit /\ [][MCNext]_<<part, vars, cdnVars, esaVars>>

-----------------------------------------------------------------------------

\* An address found is saved at once, also before a kill; what a scan reports
\* is what it saved, and no candidate is left out (CdnScan); the list of
\* qualified addresses survives restarts without gaps or duplicates (EsaFilter).
ScansLoseNothing ==
    /\ part = "cdn" => Cdn!FoundIsSaved /\ Cdn!RankedIsFound
    /\ part = "esa" => Esa!ListIsComplete
=============================================================================
