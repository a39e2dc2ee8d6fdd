------------------------------- MODULE Rollout -------------------------------
(***************************************************************************)
(* The scripts that give every client new CDN servers, beside a panel that *)
(* goes on working:                                                        *)
(*   cloudflare  scripts/rollout-cloudflare-ws-all-users.mjs               *)
(*   bunny       scripts/rollout-bunny-az-all-users.mjs                    *)
(*   fr1         scripts/rollout-bunny-fr1-all-users.mjs                   *)
(*   finalmask   scripts/rollout-cloudflare-finalmask-all-users.mjs        *)
(*   video       scripts/rollout-bunny-video-tuning-all-users.mjs          *)
(*   mask        scripts/apply-cdn-finalmask-only.mjs                      *)
(*   edge        scripts/rollout-tencent-edgeone-all-clients.mjs and       *)
(*               scripts/rollout-alibaba-esa-all-clients.mjs               *)
(* A script lists the users, computes what each is to hold, saves a backup,*)
(* writes server after server and user after user and verifies what is     *)
(* there then.  All but `edge' undo their work when a step throws.         *)
(*                                                                         *)
(* A user's bonusServerIds and pinnedServerIds, which every script treats  *)
(* alike, are one list.  A server's document is whether it is enabled,     *)
(* whether its fields are those of the script, and whether it has a key    *)
(* the document before had not (finalMask, fragmentation, alpn, ...).      *)
(***************************************************************************)
EXTENDS Naturals, Sequences, SequencesExt

CONSTANTS
    Users,
    Targets,      \* the servers a script gives out, in their order
    Retired,      \* the servers bunny switches off and video deletes
    Others,       \* further servers
    InitLists,    \* lists that users begin with
    AdminLists,   \* lists that an administrator saves
    RelayOnly,    \* the panel's subscriptionRelayOnly
    MaxEvents,    \* bound on what the panel changes meanwhile and on failures
    None

ASSUME UsersAssumption == IsFiniteSet(Users)
ASSUME TargetsAssumption == /\ Targets \in Seq(ToSet(Targets)) /\ Targets # <<>>
                            /\ Retired \in Seq(ToSet(Retired) \ ToSet(Targets))

Kinds == {"cloudflare", "bunny", "fr1", "finalmask", "video", "mask", "edge"}

\* What tells the scripts apart.
ActiveOnly == {"cloudflare", "edge"}             \* work on active users only
RefuseCustom == {"cloudflare", "bunny"}          \* refuse custom subscriptions
RefuseEmpty == {"cloudflare", "bunny", "fr1", "video"}
TunesTargets == {"finalmask", "video", "mask"}   \* need the targets to be there
KeepsOrder == {"video", "mask"}                  \* do not put the targets first
CountsServers == {"finalmask", "mask"}           \* note each server as published
AsksDefaults == {"bunny", "fr1", "finalmask"}    \* check what new clients would get
VerifiesAgain == {"cloudflare", "bunny", "video", "edge"}
UsersBackFirst == {"cloudflare", "fr1", "finalmask"}
DeletesNew == {"cloudflare", "fr1", "video"}     \* delete servers without a row before

VARIABLES
    kind,       \* which script runs
    row,        \* rows of `servers', None without
    user,       \* rows of `users', None without
    file,       \* lines of a user's subscription file, None without
    at,         \* what the script does next
    left,       \* the users or servers it still has to do that for
    seen,       \* the users it listed first and works on
    prev,       \* the servers as it read them
    old,        \* the bodies it built before
    published,  \* servers that a rollback will undo
    applied,    \* users that a rollback will undo, in order
    listed,     \* the users it listed last and verifies
    failing,    \* has a verification found something?
    cache,      \* its cache of bodies (lib/subscription-body-cache.js)
    backup,     \* lists in the backup file, None before it is written
    events,     \* changes by the panel and failures so far
    edited,     \* users and servers the panel changed since the first listing
    touched,    \* and since the last one
    torn        \* has a statement taken effect and failed, or an undo failed?

script == <<kind, seen, prev, old, listed>>
progress == <<published, applied, failing, backup>>
foreign == <<edited, touched>>
vars == <<script, progress, foreign, row, user, file, at, left, cache, events, torn>>

-----------------------------------------------------------------------------
(* Lists, documents and bodies *)

Ids == ToSet(Targets) \cup ToSet(Retired) \cup Others
Line == Ids \X BOOLEAN
Doc == [enabled : BOOLEAN, base : {"old", "new"}, extra : BOOLEAN]
User == [active : BOOLEAN, custom : BOOLEAN, list : Seq(Ids)]
Before == [enabled |-> TRUE, base |-> "old", extra |-> FALSE]

ASSUME ListsAssumption == InitLists \subseteq Seq(Ids) /\ AdminLists \subseteq Seq(Ids)
ASSUME NoneAssumption == None \notin Doc \cup User \cup Seq(Line) /\ None \notin [Users -> Seq(Ids) \cup {None}]

Own == IF kind \in {"bunny", "video"} THEN Targets \o Retired ELSE Targets

Foreign(id) == id \notin ToSet(Own)

\* SelectSeq for a set, as a recursive function.
Keep(list, ids) ==
    LET kept[n \in 0 .. Len(list)] ==
          IF n = 0 THEN <<>>
          ELSE IF list[n] \in ids THEN Append(kept[n - 1], list[n]) ELSE kept[n - 1]
    IN  kept[Len(list)]

\* The list a script wants: the targets, then what else was there (fr1: the
\* targets behind the retired ones, its elder servers); bunny and video drop
\* the servers they retire.  The mask changes no list.
Rest(list) == Keep(list, Ids \ ToSet(Own))
CloudflareAfter(list) == Targets \o Rest(list)
FinalmaskAfter(list) == CloudflareAfter(list)
EdgeAfter(list) == CloudflareAfter(list)
BunnyAfter(list) == Targets \o Rest(list)
VideoAfter(list) == Keep(list, Ids \ ToSet(Retired))
Fr1After(list) ==
    LET rest == Rest(list)
        elder == SelectLastInSeq(rest, LAMBDA id : id \in ToSet(Retired)) IN
    SubSeq(rest, 1, elder) \o Targets \o SubSeq(rest, elder + 1, Len(rest))
After(list) ==
    CASE kind = "cloudflare" -> CloudflareAfter(list)
      [] kind = "finalmask" -> FinalmaskAfter(list)
      [] kind = "edge" -> EdgeAfter(list)
      [] kind = "bunny" -> BunnyAfter(list)
      [] kind = "video" -> VideoAfter(list)
      [] kind = "fr1" -> Fr1After(list)
      [] kind = "mask" -> list

\* The document it saves, given the one it read.
CloudflareDocument == [enabled |-> TRUE, base |-> "new", extra |-> TRUE]
BunnyDocument == CloudflareDocument
Fr1Document == CloudflareDocument
EdgeDocument == CloudflareDocument
FinalmaskDocument(before) == [before EXCEPT !.enabled = TRUE, !.base = "new", !.extra = TRUE]
VideoDocument(before) == FinalmaskDocument(before)
MaskedDocument(before) == [before EXCEPT !.extra = TRUE]
RetiredDocument(before) == [before EXCEPT !.enabled = FALSE]
Document(id, before) ==
    IF id \in ToSet(Retired) THEN IF kind = "video" THEN None ELSE RetiredDocument(before)
    ELSE
    CASE kind = "cloudflare" -> CloudflareDocument
      [] kind = "bunny" -> BunnyDocument
      [] kind = "fr1" -> Fr1Document
      [] kind = "edge" -> EdgeDocument
      [] kind = "finalmask" -> FinalmaskDocument(before)
      [] kind = "video" -> VideoDocument(before)
      [] kind = "mask" -> MaskedDocument(before)

\* upsertServer: `data || EXCLUDED.data' keeps the keys a document lacks.
Merge(was, doc) == IF was = None \/ doc = None THEN doc ELSE [doc EXCEPT !.extra = @ \/ was.extra]

\* buildUserSubscriptionBody, from a list and the servers as they are.
Live == {id \in Ids : row[id] # None /\ row[id].enabled}
Body(list) ==
    LET live == Keep(list, Live) IN
    [i \in DOMAIN live |-> <<live[i], row[live[i]].extra>>]

HasLine(body, id) == \E i \in DOMAIN body : body[i][1] = id
TargetsFirst(list) == IsPrefix(Targets, list)

\* The content of a custom subscription, which names none of these servers,
\* or the cached body, or a new one.
BodyOf(u, doc) == IF doc.custom THEN <<>> ELSE IF cache[u] # None THEN cache[u] ELSE Body(doc.list)
Caching(u, doc) == cache' = IF doc.custom THEN cache ELSE [cache EXCEPT ![u] = BodyOf(u, doc)]

\* The users a script works on.
Selected == [u \in Users |->
    IF user[u] # None /\ (kind \in ActiveOnly => user[u].active) THEN user[u] ELSE None]
Listing(users) == SetToSeq({u \in Users : users[u] # None})

\* The users as they were listed, and as they are to be.
Then(u) == seen[u]
Wanted(u) == [seen[u] EXCEPT !.list = After(@)]

\* What a script asks of a body, before and after users are changed.
HasTargets(body) == \A id \in ToSet(Targets) : HasLine(body, id)
TargetsMasked(body) == \A i \in DOMAIN body : body[i][1] \in ToSet(Targets) => body[i][2]
CloudflareBody(body) == HasTargets(body)
Fr1Body(body) == HasTargets(body)
EdgeBody(body) == HasTargets(body)
FinalmaskBody(body) == TargetsFirst([i \in DOMAIN body |-> body[i][1]]) /\ TargetsMasked(body)
VideoBody(body) == HasTargets(body) /\ TargetsMasked(body)
BunnyBody(body) ==
    /\ TargetsFirst([i \in DOMAIN body |-> body[i][1]])
    /\ \A id \in ToSet(Retired) : ~HasLine(body, id)
MaskBody(u, body) ==
    /\ Len(body) = Len(old[u])
    /\ \A id \in Ids : Foreign(id) => (HasLine(old[u], id) <=> HasLine(body, id))
    /\ TargetsMasked(body)
BodyIsRight(u, body) ==
    CASE kind = "cloudflare" -> CloudflareBody(body)
      [] kind = "bunny" -> BunnyBody(body)
      [] kind = "fr1" -> Fr1Body(body)
      [] kind = "finalmask" -> FinalmaskBody(body)
      [] kind = "video" -> VideoBody(body)
      [] kind = "mask" -> MaskBody(u, body)
      [] kind = "edge" -> EdgeBody(body)

\* No line of another server may have gone.
NothingLost(u, body) ==
    \A id \in Ids : (Foreign(id) \/ kind \in {"fr1", "finalmask"}) /\ HasLine(old[u], id)
                      => HasLine(body, id)

-----------------------------------------------------------------------------

\* upsertUserSubscriptionFile builds the body anew.
FileOf(doc) == IF doc.active /\ ~doc.custom THEN Body(doc.list) ELSE <<>>

Running == at \notin {"ok", "refused", "failed", "rolled back", "died"}

\* The first step of a phase that has nothing to do is the next phase's.
Goto(stage, todo) == at' = stage /\ left' = todo
NextOne == left' = Tail(left) /\ at' = at

Init ==
    /\ kind \in Kinds
    /\ row \in [Ids -> {None, Before}]
    /\ \A id \in Others : row[id] # None
    /\ \E list \in InitLists :
         user \in [Users -> {None} \cup [active : BOOLEAN, custom : {FALSE}, list : {list}]
                                  \cup [active : {TRUE}, custom : {TRUE}, list : {<<>>}]]
    /\ \A u \in Users : user[u] # None => \A id \in ToSet(user[u].list) : row[id] # None
    /\ file = [u \in Users |-> IF user[u] = None THEN None
                               ELSE FileOf(user[u])]
    /\ at = "list" /\ left = <<>>
    /\ seen = [u \in Users |-> None] /\ listed = seen
    /\ prev = [id \in Ids |-> None]
    /\ old = [u \in Users |-> <<>>]
    /\ published = {} /\ applied = <<>> /\ failing = FALSE
    /\ cache = [u \in Users |-> None]
    /\ backup = None
    /\ events = 0 /\ edited = {} /\ touched = {} /\ torn = FALSE

-----------------------------------------------------------------------------
(* Reading *)

ListUsers ==
    /\ at = "list"
    /\ seen' = Selected
    /\ IF \/ kind \in RefuseEmpty /\ Listing(Selected) = <<>>
          \/ kind \in RefuseCustom /\ \E u \in Users : Selected[u] # None /\ Selected[u].custom
       THEN Goto("refused", <<>>)
       ELSE Goto("servers", Own)
    /\ UNCHANGED <<kind, prev, old, listed, progress, foreign, row, user, file, cache, events, torn>>

ReadServer ==
    /\ at = "servers" /\ left # <<>>
    /\ prev' = [prev EXCEPT ![Head(left)] = row[Head(left)]]
    /\ IF LET id == Head(left) IN
          \/ kind \in TunesTargets /\ id \in ToSet(Targets) /\ row[id] = None
          \/ kind = "video" /\ id \in ToSet(Targets) /\ ~row[id].enabled
          \/ kind = "bunny" /\ id \in ToSet(Retired) /\ row[id] = None
       THEN Goto("refused", <<>>)
       ELSE NextOne
    /\ UNCHANGED <<kind, seen, old, listed, progress, foreign, row, user, file, cache, events, torn>>

\* edge builds no bodies; alibaba stops while a target has no address.
ServersRead ==
    /\ at = "servers" /\ left = <<>>
    /\ IF kind = "edge" THEN Goto("backup", <<>>) \/ Goto("failed", <<>>)
                        ELSE Goto("bodies", Listing(seen))
    /\ UNCHANGED <<script, progress, foreign, row, user, file, cache, events, torn>>

\* The body as it was, which also fills the cache.
OldBody ==
    LET u == Head(left) IN
    /\ at = "bodies" /\ left # <<>>
    /\ old' = [old EXCEPT ![u] = BodyOf(u, Then(u))]
    /\ Caching(u, Then(u))
    /\ NextOne
    /\ UNCHANGED <<kind, seen, prev, listed, progress, foreign, row, user, file, events, torn>>

BodiesBuilt ==
    /\ at = "bodies" /\ left = <<>>
    /\ Goto("backup", <<>>)
    /\ UNCHANGED <<script, progress, foreign, row, user, file, cache, events, torn>>

BackupLater ==
    /\ at = "backup"
    /\ Goto("publish", Own)
    /\ UNCHANGED <<script, progress, foreign, row, user, file, cache, events, torn>>

\* The lists as they were go to a file; only then is anything changed.
Backup ==
    /\ at = "backup"
    /\ backup' = [u \in Users |-> IF seen[u] = None THEN None ELSE seen[u].list]
    /\ published' = IF kind = "video" THEN ToSet(Own) ELSE published
    /\ Goto("publish", Own)
    /\ UNCHANGED <<script, applied, failing, foreign, row, user, file, cache, events, torn>>

-----------------------------------------------------------------------------
(* Changing *)

Save(id) == row' = [row EXCEPT ![id] = Merge(@, Document(id, prev[id]))]

\* Most note the servers as published after the last of them, others count
\* each; video undoes them in any case.
Publish ==
    /\ at = "publish" /\ left # <<>>
    /\ Save(Head(left))
    /\ published' = IF kind \in CountsServers THEN published \cup {Head(left)} ELSE published
    /\ NextOne
    /\ UNCHANGED <<script, applied, failing, backup, foreign, user, file, cache, events, torn>>

\* The users whose lists change at all, for a script that patches only those.
ToPatch ==
    Keep(Listing(seen), {u \in Users : seen[u] # None /\ (kind # "edge" \/ After(seen[u].list) # seen[u].list)})

Published ==
    /\ at = "publish" /\ left = <<>>
    /\ published' = ToSet(Own)
    /\ cache' = IF kind = "cloudflare" THEN [u \in Users |-> None] ELSE cache
    /\ IF kind = "edge" THEN Goto("apply", ToPatch) ELSE Goto("preview", Listing(seen))
    /\ UNCHANGED <<script, applied, failing, backup, foreign, row, user, file, events, torn>>

\* The body a user will have: the rows are the new ones, the list is not
\* saved yet.
Preview ==
    LET u == Head(left)
        body == BodyOf(u, Wanted(u)) IN
    /\ at = "preview" /\ left # <<>>
    /\ Caching(u, Wanted(u))
    /\ failing' = (failing \/ ~BodyIsRight(u, body) \/ ~NothingLost(u, body))
    /\ NextOne
    /\ UNCHANGED <<script, published, applied, backup, foreign, row, user, file, events, torn>>

\* applyRelayUserDefaults: what a client created now would hold.
Defaults == IF RelayOnly THEN Keep(Own, Live) ELSE <<>>

UndoUsers == Goto("undo list", Reverse(applied))
UndoServers == Goto("undo server", Keep(Own, published))

RollbackServersFirst == IF kind = "edge" THEN Goto("died", <<>>) ELSE UndoServers

\* Some undo the users first and then the servers, the others the servers
\* first; nothing undoes edge.
Rollback ==
    CASE kind \in UsersBackFirst -> UndoUsers
      [] kind = "edge" -> Goto("died", <<>>)
      [] OTHER -> UndoServers

FutureClients ==
    /\ ToSet(Targets) \subseteq ToSet(Defaults)
    /\ kind = "bunny" => ToSet(Defaults) \cap ToSet(Retired) = {}

Previewed ==
    /\ at = "preview" /\ left = <<>>
    /\ IF failing \/ (kind \in AsksDefaults /\ ~FutureClients)
       THEN Rollback
       ELSE IF kind = "mask" THEN Goto("files", Listing(seen)) ELSE Goto("apply", ToPatch)
    /\ UNCHANGED <<script, progress, foreign, row, user, file, cache, events, torn>>

\* updateUser writes the whole list, as computed from the first listing.
Write(u, list) == user' = IF user[u] = None THEN user ELSE [user EXCEPT ![u].list = list]

ApplyUnnoted ==
    /\ at = "apply" /\ left # <<>>
    /\ Write(Head(left), After(seen[Head(left)].list))
    /\ NextOne
    /\ UNCHANGED <<script, progress, foreign, row, file, cache, events, torn>>

Apply ==
    LET u == Head(left) IN
    /\ at = "apply" /\ left # <<>>
    /\ Write(u, After(seen[u].list))
    /\ applied' = Append(applied, u)
    /\ IF kind = "video" THEN at' = "apply file" /\ left' = left ELSE NextOne
    /\ UNCHANGED <<script, published, failing, backup, foreign, row, file, cache, events, torn>>

\* edge lists the users again and clears the cache, the others go on with
\* the first listing.
Applied ==
    /\ at = "apply" /\ left = <<>>
    /\ IF kind = "edge"
       THEN /\ listed' = [u \in Users |-> user[u]] /\ touched' = {}
            /\ Goto("files", Listing(user))
       ELSE /\ UNCHANGED <<listed, touched>>
            /\ Goto("files", IF kind = "video" THEN <<>> ELSE Listing(seen))
    /\ cache' = IF kind = "edge" THEN [u \in Users |-> None] ELSE cache
    /\ UNCHANGED <<kind, seen, prev, old, progress, edited, row, user, file, events, torn>>

\* upsertUserSubscriptionFile drops the cached body first; a user that has
\* gone by now gets a file as well.
Store(u, doc) ==
    /\ file' = [file EXCEPT ![u] = FileOf(doc)]
    /\ cache' = [cache EXCEPT ![u] = IF doc.active /\ ~doc.custom THEN Body(doc.list) ELSE None]

\* video stores the file of each user at once.
ApplyFile ==
    /\ at = "apply file"
    /\ Store(Head(left), Wanted(Head(left)))
    /\ Goto("apply", Tail(left))
    /\ UNCHANGED <<script, progress, foreign, row, user, events, torn>>

StoreFile ==
    LET u == Head(left) IN
    /\ at = "files" /\ left # <<>>
    /\ Store(u, IF kind = "edge" THEN listed[u] ELSE Wanted(u))
    /\ NextOne
    /\ UNCHANGED <<script, progress, foreign, row, user, events, torn>>

-----------------------------------------------------------------------------
(* Verifying *)

FilesStored ==
    /\ at = "files" /\ left = <<>>
    /\ CASE kind \notin VerifiesAgain ->
              /\ Goto("ok", <<>>)
              /\ UNCHANGED <<listed, touched, cache>>
         [] kind = "edge" ->
              /\ cache' = [u \in Users |-> None]
              /\ Goto("verify", Keep(Listing(listed), {u \in Users : listed[u] # None /\ listed[u].active}))
              /\ UNCHANGED <<listed, touched>>
         [] OTHER ->
              /\ listed' = Selected /\ touched' = {}
              /\ Goto("verify", Listing(Selected))
              /\ cache' = cache
    /\ UNCHANGED <<kind, seen, prev, old, progress, edited, row, user, file, events, torn>>

\* The rows as listed last (edge reads each again), the body and the file.
CloudflareUser(u) ==
    /\ CloudflareBody(BodyOf(u, listed[u]))
    /\ TargetsFirst(listed[u].list)
    /\ file[u] # None
    /\ HasTargets(file[u])
BunnyUser(u) ==
    /\ BunnyBody(BodyOf(u, listed[u]))
    /\ TargetsFirst(listed[u].list) /\ ToSet(listed[u].list) \cap ToSet(Retired) = {}
    /\ file[u] # None
    /\ listed[u].active => HasTargets(file[u]) /\ \A id \in ToSet(Retired) : ~HasLine(file[u], id)
VideoUser(u) ==
    /\ VideoBody(BodyOf(u, listed[u]))
    /\ listed[u].active => file[u] # None /\ VideoBody(file[u])
    /\ ToSet(listed[u].list) \cap ToSet(Retired) = {}
EdgeUser(u) == EdgeBody(BodyOf(u, user[u]))
UserIsRight(u) ==
    CASE kind = "cloudflare" -> CloudflareUser(u)
      [] kind = "bunny" -> BunnyUser(u)
      [] kind = "video" -> VideoUser(u)
      [] kind = "edge" -> EdgeUser(u)

VerifyTrustsRows ==
    /\ at = "verify" /\ left # <<>>
    /\ NextOne
    /\ UNCHANGED <<script, progress, foreign, row, user, file, cache, events, torn>>

Verify ==
    LET u == Head(left) IN
    /\ at = "verify" /\ left # <<>>
    /\ IF kind = "edge" /\ user[u] = None
       THEN Goto("died", <<>>) /\ UNCHANGED <<failing, cache>>
       ELSE /\ failing' = (failing \/ ~UserIsRight(u))
            /\ Caching(u, IF kind = "edge" THEN user[u] ELSE listed[u])
            /\ NextOne
    /\ UNCHANGED <<script, published, applied, backup, foreign, row, user, file, events, torn>>

\* cloudflare also compares how many users it saw, first and last.
Verified ==
    /\ at = "verify" /\ left = <<>>
    /\ IF failing \/ (kind = "cloudflare" /\ Len(Listing(listed)) # Len(Listing(seen)))
       THEN IF kind = "edge" THEN Goto("failed", <<>>) ELSE Rollback
       ELSE Goto("ok", <<>>)
    /\ UNCHANGED <<script, progress, foreign, row, user, file, cache, events, torn>>

-----------------------------------------------------------------------------
(* Undoing: users, last first, each with its file (the mask: the files of   *)
(* all), and servers.                                                      *)

UndoList ==
    /\ at = "undo list" /\ left # <<>>
    /\ Write(Head(left), seen[Head(left)].list)
    /\ at' = "undo file" /\ left' = left
    /\ UNCHANGED <<script, progress, foreign, row, file, cache, events, torn>>

UndoFile ==
    LET u == Head(left) IN
    /\ at = "undo file" /\ left # <<>>
    /\ Store(u, Then(u))
    /\ at' = (IF kind = "mask" THEN at ELSE "undo list") /\ left' = Tail(left)
    /\ UNCHANGED <<script, progress, foreign, row, user, events, torn>>

\* A server without a row before is deleted by some and left by the others.
UndoServer ==
    LET id == Head(left) IN
    /\ at = "undo server" /\ left # <<>>
    /\ row' = IF prev[id] # None THEN [row EXCEPT ![id] = Merge(@, prev[id])]
              ELSE IF kind \in DeletesNew THEN [row EXCEPT ![id] = None] ELSE row
    /\ NextOne
    /\ UNCHANGED <<script, progress, foreign, user, file, cache, events, torn>>

Undone ==
    /\ at \in {"undo list", "undo file", "undo server"} /\ left = <<>>
    /\ CASE at = "undo server" /\ kind \in {"bunny", "video"} -> UndoUsers
         [] at = "undo server" /\ kind = "mask" -> Goto("undo file", Listing(seen))
         [] at = "undo list" /\ kind \in UsersBackFirst -> UndoServers
         [] OTHER -> Goto("rolled back", <<>>)
    /\ UNCHANGED <<script, progress, foreign, row, user, file, cache, events, torn>>

-----------------------------------------------------------------------------
(* Failures *)

Event == events < MaxEvents /\ events' = events + 1

\* A statement fails: before the backup and in edge it ends the script,
\* else the work is undone.
Fails ==
    /\ at \in {"list", "servers", "bodies", "backup", "publish", "preview", "apply", "apply file",
              "files", "verify"}
    /\ Event
    /\ IF at \in {"list", "servers", "bodies", "backup"} THEN Goto("died", <<>>) ELSE Rollback
    /\ UNCHANGED <<script, progress, foreign, row, user, file, cache, torn>>

\* It fails although the server carried it out: the answer is lost.
FailsLate ==
    /\ left # <<>> /\ at \in {"publish", "apply"}
    /\ Event
    /\ torn' = TRUE
    /\ IF at = "publish" THEN Save(Head(left)) /\ user' = user
       ELSE Write(Head(left), After(seen[Head(left)].list)) /\ row' = row
    /\ Rollback
    /\ UNCHANGED <<script, progress, foreign, file, cache>>

\* A failure while the work is undone is swallowed.
UndoFails ==
    /\ at \in {"undo list", "undo file", "undo server"} /\ left # <<>>
    /\ Event
    /\ torn' = TRUE
    /\ CASE at = "undo list" -> at' = "undo file" /\ left' = left
         [] at = "undo file" -> at' = (IF kind = "mask" THEN at ELSE "undo list") /\ left' = Tail(left)
         [] OTHER -> NextOne
    /\ UNCHANGED <<script, progress, foreign, row, user, file, cache>>

\* The script is killed.
Killed ==
    /\ Running
    /\ Event
    /\ Goto("died", <<>>)
    /\ UNCHANGED <<script, progress, foreign, row, user, file, cache, torn>>

Expire(u) ==
    /\ Running
    /\ cache[u] # None
    /\ cache' = [cache EXCEPT ![u] = None]
    /\ UNCHANGED <<script, progress, foreign, row, user, file, at, left, events, torn>>

-----------------------------------------------------------------------------
(* The panel *)

\* What it did before the first listing is part of the initial state.
Panel(changed) ==
    /\ Running /\ at # "list"
    /\ Event
    /\ edited' = edited \cup {changed} /\ touched' = touched \cup {changed}
    /\ UNCHANGED <<script, progress, at, left, cache, torn>>

\* PATCH /users/:id, with a list or a status.
EditUser(u) ==
    /\ user[u] # None
    /\ \/ \E list \in AdminLists : user' = [user EXCEPT ![u].list = list]
       \/ user' = [user EXCEPT ![u].active = ~@]
    /\ Panel(u)
    /\ UNCHANGED <<row, file>>

\* POST /users, with the servers for new clients.
CreateUser(u) ==
    /\ user[u] = None
    /\ user' = [user EXCEPT ![u] = [active |-> TRUE, custom |-> FALSE, list |-> Defaults]]
    /\ file' = [file EXCEPT ![u] = Body(Defaults)]
    /\ Panel(u)
    /\ row' = row

\* DELETE /users/:id, which also deletes the file.
DeleteUser(u) ==
    /\ user[u] # None
    /\ user' = [user EXCEPT ![u] = None]
    /\ file' = [file EXCEPT ![u] = None]
    /\ Panel(u)
    /\ row' = row

\* PATCH and DELETE /servers/:id.
EditServer(id) ==
    /\ row[id] # None
    /\ \/ row' = [row EXCEPT ![id].enabled = ~@]
       \/ row' = [row EXCEPT ![id] = None]
    /\ Panel(id)
    /\ UNCHANGED <<user, file>>

\* A change of a user, and the periodic refresh, store its file anew.
Refresh(u) ==
    /\ Running
    /\ user[u] # None
    /\ file' = [file EXCEPT ![u] = FileOf(user[u])]
    /\ UNCHANGED <<script, progress, foreign, row, user, at, left, cache, events, torn>>

Step ==
    \/ ListUsers \/ ReadServer \/ ServersRead \/ OldBody \/ BodiesBuilt \/ Backup
    \/ Publish \/ Published \/ Preview \/ Previewed \/ Apply \/ ApplyFile \/ Applied
    \/ StoreFile \/ FilesStored \/ Verify \/ Verified
    \/ UndoList \/ UndoFile \/ UndoServer \/ Undone

Next ==
    \/ Step
    \/ Fails \/ FailsLate \/ UndoFails \/ Killed
    \/ \E u \in Users : \/ Expire(u) \/ Refresh(u)
                        \/ EditUser(u) \/ CreateUser(u) \/ DeleteUser(u)
    \/ \E id \in Ids : EditServer(id)

Spec == Init /\ [][Next]_vars

-----------------------------------------------------------------------------

TypeOK ==
    /\ kind \in Kinds
    /\ row \in [Ids -> Doc \cup {None}]
    /\ user \in [Users -> User \cup {None}]
    /\ file \in [Users -> Seq(Line) \cup {None}]
    /\ left \in Seq(Users) \cup Seq(Ids)
    /\ seen \in [Users -> User \cup {None}] /\ listed \in [Users -> User \cup {None}]
    /\ published \subseteq ToSet(Own)
    /\ applied \in Seq(Users)

\* A script that reports success has published its servers: every user that
\* nobody has changed since it listed them (last, if it lists them again
\* and looks at the lists and not at bodies alone, as video does) holds them,
\* and finds them in its file while no server was edited: with their new
\* documents, unless someone changed that user during the run (its file is
\* then as new as that change only).  The listings, the cache of bodies and
\* the files are all older than the report.
ListIsRight(list) ==
    CASE kind = "mask" -> TRUE
      [] kind \in {"fr1", "edge"} -> ToSet(Targets) \subseteq ToSet(list)
      [] kind = "video" -> ToSet(list) \cap ToSet(Retired) = {}
      [] OTHER -> TargetsFirst(list)
OkMeansPublished ==
    at = "ok" => \A u \in Users \ (IF kind \in VerifiesAgain \ {"video"} THEN touched ELSE edited) :
        user[u] # None /\ user[u].active =>
            /\ ListIsRight(user[u].list)
            /\ edited \cap Ids = {} =>
                 /\ kind # "mask" => HasTargets(file[u])
                 /\ u \notin edited => TargetsMasked(file[u])

\* "Rolled back" holds for the users at least: the lists of all that others
\* have left alone are as they were, unless a statement of the rollback
\* failed, or one before it took effect and failed.
RollbackRestoresLists ==
    at = "rolled back" /\ ~torn =>
        \A u \in Users \ edited : seen[u] # None => user[u].list = seen[u].list

\* No user is ever given a server that is not there, not even between two
\* statements of the script or when it is killed: rows come before lists
\* and go after them.
NoListNamesMissingServer ==
    ~torn => \A u \in Users \ edited : user[u] # None =>
        \A id \in (ToSet(user[u].list) \cap ToSet(Targets)) \ edited : row[id] # None

\* Whatever happens to a script, a list that differs from what it read is in
\* the backup file as it was.
ChangedListsAreBackedUp ==
    \A u \in Users \ edited :
        seen[u] # None /\ user[u].list # seen[u].list => backup # None /\ backup[u] = seen[u].list

\* What the scripts say when they give up, "rolled back": the servers that
\* nobody else has edited are as they were.
RolledBackServersAreAsBefore ==
    at = "rolled back" /\ ~torn => \A id \in ToSet(Own) \ edited : row[id] = prev[id]
=============================================================================
