------------------------ MODULE MaintenanceScripts ------------------------
(***************************************************************************)
(* What each maintenance script of scripts/ does, for Maintenance.  A      *)
(* script is three lists of loops: `before', `try', which an exception     *)
(* leaves for `undo', and `after'; `back' takes back what a script without *)
(* --apply has done to check itself.  A loop names what it goes through    *)
(* ("once", "users", "new" and "old" servers, ...) and its statements.     *)
(*                                                                         *)
(* `vip' and `rest' are what a script adds to the list of the one client   *)
(* it tries things on, and of the others, and what it drops; `pick' takes  *)
(* of these the servers that are "on" (or "off"); `own' scripts write      *)
(* other fields of a client; `who' is whom it works on.  The files a       *)
(* script is about are in the comment above its definition.                *)
(***************************************************************************)
EXTENDS Naturals, Sequences

CONSTANTS
    News,     \* servers that scripts give out, or tune
    Olds,     \* servers that they replace, retire or copy
    Others    \* servers no script is about

Servers == News \cup Olds \cup Others

Gives(adds, drops) == [adds |-> adds, drops |-> drops]

Script(who, vip, rest) ==
    [who |-> who, vip |-> vip, rest |-> rest, pick |-> "all", own |-> FALSE,
     before |-> <<>>, try |-> <<>>, after |-> <<>>, undo |-> <<>>, back |-> <<>>,
     hardUndo |-> FALSE]   \* are the calls of the undoing not caught?

Everyone(adds, drops) == Script("all", Gives(adds, drops), Gives(adds, drops))
OnlyVip(adds, drops) == Script("vip", Gives(adds, drops), Gives({}, {}))
VipInsteadOfRest == Script("all", Gives(News, {}), Gives({}, News))
VipNewRestOld == Script("all", Gives(News, Olds), Gives(Olds, News))
VipInsteadOfOld == Script("all", Gives(News, Olds), Gives({}, News \cup Olds))

-----------------------------------------------------------------------------

\* scripts/add-render-fr1-all-clients.mjs
AddRenderFr1 == [Everyone(News, {}) EXCEPT
    !.before = <<<<"once", "users", "servers", "dry", "backupAll">>, <<"new", "save">>>>,
    !.try = <<<<"users", "list", "noteChanged", "file">>, <<"once", "check">>>>,
    !.undo = <<<<"applied", "listBack", "fileBack">>, <<"new", "rowKept">>>>]

\* scripts/add-vless-fr1-relay-all-clients.mjs
AddVlessFr1Relay == [Everyone(News, {}) EXCEPT
    !.before = <<<<"once", "users", "servers", "dry", "backupAll">>, <<"new", "save">>>>,
    !.try = <<<<"users", "list", "noteChanged", "file">>, <<"once", "check">>>>,
    !.undo = <<<<"applied", "listBack", "fileBack">>, <<"new", "rowKept">>>>]

\* scripts/add-pilots-all-users.mjs
AddPilotsAllUsers == [Everyone(News, {}) EXCEPT
    !.before = <<<<"once", "needNewOn", "users", "preview", "dry", "backup">>>>,
    !.try = <<<<"users", "list", "note">>, <<"users", "file">>>>,
    !.undo = <<<<"applied", "listBack", "fileBack">>>>,
    !.after = <<<<"once", "relist", "checkListed">>>>]

\* scripts/rollout-cdn-all-users.mjs
RolloutCdn == [Everyone(News, {}) EXCEPT
    !.before = <<<<"once", "servers">>, <<"new", "save">>, <<"once", "users">>,
                 <<"users", "list", "file">>>>]

\* scripts/deploy-fastly-tm-h3-pilots.mjs
DeployFastlyH3Pilots == [Everyone(News, {}) EXCEPT
    !.before = <<<<"once", "servers", "users", "bodies">>, <<"new", "save">>,
                 <<"once", "preview", "dry", "backup">>>>,
    !.try = <<<<"users", "list", "note">>, <<"users", "file">>>>,
    !.undo = <<<<"applied", "listBack", "fileBack">>>>,
    !.after = <<<<"once", "relist", "checkListed">>>>]

\* scripts/deploy-fastly-tampa-fornex-pilots.mjs
DeployFastlyTampaFornexPilots == [Everyone(News, {}) EXCEPT
    !.before = <<<<"once", "servers", "users", "bodies">>, <<"new", "save">>,
                 <<"once", "preview", "dry", "backup">>>>,
    !.try = <<<<"users", "list", "note">>, <<"users", "file">>>>,
    !.undo = <<<<"applied", "listBack", "fileBack">>>>,
    !.after = <<<<"once", "relist", "checkListed">>>>]

\* scripts/enable-fastly-h2-fallback-all.mjs
EnableFastlyH2Fallback == [Everyone(News, {}) EXCEPT
    !.before = <<<<"once", "users", "servers", "needOld">>, <<"new", "save">>,
                 <<"once", "notePreview", "dryOrFailing", "backupAll">>>>,
    !.try = <<<<"users", "list", "file", "note">>>>,
    !.undo = <<<<"applied", "listBack", "fileBack">>, <<"new", "rowKept">>>>,
    !.back = <<<<"new", "rowKept">>>>]

\* scripts/remove-all-fastly-from-subscriptions.mjs
RemoveAllFastly == [Everyone({}, Olds) EXCEPT
    !.before = <<<<"once", "servers", "users", "needOld">>, <<"old", "retire">>,
                 <<"once", "notePreview", "dryOrFailing", "backupAll">>>>,
    !.try = <<<<"users", "list", "file", "note">>>>,
    !.undo = <<<<"applied", "listBack", "fileBack">>, <<"old", "rowBack">>>>,
    !.back = <<<<"old", "rowBack">>>>]

\* scripts/remove-old-fastly-subscription-lines.mjs
RemoveOldFastly == [Everyone({}, Olds) EXCEPT
    !.before = <<<<"once", "servers", "needOld", "users">>, <<"old", "retire">>,
                 <<"once", "notePreview", "dryOrFailing", "backupAll">>>>,
    !.try = <<<<"users", "list", "note">>, <<"users", "file">>>>,
    !.undo = <<<<"applied", "listBack">>, <<"old", "rowBack">>>>,
    !.back = <<<<"old", "rowBack">>>>]

\* scripts/rollback-fastly-h2-compat.mjs
RollbackFastlyH2 == [Everyone(News, Olds) EXCEPT
    !.who = "holders",
    !.before = <<<<"once", "users", "servers", "needNew", "preview", "dry", "backupAll">>>>,
    !.try = <<<<"users", "list", "file", "note">>, <<"old", "retire">>>>,
    !.undo = <<<<"applied", "listBack", "fileBack">>, <<"old", "rowBack">>>>]

\* scripts/restrict-fastly-tm-h3-to-dayanch.mjs
\* The new servers go to the one client, and away from the others.
RestrictFastly == [VipInsteadOfRest EXCEPT
    !.before = <<<<"once", "users", "needVip", "dry", "servers", "backupAll">>,
                 <<"new", "needItem", "tune">>>>,
    !.try = <<<<"changed", "list", "note">>, <<"changed", "file">>, <<"vip", "file">>>>,
    !.undo = <<<<"applied", "listBack", "fileBack">>, <<"new", "rowBack">>>>,
    !.after = <<<<"once", "relist", "checkLists", "check">>>>]

\* scripts/fix-old-clients-fastly-compat.mjs
\* Some clients get the new servers for the old ones, the rest the old for the new.
FixOldClients == [VipNewRestOld EXCEPT
    !.before = <<<<"once", "servers", "needOld", "users">>, <<"new", "save">>,
                 <<"once", "notePreview", "dryOrFailing", "backupAll">>,
                 <<"changed", "list", "file">>>>,
    !.back = <<<<"new", "rowBack">>>>]

\* scripts/apply-daykoo-tencent-edgeone.mjs
\* The new servers go to the one client; the old ones go.
ApplyDaykoo == [VipInsteadOfOld EXCEPT
    !.before = <<<<"once", "users", "needVip", "servers", "bodies", "dry", "backupAll">>>>,
    !.try = <<<<"new", "save">>, <<"old", "delete">>, <<"changed", "list">>, <<"once", "relist">>,
              <<"relisted", "refile">>, <<"vip", "refile">>, <<"once", "checkVipFile">>>>]

\* scripts/register-bunny-az-dayanch-pilots.mjs
RegisterBunnyAz == [OnlyVip(News, {}) EXCEPT
    !.before = <<<<"once", "users", "needVip", "bodies", "servers", "dry", "backupAll">>>>,
    !.try = <<<<"new", "save">>, <<"once", "preview">>, <<"users", "list", "note", "file">>,
              <<"once", "checkFile", "checkOthers">>>>,
    !.undo = <<<<"applied", "listBack", "fileBack">>, <<"savedAll", "rowBack">>>>]

\* scripts/apply-dayanch-bunny-video-pilot.mjs
ApplyBunnyVideoPilot == [OnlyVip(News, {}) EXCEPT
    !.before = <<<<"once", "users", "needVip", "bodies", "servers", "dry", "backupAll">>>>,
    !.try = <<<<"new", "save">>, <<"once", "preview">>, <<"users", "list", "note", "file">>,
              <<"once", "checkFile", "checkOthers">>>>,
    !.undo = <<<<"applied", "listBack", "fileBack">>, <<"saved", "rowBack">>>>]

\* scripts/apply-dayanch-cloudflare-finalmask-extra.mjs
ApplyFinalmaskExtra == [OnlyVip(News, {}) EXCEPT
    !.before = <<<<"once", "users", "needVip", "bodies", "servers", "dry", "backupAll">>>>,
    !.try = <<<<"new", "save">>, <<"once", "preview">>, <<"users", "list", "note", "file">>,
              <<"once", "checkFile", "checkOthers">>>>,
    !.undo = <<<<"applied", "listBack", "fileBack">>, <<"saved", "rowBack">>>>]

\* scripts/apply-dayanch-cloudflare-finalmask-fr2.mjs
ApplyFinalmaskFr2 == [OnlyVip(News, {}) EXCEPT
    !.before = <<<<"once", "users", "needVip", "bodies", "servers", "dry", "backupAll">>>>,
    !.try = <<<<"new", "save">>, <<"once", "preview">>, <<"users", "list", "note", "file">>,
              <<"once", "checkFile", "checkOthers">>>>,
    !.undo = <<<<"applied", "listBack", "fileBack">>, <<"saved", "rowBack">>>>]

\* scripts/apply-dayanch-android-bunny-compat.mjs
ApplyAndroidCompat == [OnlyVip(News, Olds) EXCEPT
    !.before = <<<<"once", "users", "needVip", "bodies", "servers", "needOldOn", "dry", "backupAll">>>>,
    !.try = <<<<"new", "save">>, <<"once", "preview">>, <<"users", "list", "note", "file">>,
              <<"once", "checkFile", "checkOthers">>>>,
    !.undo = <<<<"savedAll", "rowBack">>, <<"applied", "listBack", "fileBack">>>>]

\* scripts/rollback-dayanch-android-bunny-compat.mjs
RollbackAndroidCompat == [OnlyVip(Olds, News) EXCEPT
    !.before = <<<<"once", "users", "needVip", "servers">>>>,
    !.try = <<<<"new", "delete">>, <<"users", "list", "file">>, <<"once", "check", "checkFile">>>>,
    !.undo = <<<<"new", "rowKept">>, <<"users", "listBack", "fileBack">>>>]

\* scripts/register-cloudflare-fr1-ws-dayanch-pilot.mjs
RegisterCloudflareFr1 == [OnlyVip(News, Olds) EXCEPT
    !.before = <<<<"once", "users", "needVip", "bodies", "servers">>>>,
    !.try = <<<<"new", "save">>, <<"old", "retire">>, <<"users", "list", "file">>,
              <<"once", "check", "checkFile", "checkOthers">>>>,
    !.undo = <<<<"users", "listBack", "fileBack">>, <<"new", "rowOff">>, <<"old", "rowBack">>>>,
    !.hardUndo = TRUE]

\* scripts/register-gcore-fr1-dayanch-pilot.mjs
RegisterGcoreFr1 == [OnlyVip(News, {}) EXCEPT
    !.before = <<<<"once", "users", "needVip", "bodies", "servers">>>>,
    !.try = <<<<"new", "save">>, <<"users", "list", "file">>,
              <<"once", "check", "checkFile", "checkOthers">>>>,
    !.undo = <<<<"users", "listBack", "fileBack">>, <<"new", "rowOff">>>>,
    !.hardUndo = TRUE]

\* scripts/add-dayanch-fr1-bunny-xhttp2-test.mjs
AddFr1BunnyXhttp2 == [OnlyVip(News, {}) EXCEPT
    !.before = <<<<"once", "users", "needVip", "servers", "needOldOn", "dry", "backupAll">>>>,
    !.try = <<<<"new", "save">>, <<"once", "preview">>, <<"users", "list", "note", "file">>,
              <<"once", "checkFile">>>>,
    !.undo = <<<<"applied", "listBack", "fileBack">>, <<"new", "rowBack">>>>,
    !.back = <<<<"new", "save">>, <<"once", "notePreview">>, <<"new", "rowBack">>>>]

\* scripts/add-dayanch-bunny-current-edge-test.mjs
AddBunnyCurrentEdge == [OnlyVip(News, {}) EXCEPT
    !.before = <<<<"once", "users", "needVip", "servers", "needOldOn", "dry", "backupAll">>>>,
    !.try = <<<<"new", "save">>, <<"once", "preview">>, <<"users", "list", "note", "file">>,
              <<"once", "checkFile">>>>,
    !.undo = <<<<"applied", "listBack", "fileBack">>, <<"new", "rowBack">>>>]

\* scripts/set-user-bunny-ip-runtime.mjs
SetUserBunnyIp == [OnlyVip({}, {}) EXCEPT
    !.own = TRUE,
    !.before = <<<<"once", "users", "needVip", "servers", "bodies", "dry", "backup">>>>,
    !.try = <<<<"users", "list", "file">>, <<"once", "check">>>>,
    !.undo = <<<<"users", "listBack", "fileBack">>>>]

\* scripts/fix-dayanch-pilot-order.mjs
FixPilotOrder == [OnlyVip(News, Olds) EXCEPT
    !.before = <<<<"once", "users", "needVip", "bodies", "holdsOthers", "holdsNew">>>>,
    !.try = <<<<"users", "list", "file">>, <<"once", "check">>>>,
    !.undo = <<<<"users", "listBack", "fileBack">>>>,
    !.hardUndo = TRUE]

\* scripts/add-pilots-to-dayanch.mjs
AddPilotsToDayanch == [OnlyVip(News, {}) EXCEPT
    !.before = <<<<"once", "users", "needVip", "holdsOthers", "bodies">>>>,
    !.try = <<<<"users", "list", "file">>, <<"once", "check">>>>,
    !.undo = <<<<"users", "listBack", "fileBack">>>>,
    !.hardUndo = TRUE]

\* scripts/update-tencent-edgeone-ip.mjs
UpdateTencentIp == [Everyone({}, {}) EXCEPT
    !.who = "affected",
    !.own = TRUE,
    !.before = <<<<"once", "servers", "users", "dry", "backupAll">>, <<"new", "tune">>,
                 <<"users", "list">>, <<"once", "relist">>, <<"relisted", "refile">>,
                 <<"once", "checkListed">>>>]

\* scripts/apply-tencent-fr1-working-ip.mjs
ApplyTencentFr1 == [Everyone({}, {}) EXCEPT
    !.who = "affected",
    !.own = TRUE,
    !.before = <<<<"once", "servers", "needNew", "users", "dry", "backupAll">>, <<"new", "save">>,
                 <<"users", "list">>, <<"users", "sync">>,
                 <<"once", "relist", "checkListed", "notFailing">>>>]

\* scripts/rollout-bunny-ws-to-xhttp-all-users.mjs
BunnyWsToXhttp == [Everyone({}, {}) EXCEPT
    !.before = <<<<"once", "call", "dry", "servers">>, <<"new", "needItem", "save">>,
                 <<"once", "users", "backupRows">>, <<"users", "file">>, <<"once", "check">>>>]

\* scripts/setup-dayanch-vip-ip-rotation.mjs
VipIpRotation == [OnlyVip({}, {}) EXCEPT
    !.own = TRUE,
    !.before = <<<<"once", "users", "needVip", "call">>, <<"users", "list", "file">>>>]

\* scripts/patch-glb-vps-relay-panel.mjs
PatchGlbRelay == [OnlyVip(News, {}) EXCEPT
    !.before = <<<<"once", "needNew">>, <<"new", "save">>, <<"once", "users", "needVip">>,
                 <<"users", "list", "file">>>>]

\* scripts/restore-dayanch-tampa-line.mjs
RestoreTampaLine == [OnlyVip(News, {}) EXCEPT
    !.before = <<<<"once", "needNew">>, <<"new", "save">>, <<"once", "users", "needVip">>,
                 <<"users", "list", "file">>>>]

\* scripts/setup-glb-vps-pilot.mjs
SetupGlbPilot == [OnlyVip(News, {}) EXCEPT
    !.before = <<<<"once", "servers", "dry">>, <<"new", "save">>, <<"once", "users", "needVip">>,
                 <<"users", "list", "file">>>>]

\* scripts/rollout-worker-tampa-dayanch-pilot.mjs
WorkerTampaPilot == [OnlyVip(News, {}) EXCEPT
    !.before = <<<<"once", "users", "onlyVip", "servers">>, <<"new", "save">>,
                 <<"once", "needVip">>, <<"users", "list", "file">>, <<"once", "check">>>>]

\* scripts/setup-dayanch-vip-dns-test.mjs
VipDnsTest == [OnlyVip(News, Servers \ News) EXCEPT
    !.before = <<<<"once", "servers", "needNew", "users", "needVip">>,
                 <<"users", "list", "file">>>>]

\* scripts/remove-glb-vps-pilot.mjs
RemoveGlbPilot == [OnlyVip({}, Olds) EXCEPT
    !.before = <<<<"once", "servers">>, <<"old", "retire">>, <<"once", "users">>,
                 <<"users", "list", "file">>>>]

\* scripts/shard-tm-users.mjs
ShardTmUsers == [Everyone(News, Servers \ News) EXCEPT
    !.pick = "on",
    !.before = <<<<"once", "servers", "someOn", "dry", "panel", "users">>,
                 <<"users", "list", "file">>>>]

\* scripts/apply-relay-plan-step1-sortorder.mjs
RelayPlanStep1 == [Everyone(News, Servers \ News) EXCEPT
    !.pick = "on",
    !.before = <<<<"once", "servers", "dry">>, <<"new", "tune">>, <<"once", "servers", "users">>,
                 <<"users", "list", "file">>>>]

\* scripts/fix-test-rustemaga.mjs
FixTestUser == [OnlyVip(News, Servers \ News) EXCEPT
    !.pick = "on",
    !.before = <<<<"once", "users", "needVip", "servers", "dry">>, <<"users", "list", "file">>>>]

\* scripts/fix-all-empty-subscriptions.mjs
FixAllEmpty == [Everyone(News, {}) EXCEPT
    !.who = "empty",
    !.pick = "on",
    !.before = <<<<"once", "servers", "users", "dry">>, <<"users", "list", "file">>>>]

\* scripts/fix-user-subscription.mjs
FixUserSubscription == [OnlyVip(News, {}) EXCEPT
    !.pick = "on",
    !.own = TRUE,
    !.before = <<<<"once", "users", "needVip", "servers">>, <<"users", "list">>,
                 <<"once", "nonEmpty">>, <<"users", "file">>>>]

\* scripts/cleanup-subscription-servers.mjs
CleanupServers == [Everyone(News, Servers \ News) EXCEPT
    !.own = TRUE,
    !.before = <<<<"once", "users", "servers", "backupAll">>, <<"new", "enable">>,
                 <<"rest", "retire">>, <<"users", "list", "fileOrNote">>>>]

\* scripts/delete-disabled-panel-servers-only.mjs
DeleteDisabledServers == [Everyone({}, Olds) EXCEPT
    !.pick = "off",
    !.before = <<<<"once", "servers", "users", "backupOver">>, <<"users", "list", "file">>,
                 <<"old", "deleteOff">>, <<"once", "noneOff">>>>]

\* scripts/remove-fr1-tcp-pilot-all-users.mjs
RemoveFr1TcpPilot == [Everyone({}, Olds) EXCEPT
    !.before = <<<<"old", "retire">>, <<"once", "users">>, <<"users", "list", "file">>>>]

\* scripts/disable-cloudflare-profiles.mjs
DisableCloudflareProfiles == [Everyone({}, Olds) EXCEPT
    !.before = <<<<"old", "retire">>, <<"once", "users">>, <<"users", "list", "file">>>>]

\* scripts/disable-worker-tampa-pilot.mjs
DisableWorkerPilot == [Everyone({}, Olds) EXCEPT
    !.before = <<<<"old", "retire">>, <<"once", "users">>, <<"changed", "list", "file">>>>]

\* scripts/refresh-all-happ-privacy.mjs
RefreshHappPrivacy == [Everyone({}, {}) EXCEPT
    !.own = TRUE,
    !.before = <<<<"once", "panel", "users">>, <<"caught", "list", "file">>,
                 <<"once", "notFailing">>>>]

\* scripts/enable-levospeed-happ-proxy.mjs
EnableHappProxy == [Everyone({}, {}) EXCEPT
    !.own = TRUE,
    !.before = <<<<"once", "panel", "users">>, <<"caught", "list", "file">>,
                 <<"once", "notFailing">>>>]

\* scripts/apply-levospeed-domain.mjs
ApplyLevospeedDomain == [Everyone({}, {}) EXCEPT
    !.own = TRUE,
    !.before = <<<<"once", "panel", "users">>, <<"users", "file", "list">>>>]

\* scripts/fix-dayanch-sub-refresh.mjs
FixSubRefresh == [OnlyVip({}, {}) EXCEPT
    !.own = TRUE,
    !.before = <<<<"once", "panel", "users">>, <<"users", "list", "file">>>>]

\* scripts/enable-dayanch-manual-settings.mjs
EnableManualSettings == [OnlyVip({}, {}) EXCEPT
    !.own = TRUE,
    !.before = <<<<"once", "users", "needVip">>, <<"users", "list", "file">>>>]

\* scripts/disable-dayanch-manual-settings.mjs
DisableManualSettings == [OnlyVip({}, {}) EXCEPT
    !.own = TRUE,
    !.before = <<<<"once", "users", "needVip">>, <<"users", "list", "file">>>>]

\* scripts/enable-happ-android-compat-user.mjs
EnableAndroidCompat == [OnlyVip({}, {}) EXCEPT
    !.own = TRUE,
    !.before = <<<<"once", "users", "needVip", "backup">>, <<"users", "list", "file">>>>]

\* scripts/disable-happ-android-compat-user.mjs
DisableAndroidCompat == [OnlyVip({}, {}) EXCEPT
    !.own = TRUE,
    !.before = <<<<"once", "users", "needVip", "backup">>, <<"users", "list", "file">>>>]

\* scripts/refresh-all-subscriptions.mjs
RefreshAll == [Everyone({}, {}) EXCEPT
    !.own = TRUE,
    !.before = <<<<"once", "users">>, <<"users", "list", "file">>>>]

\* scripts/refresh-all-subscriptions-sort.mjs
RefreshAllSort == [Everyone({}, {}) EXCEPT
    !.before = <<<<"once", "users">>, <<"caught", "file">>>>]

\* scripts/rollback-infra-state.mjs
\* The snapshot is one with the old servers.
RollbackInfra == [Everyone(Olds, News) EXCEPT
    !.before = <<<<"once", "users">>, <<"users", "users", "list", "file">>, <<"once", "call">>>>]

\* scripts/clear-extra-subscription-lines.mjs
ClearExtraLines == [Everyone({}, {}) EXCEPT
    !.own = TRUE,
    !.before = <<<<"once", "users", "backup", "panel">>, <<"users", "list">>,
                 <<"users", "sync">>>>]

\* scripts/restore-deduped-extra-subscription-lines.mjs
RestoreExtraLines == [Everyone({}, {}) EXCEPT
    !.own = TRUE,
    !.before = <<<<"once", "panel", "users">>, <<"users", "list">>, <<"users", "sync">>>>]

\* scripts/recover-per-user-vps-bundle-lines.mjs
RecoverBundleLines == [Everyone({}, {}) EXCEPT
    !.own = TRUE,
    !.before = <<<<"once", "users", "dry", "panel">>, <<"users", "list">>, <<"users", "sync">>>>]

\* scripts/remove-germany-vless-tcp-lines.mjs
RemoveGermanyLines == [Everyone({}, {}) EXCEPT
    !.own = TRUE,
    !.before = <<<<"once", "users">>, <<"changed", "list">>, <<"once", "backup">>,
                 <<"changed", "sync">>>>]

\* scripts/register-vps-bundle-links.mjs
RegisterBundleLinks == [Everyone({}, {}) EXCEPT
    !.own = TRUE,
    !.before = <<<<"once", "users", "backup">>>>,
    !.try = <<<<"users", "list", "noteChanged", "file">>, <<"once", "panel">>>>,
    !.undo = <<<<"applied", "listBack", "fileBack">>>>]

\* scripts/remove-retired-vps-bundle-lines.mjs
RemoveRetiredBundle == [Everyone({}, {}) EXCEPT
    !.own = TRUE,
    !.before = <<<<"once", "users", "backup", "dry">>, <<"changed", "list", "file">>,
                 <<"once", "panel">>>>]

\* scripts/repair-vps-bundle-client-links.mjs
RepairBundleLinks == [Everyone({}, {}) EXCEPT
    !.own = TRUE,
    !.before = <<<<"once", "users">>, <<"users", "list", "file">>, <<"once", "panel">>>>]

\* scripts/register-ss-per-user-links.mjs
RegisterSsLinks == [Everyone({}, {}) EXCEPT
    !.own = TRUE,
    !.before = <<<<"once", "users", "backup">>, <<"users", "list", "file">>, <<"once", "panel">>>>]

\* scripts/rollback-ss-per-user-links.mjs
RollbackSsLinks == [Everyone({}, {}) EXCEPT
    !.own = TRUE,
    !.before = <<<<"once", "users">>, <<"changed", "list", "file">>>>]

\* scripts/apply-cdn-legacy-fragment-only.mjs
ApplyCdnFragment == [Everyone({}, {}) EXCEPT
    !.before = <<<<"once", "users", "servers", "needNew", "bodies", "dry", "backupRows">>>>,
    !.try = <<<<"new", "tune">>, <<"once", "sameLines", "check">>, <<"users", "file">>>>,
    !.undo = <<<<"saved", "rowBack">>, <<"users", "fileBack">>>>]

\* scripts/apply-cdn-label-suffixes.mjs
ApplyCdnLabels == [Everyone({}, {}) EXCEPT
    !.before = <<<<"once", "users", "servers", "needNew", "bodies", "dry", "backupRows">>>>,
    !.try = <<<<"new", "tune">>, <<"once", "sameLines">>, <<"users", "file">>>>,
    !.undo = <<<<"saved", "rowBack">>, <<"users", "fileBack">>>>]

\* scripts/rotate-fastly-tm-ip.mjs
RotateFastlyIp == [Everyone({}, {}) EXCEPT
    !.before = <<<<"once", "servers", "users", "needNew">>, <<"new", "tune">>,
                 <<"once", "noteShown", "dryOrFailing", "backupRows">>>>,
    !.try = <<<<"users", "file">>>>,
    !.undo = <<<<"new", "rowBack">>>>,
    !.back = <<<<"new", "rowBack">>>>]

\* scripts/switch-fastly-tm-edge-ip.mjs
SwitchFastlyIp == [Script("affected", Gives({}, {}), Gives({}, {})) EXCEPT
    !.before = <<<<"once", "servers", "needNew", "users", "dry", "backupRows">>>>,
    !.try = <<<<"new", "tune">>, <<"once", "shown">>, <<"users", "file">>>>,
    !.undo = <<<<"new", "rowBack">>>>,
    !.hardUndo = TRUE]

\* scripts/fix-fastly-tm-names-fr2-path.mjs
FixFastlyNames == [Script("affected", Gives({}, {}), Gives({}, {})) EXCEPT
    !.before = <<<<"once", "servers">>, <<"new", "needItem", "tune">>,
                 <<"once", "users", "noteShown", "dry", "notFailing">>, <<"users", "file">>>>,
    !.back = <<<<"new", "rowBack">>>>]

\* scripts/update-fr2-fastly-v13-metadata.mjs
UpdateFr2Metadata == [Everyone({}, {}) EXCEPT
    !.before = <<<<"once", "servers", "needNew", "dry", "backupRows">>, <<"new", "tune">>>>]

\* scripts/update-fastly-active-version.mjs
UpdateFastlyVersion == [Everyone({}, {}) EXCEPT
    !.before = <<<<"once", "servers", "needNew", "dry">>, <<"new", "tune">>>>]

\* scripts/apply-mobile-cdn-priority.mjs
ApplyMobilePriority == [Everyone({}, {}) EXCEPT
    !.before = <<<<"once", "servers", "needNewOn", "dry", "backupRows">>, <<"new", "tune">>>>]

\* scripts/update-tencent-direct-origins.mjs
UpdateTencentOrigins == [Everyone({}, {}) EXCEPT
    !.before = <<<<"once", "servers", "dry", "backupRows">>, <<"new", "tune">>,
                 <<"once", "users">>, <<"users", "file">>>>]

\* scripts/update-alibaba-direct-origins.mjs
UpdateAlibabaOrigins == [Everyone({}, {}) EXCEPT
    !.before = <<<<"once", "servers", "dry", "backupRows">>, <<"new", "tune">>,
                 <<"once", "users">>, <<"users", "file">>>>]

\* scripts/rollback-cdn-finalmask-only.mjs
\* The servers as they are in a backup file.
RollbackCdnFinalmask == [Everyone({}, {}) EXCEPT
    !.before = <<<<"once", "users", "bodies", "dry">>, <<"new", "save">>, <<"once", "sameLines">>,
                 <<"users", "file">>>>]

\* scripts/register-standalone-pilots.mjs
RegisterStandalone == [Everyone({}, {}) EXCEPT
    !.before = <<<<"once", "users", "bodies", "servers", "dry">>, <<"new", "save">>,
                 <<"old", "retire">>, <<"once", "sameBodies">>>>]

\* scripts/switch-dayanch-nl-bunny-xhttp.mjs
SwitchNlToXhttp == [OnlyVip(News, {}) EXCEPT
    !.before = <<<<"once", "servers", "users", "needNew", "needVip", "onlyVip", "dry">>>>,
    !.try = <<<<"new", "tune">>, <<"once", "relist">>, <<"vip", "refile">>,
              <<"once", "checkVipFile">>>>,
    !.undo = <<<<"new", "rowBack">>, <<"vip", "fileBack">>>>,
    !.hardUndo = TRUE]

\* scripts/find-best-masked-ip.mjs
FindBestIp == [Everyone({}, {}) EXCEPT
    !.before = <<<<"once", "servers", "someOn", "call", "dry", "panel">>, <<"newOn", "tune">>,
                 <<"once", "users">>, <<"users", "file">>>>]

\* scripts/apply-single-masked-ip.mjs
ApplySingleIp == [Everyone({}, {}) EXCEPT
    !.before = <<<<"once", "panel", "servers">>, <<"newOn", "tune">>, <<"once", "users">>,
                 <<"users", "file">>>>]

\* scripts/apply-tm-single-ip.mjs
ApplyTmSingleIp == [Everyone({}, {}) EXCEPT
    !.before = <<<<"new", "tune">>, <<"once", "panel", "users">>, <<"users", "file">>>>]

\* scripts/restore-all-nodes-in-subscription.mjs
RestoreAllNodes == [Everyone({}, {}) EXCEPT
    !.before = <<<<"once", "servers">>, <<"newOn", "tune">>, <<"once", "users">>,
                 <<"users", "file">>, <<"once", "call">>>>]

\* scripts/rename-de3-to-usa.mjs
RenameDe3 == [OnlyVip({}, {}) EXCEPT
    !.before = <<<<"once", "needNew">>, <<"new", "tune">>, <<"once", "users">>,
                 <<"vip", "file">>>>]

\* scripts/clear-server-hosts.mjs
ClearHosts == [Everyone({}, {}) EXCEPT !.before = <<<<"new", "tune">>>>]

\* scripts/patch-tampa-relay-panel.mjs
PatchTampaRelay == [Everyone({}, {}) EXCEPT
    !.before = <<<<"once", "needNew">>, <<"new", "tune">>>>]

\* scripts/seed-pool-servers.mjs
SeedPool == [Everyone({}, {}) EXCEPT !.before = <<<<"new", "save">>>>]

\* scripts/stability-disable-orphans.mjs
DisableOrphans == [Everyone({}, {}) EXCEPT !.before = <<<<"old", "retire">>>>]

\* scripts/remove-sg-stubs.mjs
RemoveStubs == [Everyone({}, {}) EXCEPT !.before = <<<<"old", "retire", "delete">>>>]

\* scripts/publish-shared-ss-all-clients.mjs
PublishSharedSs == [Everyone({}, {}) EXCEPT
    !.before = <<<<"once", "users", "backupPanel">>>>,
    !.try = <<<<"once", "panel">>, <<"users", "file">>>>,
    !.undo = <<<<"once", "panelBack">>>>]

\* scripts/disable-happ-warning.mjs
DisableHappWarning == [Everyone({}, {}) EXCEPT
    !.before = <<<<"once", "panel", "users">>, <<"caught", "file">>>>]

\* scripts/fix-remove-happ-proxy-banner.mjs
RemoveHappBanner == [Everyone({}, {}) EXCEPT
    !.before = <<<<"once", "panel", "users">>, <<"caught", "file">>>>]

\* scripts/fix-subscription-base-url-render.mjs
BaseUrlRender == [Everyone({}, {}) EXCEPT
    !.before = <<<<"once", "panel", "users">>, <<"users", "file">>>>]

\* scripts/restore-levospeed-subscription-base.mjs
BaseUrlLevospeed == [Everyone({}, {}) EXCEPT
    !.before = <<<<"once", "panel", "users">>, <<"users", "file">>>>]

\* scripts/fix-tm-info-host.mjs
SetTmInfoHost == [Everyone({}, {}) EXCEPT
    !.before = <<<<"once", "panel", "users">>, <<"users", "file">>>>]

\* scripts/switch-connection-mode.mjs
SwitchConnectionMode == [Everyone({}, {}) EXCEPT
    !.before = <<<<"once", "panel", "users">>, <<"users", "file">>>>]

\* scripts/apply-subscription-7-nl-de.mjs
ApplyNlDe == [Everyone({}, {}) EXCEPT
    !.before = <<<<"once", "panel", "users">>, <<"users", "file">>>>]

\* scripts/set-info-row-host.mjs
SetInfoHost == [Everyone({}, {}) EXCEPT !.before = <<<<"once", "panel">>>>]

\* scripts/restore-shared-ss-fallback.mjs
RestoreSsFallback == [Everyone({}, {}) EXCEPT !.before = <<<<"once", "panel">>>>]

\* scripts/refresh-all-subs-tcp-path.mjs
RefreshTcpPath == [Everyone({}, {}) EXCEPT
    !.before = <<<<"once", "users">>, <<"caught", "file">>>>]

\* scripts/refresh-warm-bonus-subs.mjs
RefreshWarmBonus == [Everyone({}, {}) EXCEPT
    !.before = <<<<"once", "users">>, <<"users", "file">>>>]

\* scripts/refresh-user-subscription-safe.mjs
RefreshSafe == [OnlyVip({}, {}) EXCEPT
    !.before = <<<<"once", "users", "needVip">>, <<"vip", "file">>>>]

\* scripts/refresh-dayanch-finalmask-publication.mjs
RefreshFinalmask == [OnlyVip(News, {}) EXCEPT
    !.before = <<<<"once", "users", "needVip", "relist">>, <<"vip", "refile">>,
                 <<"once", "checkVipFile">>>>]

\* scripts/fix-amal-full.mjs
FixAmal == [OnlyVip({}, {}) EXCEPT
    !.before = <<<<"once", "users", "needVip">>, <<"vip", "file">>, <<"once", "call">>>>]

\* scripts/fix-user-relay-full.mjs
FixUserRelay == [OnlyVip({}, {}) EXCEPT
    !.before = <<<<"once", "users", "needVip">>, <<"vip", "file">>, <<"once", "call">>>>]

\* scripts/fix-user-by-id.mjs
FixUserById == [OnlyVip({}, {}) EXCEPT
    !.before = <<<<"once", "users", "needVip">>, <<"vip", "file">>>>]

\* scripts/restore-token-hashes-and-provider.mjs
RestoreTokenHashes == [Everyone({}, {}) EXCEPT
    !.own = TRUE,
    !.before = <<<<"once", "users">>, <<"changed", "list", "file">>, <<"once", "panel">>>>]

-----------------------------------------------------------------------------

Scripts ==
    [AddRenderFr1 |-> AddRenderFr1, AddVlessFr1Relay |-> AddVlessFr1Relay, AddPilotsAllUsers |->
     AddPilotsAllUsers, RolloutCdn |-> RolloutCdn, DeployFastlyH3Pilots |->
     DeployFastlyH3Pilots, DeployFastlyTampaFornexPilots |-> DeployFastlyTampaFornexPilots,
     EnableFastlyH2Fallback |-> EnableFastlyH2Fallback, RemoveAllFastly |-> RemoveAllFastly,
     RemoveOldFastly |-> RemoveOldFastly, RollbackFastlyH2 |-> RollbackFastlyH2, RestrictFastly
     |-> RestrictFastly, FixOldClients |-> FixOldClients, ApplyDaykoo |-> ApplyDaykoo,
     RegisterBunnyAz |-> RegisterBunnyAz, ApplyBunnyVideoPilot |-> ApplyBunnyVideoPilot,
     ApplyFinalmaskExtra |-> ApplyFinalmaskExtra, ApplyFinalmaskFr2 |-> ApplyFinalmaskFr2,
     ApplyAndroidCompat |-> ApplyAndroidCompat, RollbackAndroidCompat |-> RollbackAndroidCompat,
     RegisterCloudflareFr1 |-> RegisterCloudflareFr1, RegisterGcoreFr1 |-> RegisterGcoreFr1,
     AddFr1BunnyXhttp2 |-> AddFr1BunnyXhttp2, AddBunnyCurrentEdge |-> AddBunnyCurrentEdge,
     SetUserBunnyIp |-> SetUserBunnyIp, FixPilotOrder |-> FixPilotOrder, AddPilotsToDayanch |->
     AddPilotsToDayanch, UpdateTencentIp |-> UpdateTencentIp, ApplyTencentFr1 |->
     ApplyTencentFr1, BunnyWsToXhttp |-> BunnyWsToXhttp, VipIpRotation |-> VipIpRotation,
     PatchGlbRelay |-> PatchGlbRelay, RestoreTampaLine |-> RestoreTampaLine, SetupGlbPilot |->
     SetupGlbPilot, WorkerTampaPilot |-> WorkerTampaPilot, VipDnsTest |-> VipDnsTest,
     RemoveGlbPilot |-> RemoveGlbPilot, ShardTmUsers |-> ShardTmUsers, RelayPlanStep1 |->
     RelayPlanStep1, FixTestUser |-> FixTestUser, FixAllEmpty |-> FixAllEmpty,
     FixUserSubscription |-> FixUserSubscription, CleanupServers |-> CleanupServers,
     DeleteDisabledServers |-> DeleteDisabledServers, RemoveFr1TcpPilot |-> RemoveFr1TcpPilot,
     DisableCloudflareProfiles |-> DisableCloudflareProfiles, DisableWorkerPilot |->
     DisableWorkerPilot, RefreshHappPrivacy |-> RefreshHappPrivacy, EnableHappProxy |->
     EnableHappProxy, ApplyLevospeedDomain |-> ApplyLevospeedDomain, FixSubRefresh |->
     FixSubRefresh, EnableManualSettings |-> EnableManualSettings, DisableManualSettings |->
     DisableManualSettings, EnableAndroidCompat |-> EnableAndroidCompat, DisableAndroidCompat
     |-> DisableAndroidCompat, RefreshAll |-> RefreshAll, RefreshAllSort |-> RefreshAllSort,
     RollbackInfra |-> RollbackInfra, ClearExtraLines |-> ClearExtraLines, RestoreExtraLines |->
     RestoreExtraLines, RecoverBundleLines |-> RecoverBundleLines, RemoveGermanyLines |->
     RemoveGermanyLines, RegisterBundleLinks |-> RegisterBundleLinks, RemoveRetiredBundle |->
     RemoveRetiredBundle, RepairBundleLinks |-> RepairBundleLinks, RegisterSsLinks |->
     RegisterSsLinks, RollbackSsLinks |-> RollbackSsLinks, ApplyCdnFragment |->
     ApplyCdnFragment, ApplyCdnLabels |-> ApplyCdnLabels, RotateFastlyIp |-> RotateFastlyIp,
     SwitchFastlyIp |-> SwitchFastlyIp, FixFastlyNames |-> FixFastlyNames, UpdateFr2Metadata |->
     UpdateFr2Metadata, UpdateFastlyVersion |-> UpdateFastlyVersion, ApplyMobilePriority |->
     ApplyMobilePriority, UpdateTencentOrigins |-> UpdateTencentOrigins, UpdateAlibabaOrigins
     |-> UpdateAlibabaOrigins, RollbackCdnFinalmask |-> RollbackCdnFinalmask, RegisterStandalone
     |-> RegisterStandalone, SwitchNlToXhttp |-> SwitchNlToXhttp, FindBestIp |-> FindBestIp,
     ApplySingleIp |-> ApplySingleIp, ApplyTmSingleIp |-> ApplyTmSingleIp, RestoreAllNodes |->
     RestoreAllNodes, RenameDe3 |-> RenameDe3, ClearHosts |-> ClearHosts, PatchTampaRelay |->
     PatchTampaRelay, SeedPool |-> SeedPool, DisableOrphans |-> DisableOrphans, RemoveStubs |->
     RemoveStubs, PublishSharedSs |-> PublishSharedSs, DisableHappWarning |->
     DisableHappWarning, RemoveHappBanner |-> RemoveHappBanner, BaseUrlRender |-> BaseUrlRender,
     BaseUrlLevospeed |-> BaseUrlLevospeed, SetTmInfoHost |-> SetTmInfoHost,
     SwitchConnectionMode |-> SwitchConnectionMode, ApplyNlDe |-> ApplyNlDe, SetInfoHost |->
     SetInfoHost, RestoreSsFallback |-> RestoreSsFallback, RefreshTcpPath |-> RefreshTcpPath,
     RefreshWarmBonus |-> RefreshWarmBonus, RefreshSafe |-> RefreshSafe, RefreshFinalmask |->
     RefreshFinalmask, FixAmal |-> FixAmal, FixUserRelay |-> FixUserRelay, FixUserById |->
     FixUserById, RestoreTokenHashes |-> RestoreTokenHashes]

-----------------------------------------------------------------------------
(* What can be said of a script without running it *)

\* Its loops, if it is not stopped.
Course(t) == t.before \o t.try \o t.after

\* Where it has its statements.
Places(loops) == UNION {{<<k, j>> : j \in 2..Len(loops[k])} : k \in DOMAIN loops}
Does(loops, ss) == \E p \in Places(loops) : loops[p[1]][p[2]] \in ss
Never(t, ss) == \A loops \in {Course(t), t.undo, t.back} : ~Does(loops, ss)
LoopDoes(loop, ss) == \E j \in 2..Len(loop) : loop[j] \in ss
Earlier(p, q) == p[1] < q[1] \/ (p[1] = q[1] /\ p[2] < q[2])

ListBackups == {"backup", "backupAll"}
RowBackups == {"backupRows", "backupAll"}
Backups == {"backup", "backupRows", "backupAll", "backupOver"}
Notes == {"note", "noteChanged"}
ListWrites == {"list", "listBack"}
FileWrites == {"file", "fileOrNote", "refile", "sync"}
RowWrites == {"save", "tune", "retire", "enable", "delete", "deleteOff",
              "rowBack", "rowKept", "rowOff"}
UserLoops == {"users", "caught", "changed", "vip", "applied"}
RowLoops == {"new", "newOn", "old", "rest"}
AllLoops == UserLoops \cup RowLoops \cup {"once", "relisted", "saved", "savedAll"}

\* Every loop has a statement.  One that writes or notes a client goes through
\* clients, one that writes a server through servers.  Undoing reads and notes
\* nothing.
IsScript(t) ==
    /\ t.who \in {"all", "vip", "affected", "holders", "empty"}
    /\ t.vip.adds \cup t.rest.adds \subseteq Servers
    /\ \A loops \in {t.before, t.try, t.after, t.undo, t.back} :
          /\ loops \in Seq(Seq(STRING))
          /\ \A k \in DOMAIN loops : Len(loops[k]) >= 2
    /\ \A loops \in {Course(t), t.undo, t.back} : \A k \in DOMAIN loops :
          /\ loops[k][1] \in AllLoops
          /\ LoopDoes(loops[k], ListWrites \cup Notes) => loops[k][1] \in UserLoops
          /\ LoopDoes(loops[k], RowWrites) => loops[k][1] \in RowLoops \cup {"saved", "savedAll"}
    /\ \A k \in DOMAIN Course(t) :
          LoopDoes(Course(t)[k], RowWrites) => Course(t)[k][1] \in RowLoops
    /\ \A loops \in {t.undo, t.back} :
          ~Does(loops, {"users", "servers", "dry", "dryOrFailing", "list"} \cup Notes)
    /\ ~Does(t.back, {"listBack"})

\* At p it does s for certain: no exception before that is caught in the
\* same loop.
Certain(loops, p, s) ==
    /\ p \in Places(loops)
    /\ loops[p[1]][p[2]] = s
    /\ loops[p[1]][1] = "once"
    /\ \A j \in 2..p[2] : loops[p[1]][j] \notin {"sync", "fileOrNote"}

\* It keeps at p what it has read at q, and has written none of it before.
KeepsFirst(t, p, q, read, keep, writes) ==
    /\ Certain(t.before, q, read) /\ Certain(t.before, p, keep) /\ Earlier(q, p)
    /\ \A r \in Places(t.before) : Earlier(r, p) => t.before[r[1]][r[2]] \notin writes
    /\ ~Does(t.back, writes)

\* The loops whose exceptions it undoes, and those before them.
Undoable(t) == 1..Len(t.before) + Len(t.try)

\* It notes each client as changed right after writing their list, and undoes
\* those; or it undoes all those it works on, and has written no others.
UndoesNoted(t) ==
    /\ \A r \in Places(Course(t)) : LET loop == Course(t)[r[1]] IN
          r[1] \in Undoable(t) /\ loop[r[2]] \in ListWrites =>
              loop[r[2]] = "list" /\ r[2] < Len(loop) /\ loop[r[2] + 1] \in Notes
    /\ \E k \in DOMAIN t.undo : t.undo[k][1] = "applied" /\ LoopDoes(t.undo[k], {"listBack"})
UndoesSelected(t) ==
    /\ t.who # "empty"
    /\ \A k \in Undoable(t) :
          LoopDoes(Course(t)[k], ListWrites) => Course(t)[k][1] \in {"users", "caught", "changed"}
    /\ \A k \in Undoable(t) : LoopDoes(Course(t)[k], {"users"}) => Course(t)[k][1] = "once"
    /\ \E k \in DOMAIN t.undo : t.undo[k][1] = "users" /\ LoopDoes(t.undo[k], {"listBack"})

\* Without --apply it stops before it writes a list.
UndoesLists(t) ==
    /\ \A k \in DOMAIN Course(t) : LoopDoes(Course(t)[k], {"dry", "dryOrFailing"}) =>
          \A h \in 1..k : ~LoopDoes(Course(t)[h], ListWrites)
    /\ t.undo # <<>> =>
          \/ \A k \in Undoable(t) : ~LoopDoes(Course(t)[k], ListWrites)
          \/ UndoesNoted(t)
          \/ UndoesSelected(t)

\* Servers it writes back: rowKept does that if it has created none.
WritesBack(t) ==
    IF \E loops \in {Course(t), t.undo, t.back} : Does(loops, {"save", "rowOff"})
    THEN {"rowBack"} ELSE {"rowBack", "rowKept"}
Covers(over, back, together) ==
    \/ back = "saved"
    \/ back = "old" /\ over = "old"
    \/ back = "new" /\ over \in {"new", "newOn"}
    \/ back = "savedAll" /\ over \in {"new", "newOn"} /\ together

\* Every loop that writes servers has one of the undoing that writes them back.
UndoesRows(t, together) ==
    LET back == WritesBack(t)
        Undoes(loops, k) ==
            LoopDoes(Course(t)[k], RowWrites) =>
                \E h \in DOMAIN loops :
                    Covers(Course(t)[k][1], loops[h][1], together) /\ LoopDoes(loops[h], back)
    IN /\ t.undo # <<>> => \A k \in Undoable(t) : Undoes(t.undo, k)
       /\ \A k \in DOMAIN Course(t) : LoopDoes(Course(t)[k], {"dry", "dryOrFailing"}) =>
             \A h \in 1..k : Undoes(t.back, h)
       /\ \A loops \in {t.undo, t.back} : \A k \in DOMAIN loops :
             LoopDoes(loops[k], RowWrites \ {"rowBack", "rowKept"}) =>
                 \E h \in k + 1..Len(loops) :
                     /\ loops[h][1] = loops[k][1] /\ loops[k][1] \in {"new", "old"}
                     /\ LoopDoes(loops[h], back)

\* After loop h, one over `overs' has one of these statements.
Comes(t, h, ss, overs) ==
    \E k \in h + 1..Len(Course(t)) : Course(t)[k][1] \in overs /\ LoopDoes(Course(t)[k], ss)

\* The clients are read at p, before any list or file is written, and what is
\* wanted of them does not change any more: they are read again only where all
\* of them are worked on, servers are not where the lists depend on them.
ReadOnce(t, p) ==
    \A q \in Places(Course(t)) : Course(t)[q[1]][q[2]] = "users" => q = p
Untouched(t) == t.vip = Gives({}, {}) /\ t.rest = Gives({}, {})
ReadsFirst(t, p) ==
    /\ Certain(t.before, p, "users")
    /\ \A k \in DOMAIN Course(t) : LET loop == Course(t)[k] IN
          /\ LoopDoes(loop, {"list"} \cup FileWrites) => k > p[1]
          /\ LoopDoes(loop, {"list"}) => loop[1] \in {"users", "caught", "changed"}
          /\ t.pick # "all" /\ LoopDoes(loop, {"servers"}) => k <= p[1]
          /\ t.pick # "all" => loop[1] # "changed"
    /\ ~Does(Course(t), {"listBack", "fileBack", "panelBack"})
    /\ Does(Course(t), {"list"}) =>
          Comes(t, p[1], {"list"}, {"users", "caught", "changed"})
    /\ \/ ReadOnce(t, p)
       \/ /\ t.who = "all"
          /\ \A k \in DOMAIN Course(t) : Course(t)[k][1] \notin {"changed", "relisted"}

\* It works on the same clients when it is run again, or on those it has not
\* come to.
KeepsSelection(t, p) ==
    /\ t.who = "affected" => Untouched(t)
    /\ t.who = "holders" => t.pick = "all"
    /\ t.who = "empty" =>
          /\ \A loops \in {Course(t), t.undo, t.back} :
                ~Does(loops, RowWrites \cup {"panel", "panelBack"})
          /\ \E q \in Places(t.before) : Certain(t.before, q, "servers") /\ q[1] <= p[1]

\* The servers a loop goes through.
ServersOf(over) ==
    CASE over \in {"new", "newOn"} -> News
      [] over = "old" -> Olds
      [] over = "rest" -> Servers \ News

\* No client has what loop h writes, once their list is as it is wanted.
Spares(t, vip, h) ==
    LET change == IF vip THEN t.vip ELSE t.rest
    IN /\ Does(Course(t), {"list"})
       /\ ServersOf(Course(t)[h][1]) \subseteq change.drops \ change.adds
       /\ \/ t.pick = "all"
          \/ t.pick = "off" /\ ~LoopDoes(Course(t)[h], RowWrites \ {"deleteOff"})

\* After loop h the clients are listed again, and get files made of that.
Relists(t, h) ==
    \E r, k \in h + 1..Len(Course(t)) :
        /\ r < k /\ Course(t)[r] = <<"once", "relist">>
        /\ Course(t)[k][1] = "relisted" /\ LoopDoes(Course(t)[k], {"refile"})

\* After loop h a file is made of each client it works on: of the one client
\* (vip), or of the others.
Follows(t, h, vip) ==
    \/ Comes(t, h, FileWrites, {"users", "caught"} \cup IF vip THEN {"vip"} ELSE {})
    \/ Relists(t, h)

\* Clients whose list is as it is wanted may be passed over by a script that
\* is run once, if nothing it writes is in their files.
PassesOver(t, p, vip, last) ==
    /\ t.pick = "all"
    /\ Comes(t, p[1], FileWrites, {"changed"})
    /\ \A h \in DOMAIN Course(t) : LoopDoes(Course(t)[h], RowWrites) => Spares(t, vip, h)
    /\ Does(Course(t), {"panel"}) => last

\* Whoever has been read gets a file, after whatever it is made of has been
\* written.
FilesFollow(t, p, vip, passes, last) ==
    /\ t.who \in {"holders", "empty"} => passes
    /\ Follows(t, p[1], vip) \/ (passes /\ PassesOver(t, p, vip, last))
    /\ \A h \in DOMAIN Course(t) : LET loop == Course(t)[h] IN
          /\ h > p[1] /\ LoopDoes(loop, RowWrites) => Follows(t, h, vip) \/ Spares(t, vip, h)
          /\ h >= p[1] /\ LoopDoes(loop, {"panel"}) => Follows(t, h, vip) \/ last
          /\ loop[1] = "relisted" => Relists(t, p[1])

\* What a file is made of is what the client has in the end.
FilesAreMade(t, p) ==
    LET course == Course(t)
        ListsBefore(k) == \A h \in DOMAIN course : LoopDoes(course[h], {"list"}) => h < k
    IN /\ Does(course, {"file", "fileOrNote"}) /\ ~Does(course, {"list"}) =>
             Untouched(t) /\ ~t.own
       /\ \A k \in DOMAIN course :
             /\ LoopDoes(course[k], {"sync"}) => ListsBefore(k)
             /\ LoopDoes(course[k], {"refile"}) =>
                   \E r \in Places(course) :
                       /\ course[r[1]][r[2]] = "relist" /\ course[r[1]][1] = "once"
                       /\ Earlier(p, r) /\ r[1] < k /\ ListsBefore(r[1])
                       /\ \A q \in Places(course) : course[q[1]][q[2]] = "relist" => q = r
             /\ course[k][1] = "relisted" => t.who \in {"all", "vip", "affected"}
=============================================================================
