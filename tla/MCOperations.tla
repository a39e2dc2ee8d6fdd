--------------------------- MODULE MCOperations ---------------------------
(***************************************************************************)
(* Parts of the system that share no state, checked in one run: the rows   *)
(* of servers and clients, the settings of the panel, the quarantine and   *)
(* the chat bot.  `part' says which of them moves, the others stay in an   *)
(* initial state.  Requests are interchangeable.                           *)
(***************************************************************************)
EXTENDS ServerRows, Sequences, TLC

CONSTANTS
    Users, Links,                                           \* PanelSettings
    Paths, Jobs, Admins, MaxFiles,                          \* Quarantine
    Chats, MaxUpdates, MaxAgents, MaxRestarts,              \* TelegramBot
    MaxFaults                                               \* of each part with failures

VARIABLES
    part,
    row, cache, call, jobs, file, meantLinks, overtaken, owed, listEdits, dbFaults,
    root, store, manifest, task, written, replaced, newer, ioFaults, loose,
    sent, confirmed, offset, batch, bot, session, saved, live, made, begins, leaked, failures, restarts

ASSUME ValuesAssumption ==
    /\ IsFiniteSet(Paths) /\ MaxFiles \in Nat
    /\ None \notin Jobs \cup Admins \cup Nat /\ None \notin Requests
    /\ Requests \cap ((Requests \cup {None}) \X Users) = {}

Settings == INSTANCE PanelSettings WITH
                meant <- meantLinks, edits <- listEdits, faults <- dbFaults
Files == INSTANCE Quarantine WITH faults <- ioFaults
Telegram == INSTANCE TelegramBot

settingsVars == <<row, cache, call, jobs, file, meantLinks, overtaken, owed, listEdits, dbFaults>>
filesVars == <<root, store, manifest, task, written, replaced, newer, ioFaults, loose>>
botVars == <<sent, confirmed, offset, batch, bot, session, saved, live, made, begins, leaked, failures, restarts>>

Moves(p) == part = p /\ UNCHANGED part

MCInit ==
    /\ part \in {"rows", "settings", "files", "bot"}
    /\ Init /\ Settings!Init /\ Files!Init /\ Telegram!Init
    /\ part # "rows" => People = {}
    /\ part # "settings" => row = {}
    /\ part # "files" => root = Files!NoFiles

MCNext ==
    \/ Moves("rows") /\ Next /\ UNCHANGED <<settingsVars, filesVars, botVars>>
    \/ Moves("settings") /\ Settings!Next /\ UNCHANGED <<vars, filesVars, botVars>>
    \/ Moves("files") /\ Files!Next /\ UNCHANGED <<vars, settingsVars, botVars>>
    \/ Moves("bot") /\ Telegram!Next /\ UNCHANGED <<vars, settingsVars, filesVars>>

MCSpec == MCInit /\ [][MCNext]_<<part, vars, settingsVars, filesVars, botVars>>

Symmetry == Permutations(Requests)

-----------------------------------------------------------------------------

\* Rebuilds, queued or not, bring the links of the panel into every file
\* (PanelSettings, which says when one may miss them).
LinksReachFiles == part = "settings" => Settings!LinksReachFiles

\* No file is lost, whatever fails, and a completed job can be restored
\* (Quarantine).
FilesAreKept == part = "files" => Files!NothingIsDeleted /\ Files!ListedJobsHoldTheirFiles

\* A rename replaces only files that came after the check (Quarantine).
ReplacesOnlyNewFiles == Files!ReplacesOnlyNewFiles

\* Telegram drops no update the bot has not begun (TelegramBot).
EveryUpdateIsBegun == part = "bot" => Telegram!EveryUpdateIsBegun

\* The agent of a chat is saved and open (TelegramBot).
SessionIsSaved == part = "bot" => Telegram!SessionIsSaved
=============================================================================
