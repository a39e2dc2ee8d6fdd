---------------------------- MODULE TelegramBot ----------------------------
(***************************************************************************)
(* The chat bot (lib/telegram-cursor-bot.js): one loop fetches updates     *)
(* from Telegram and handles them in turn.  A chat has at most one agent   *)
(* at work, in a session in memory; the agent to go on with later is saved *)
(* in a file (lib/telegram-cursor-sessions-store.js), which outlives a     *)
(* restart.  Telegram drops an update when a later one is asked for.       *)
(*                                                                         *)
(* Calls of Telegram, of the agents and of the file may fail.              *)
(***************************************************************************)
EXTENDS Naturals, Sequences, FiniteSets

CONSTANTS
    Chats,
    MaxUpdates, MaxAgents,   \* bounds on the updates sent, agents created
    MaxFaults, MaxRestarts,
    None

VARIABLES
    sent,        \* every update there was: its chat and what it asks
    confirmed,   \* updates that Telegram has dropped
    offset, batch,
    bot,         \* what the loop does, for which chat, with which agent
    session, saved,
    live,        \* agents that are open
    made,        \* agents created
    begins,       \* how often each update has been begun
    leaked,      \* agents that could not be saved when they were created
    failures, restarts

telegram == <<sent, confirmed>>
loop == <<offset, batch, begins>>
agents == <<live, made, leaked>>
vars == <<telegram, loop, bot, session, saved, agents, failures, restarts>>

-----------------------------------------------------------------------------

\* "other" stands for the commands, and the chats that are not allowed.
Kinds == {"new", "resume", "stop", "text", "other"}
Stages == {"poll", "next", "dispose", "create", "resume", "clear", "attach", "prompt"}
Polling == [at |-> "poll", chat |-> None, for |-> "other", agent |-> None]
Chat == bot.chat
At(stage) == bot.at = stage
Go(stage) == bot' = [bot EXCEPT !.at = stage]

Init ==
    /\ sent = <<>> /\ confirmed = 0
    /\ offset = 0 /\ batch = <<>> /\ begins = <<>>
    /\ bot = Polling
    /\ session = [c \in Chats |-> None] /\ saved = [c \in Chats |-> None]
    /\ live = {} /\ made = 0 /\ leaked = {}
    /\ failures = 0 /\ restarts = 0

Fault == failures < MaxFaults /\ failures' = failures + 1
NoFault == failures' = failures

\* An error of a handler ends the batch.
DropBatch == bot' = Polling /\ batch' = <<>> /\ UNCHANGED <<offset, begins>>

\* Done with an update; telling the chat may fail.
Done ==
    \/ bot' = [Polling EXCEPT !.at = "next"] /\ UNCHANGED loop /\ NoFault
    \/ DropBatch /\ Fault

\* What failed is caught, and the chat is told, which may fail as well.
Caught == Fault /\ (DropBatch \/ (bot' = [Polling EXCEPT !.at = "next"] /\ UNCHANGED loop))

-----------------------------------------------------------------------------
(* The loop *)

\* External: somebody writes to the bot.
Send(c, kind) ==
    /\ Len(sent) < MaxUpdates
    /\ sent' = Append(sent, [chat |-> c, kind |-> kind])
    /\ begins' = Append(begins, 0)
    /\ UNCHANGED <<confirmed, offset, batch, bot, session, saved, agents, failures, restarts>>

\* getTelegramUpdates: what is before the offset is confirmed by it,
\* whatever becomes of the answer.
From == IF offset > confirmed THEN offset ELSE confirmed + 1

Fetch ==
    /\ At("poll")
    /\ confirmed' = From - 1
    /\ \E upto \in From - 1 .. Len(sent) : batch' = [n \in 1 .. upto - From + 1 |-> From + n - 1]
    /\ Go("next")
    /\ UNCHANGED <<sent, offset, begins, session, saved, agents, failures, restarts>>

BatchEnds ==
    /\ At("next") /\ batch = <<>>
    /\ Go("poll")
    /\ UNCHANGED <<telegram, loop, session, saved, agents, failures, restarts>>

Update == sent[Head(batch)]

Entry ==
    CASE Update.kind \in {"new", "stop"} -> "dispose"
      [] Update.kind = "resume" /\ saved[Update.chat] # None -> "dispose"
      [] Update.kind = "text" /\ session[Update.chat] # None -> "prompt"
      [] OTHER -> "next"

\* An offset that confirms the whole batch with its first update ...
OffsetPastBatch == batch[Len(batch)] + 1

\* ... and the one of the code, set before the update is handled.
OffsetPastUpdate == Head(batch) + 1

\* The first answer to the chat may fail.
Begin ==
    /\ At("next") /\ batch # <<>>
    /\ offset' = OffsetPastUpdate
    /\ begins' = [begins EXCEPT ![Head(batch)] = @ + 1]
    /\ \/ /\ bot' = [at |-> Entry, chat |-> IF Entry = "next" THEN None ELSE Update.chat,
                     for |-> IF Entry = "next" THEN "other" ELSE Update.kind, agent |-> None]
          /\ batch' = Tail(batch) /\ NoFault
       \/ bot' = Polling /\ batch' = <<>> /\ Fault
    /\ UNCHANGED <<telegram, session, saved, agents, restarts>>

-----------------------------------------------------------------------------
(* Sessions *)

\* resumeSavedAgent has read the saved agent before.
Found == IF bot.for = "resume" THEN saved[Chat] ELSE None
Then == CASE bot.for = "new" -> "create" [] bot.for = "resume" -> "resume" [] OTHER -> "next"

\* disposeSession: the agent is saved, then closed.
Dispose ==
    /\ At("dispose")
    /\ IF session[Chat] = None THEN UNCHANGED <<session, saved, live>>
       ELSE /\ saved' = [saved EXCEPT ![Chat] = session[Chat]]
            /\ live' = live \ {session[Chat]}
            /\ session' = [session EXCEPT ![Chat] = None]
    /\ IF bot.for = "stop" THEN Done
       ELSE bot' = [bot EXCEPT !.at = Then, !.agent = Found] /\ UNCHANGED loop /\ NoFault
    /\ UNCHANGED <<telegram, made, leaked, restarts>>

\* The file, or Telegram: stopping throws, creating and resuming catch.
DisposeFails ==
    /\ At("dispose")
    /\ IF bot.for = "stop" THEN DropBatch /\ Fault ELSE Caught
    /\ UNCHANGED <<telegram, session, saved, agents, restarts>>

Create ==
    /\ At("create") /\ made < MaxAgents
    /\ made' = made + 1
    /\ live' = live \cup {made + 1}
    /\ bot' = [bot EXCEPT !.at = "attach", !.agent = made + 1]
    /\ UNCHANGED <<telegram, loop, session, saved, leaked, failures, restarts>>

\* Agent.resume; an agent that is not found any more is forgotten.
Resume ==
    /\ At("resume")
    /\ \/ live' = live \cup {bot.agent} /\ Go("attach")
       \/ live' = live /\ Go("clear")
    /\ UNCHANGED <<telegram, loop, session, saved, made, leaked, failures, restarts>>

Clear ==
    /\ At("clear")
    /\ saved' = [saved EXCEPT ![Chat] = None]
    /\ bot' = [bot EXCEPT !.at = "create", !.agent = None]
    /\ UNCHANGED <<telegram, loop, session, agents, failures, restarts>>

\* Opening the session before the agent is saved ...
AttachUnsaved ==
    /\ At("attach")
    /\ saved' = [saved EXCEPT ![Chat] = bot.agent] \/ saved' = saved
    /\ session' = [session EXCEPT ![Chat] = bot.agent]
    /\ Done
    /\ UNCHANGED <<telegram, agents, restarts>>

\* ... and attachAgent, which saves it first.
Attach ==
    /\ At("attach")
    /\ saved' = [saved EXCEPT ![Chat] = bot.agent]
    /\ session' = [session EXCEPT ![Chat] = bot.agent]
    /\ Done
    /\ UNCHANGED <<telegram, agents, restarts>>

\* An agent that is open already and cannot be saved is not closed.
AttachFails ==
    /\ At("attach")
    /\ Caught
    /\ leaked' = leaked \cup {bot.agent}
    /\ UNCHANGED <<telegram, session, saved, live, made, restarts>>

\* runCursorPrompt saves the agent once it has answered.
Prompt ==
    /\ At("prompt")
    /\ saved' = [saved EXCEPT ![Chat] = session[Chat]]
    /\ Done
    /\ UNCHANGED <<telegram, session, agents, restarts>>

\* The agent, or the file.
StepFails ==
    /\ At("create") \/ At("resume") \/ At("clear") \/ At("prompt")
    /\ Caught
    /\ UNCHANGED <<telegram, session, saved, agents, restarts>>

Restart ==
    /\ restarts < MaxRestarts
    /\ restarts' = restarts + 1
    /\ offset' = 0 /\ batch' = <<>> /\ begins' = begins
    /\ bot' = Polling
    /\ session' = [c \in Chats |-> None] /\ live' = {} /\ leaked' = {}
    /\ UNCHANGED <<telegram, saved, made, failures>>

Step ==
    \/ Fetch \/ BatchEnds \/ Begin \/ Dispose \/ DisposeFails \/ Create \/ Resume \/ Clear
    \/ Attach \/ AttachFails \/ Prompt \/ StepFails

Next == Restart \/ Step \/ \E c \in Chats, kind \in Kinds : Send(c, kind)

Spec == Init /\ [][Next]_vars

-----------------------------------------------------------------------------

Agents == 1 .. MaxAgents

TypeOK ==
    /\ sent \in Seq([chat : Chats, kind : Kinds]) /\ confirmed \in 0 .. Len(sent)
    /\ offset \in 0 .. Len(sent) + 1 /\ batch \in Seq(1 .. Len(sent))
    /\ bot \in [at : Stages, chat : Chats \cup {None}, for : Kinds, agent : Agents \cup {None}]
    /\ session \in [Chats -> Agents \cup {None}] /\ saved \in [Chats -> Agents \cup {None}]
    /\ live \cup leaked \subseteq 1 .. made
    /\ Len(begins) = Len(sent)

\* No update is passed over, whatever fails and at whatever point the bot
\* restarts: Telegram has dropped only updates the bot has begun to handle.
\* It begins one twice only after a restart, which fetches its last batch
\* again.
EveryUpdateIsBegun ==
    /\ \A u \in 1 .. confirmed : begins[u] > 0
    /\ \A u \in DOMAIN begins : begins[u] <= 1 + restarts

\* The agent a chat talks to is the one it can resume after a restart, is
\* open, and is the only open one of the chat, but for agents that could not
\* be saved and the one being attached.
SessionIsSaved ==
    /\ \A c \in Chats : session[c] # None => saved[c] = session[c] /\ session[c] \in live
    /\ live \subseteq {session[c] : c \in Chats} \cup leaked \cup (IF At("attach") THEN {bot.agent} ELSE {})
=============================================================================
