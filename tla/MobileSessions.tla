--------------------------- MODULE MobileSessions ---------------------------
(***************************************************************************)
(* Activation codes, sessions and rotating refresh tokens of the mobile    *)
(* API (lib/mobile-auth.js), with the admin routes that issue codes,       *)
(* revoke sessions, switch mobile access off and delete users.             *)
(*                                                                         *)
(* Every HTTP request is a member of Requests and runs one SQL statement,  *)
(* or one transaction segment between two row locks, per step: Node        *)
(* interleaves requests at each await and PostgreSQL runs them at READ     *)
(* COMMITTED.  A row taken FOR UPDATE stays locked until the request       *)
(* commits or fails, and a statement that needs the row waits for it.      *)
(* A multi-row UPDATE works on the rows its snapshot saw (`seen') and      *)
(* re-evaluates its WHERE clause on each of them.                          *)
(***************************************************************************)
EXTENDS Naturals, FiniteSets

CONSTANTS
    Requests,       \* HTTP requests that may be in flight at once
    Users,          \* users that exist initially
    Installations,  \* installation ids of the clients
    PublicModes,    \* access modes that need no user
    Sessions,       \* bound: ids createId('msn' | 'msp') may return
    Codes,          \* bound: activation codes that may be generated
    Tokens,         \* bound: refresh tokens randomToken() may return
    None            \* SQL NULL, and an unused register

ASSUME PublicModesAssumption ==
    PublicModes \subseteq {"public", "hiddify-android"}

ASSUME NoneAssumption ==
    None \notin Users \cup Installations \cup Sessions \cup Codes \cup Tokens

VARIABLES
    exists,      \* users that have a row in `users'
    enabled,     \* users whose mobileAccessEnabled is not false
    active,      \* users whose status is 'active'
    code,        \* mobile_activation_codes
    session,     \* mobile_sessions
    history,     \* mobile_refresh_token_history: token -> session or None
    configured,  \* public modes the environment of this process configures
    req,         \* what each request in flight has read and does next
    minted,      \* tokens generated so far
    delivered    \* tokens whose response reached a client

users == <<exists, enabled, active>>
tables == <<code, session, history>>
tokens == <<minted, delivered>>
vars == <<users, tables, configured, tokens, req>>

-----------------------------------------------------------------------------
(* Rows and registers *)

Modes == {"user"} \cup PublicModes

\* routes/mobile.js serves users and public installations,
\* routes/hiddify-android.js its own mode only.
ModesOf(app) == IF app = "mobile" THEN {"user", "public"} ELSE {"hiddify-android"}
Apps == {"mobile", "hiddify"}

\* revoked is revoked_at and revoke_reason together: a session revoked for
\* any reason but reuse of a token is "revoked".
SessionRow == [row : {"none", "row", "deleted"}, mode : Modes,
               user : Users \cup {None}, inst : Installations \cup {None},
               token : Tokens \cup {None}, revoked : {"no", "revoked", "reuse"},
               expired : BOOLEAN]
CodeRow == [row : {"none", "row", "deleted"}, user : Users \cup {None},
            used : Sessions \cup {None}, revoked : BOOLEAN, expired : BOOLEAN]

Blank == [row |-> "none", mode |-> "user", user |-> None, inst |-> None,
          token |-> None, revoked |-> "no", expired |-> FALSE]
BlankCode == [row |-> "none", user |-> None, used |-> None, revoked |-> FALSE,
              expired |-> FALSE]

Stages == {"idle", "activate-check", "activate-lock", "activate-write",
           "refresh-write", "refresh-reuse", "refresh-check", "refresh-revoke",
           "reused", "bootstrap-write", "code-select", "code-revoke",
           "code-insert", "revoke-select", "revoke-all", "reply"}

Register == [at : Stages, sid : Sessions \cup {None}, tok : Tokens \cup {None},
             code : Codes \cup {None}, user : Users \cup {None},
             inst : Installations \cup {None}, mode : Modes,
             seen : SUBSET (Sessions \cup Codes)]

Idle == [at |-> "idle", sid |-> None, tok |-> None, code |-> None,
         user |-> None, inst |-> None, mode |-> "user", seen |-> {}]

\* A request that is about to answer with a token has generated it.
RequestsOK ==
    /\ req \in [Requests -> Register]
    /\ \A r \in Requests : req[r].at \in {"refresh-check", "reply"} => req[r].tok \in minted

\* refresh_token_hash TEXT NOT NULL
RowsOK == \A s \in Sessions : session[s].row = "row" => session[s].token \in minted

TypeOK ==
    /\ exists \subseteq Users
    /\ enabled \subseteq Users
    /\ active \subseteq Users
    /\ code \in [Codes -> CodeRow]
    /\ session \in [Sessions -> SessionRow]
    /\ history \in [Tokens -> Sessions \cup {None}]
    /\ configured \subseteq PublicModes
    /\ RequestsOK
    /\ RowsOK
    /\ minted \subseteq Tokens
    /\ delivered \subseteq minted

-----------------------------------------------------------------------------
(* Reading the tables *)

Row(s) == session[s].row = "row"
CodeRowExists(c) == code[c].row = "row"

\* revoked_at IS NULL AND expires_at > NOW()
Live(s) == Row(s) /\ session[s].revoked = "no" /\ ~session[s].expired

\* An activation code that is not used, not revoked and not expired.
Usable(c) == /\ CodeRowExists(c)
             /\ code[c].used = None
             /\ ~code[c].revoked
             /\ ~code[c].expired

\* Rows held FOR UPDATE by a transaction that has not ended.
NotLocked(x) == FALSE
SessionLocked(s) == \E r \in Requests : req[r].at = "refresh-write" /\ req[r].sid = s
CodeLocked(c) == \E r \in Requests : req[r].at = "activate-write" /\ req[r].code = c

\* The rows an UPDATE ... WHERE ... AND revoked_at IS NULL sees: sessions a
\* bootstrap replaces, codes a new code replaces, sessions of a user who loses
\* mobile access.
SessionsOfInstallation(i, m) ==
    {s \in Sessions : /\ Row(s) /\ session[s].revoked = "no"
                      /\ session[s].mode = m /\ session[s].inst = i}
CodesOfUser(u) ==
    {c \in Codes : /\ CodeRowExists(c) /\ code[c].user = u
                   /\ code[c].used = None /\ ~code[c].revoked}
SessionsOfUser(u) ==
    {s \in Sessions : Row(s) /\ session[s].revoked = "no" /\ session[s].user = u}

Unused(rows, table) == {x \in rows : table[x].row = "none"}

\* Which unused value a random generator returns makes no difference.
Fresh(S) == CHOOSE x \in S : TRUE

\* SET revoked_at = COALESCE(revoked_at, NOW()), revoke_reason = COALESCE(...)
RevokeNone(set) == session
Revoke(set) ==
    [s \in Sessions |-> IF s \in set /\ Row(s) /\ session[s].revoked = "no"
                        THEN [session[s] EXCEPT !.revoked = "revoked"]
                        ELSE session[s]]

\* UPDATE mobile_activation_codes SET revoked_at = NOW() WHERE ... used_at IS NULL
RevokeCodes(set) ==
    [c \in Codes |-> IF c \in set /\ CodeRowExists(c) /\ code[c].used = None
                     THEN [code[c] EXCEPT !.revoked = TRUE]
                     ELSE code[c]]

\* revoke_reason = 'refresh-token-reuse' overwrites an earlier reason.
ReuseRolledBack(s) == session
ReuseRecorded(s) ==
    IF Row(s) THEN [session EXCEPT ![s].revoked = "reuse"] ELSE session

NotRotated(s, t) == session
RotatedToNull(s, t) == [session EXCEPT ![s].token = None]
Rotated(s, t) == [session EXCEPT ![s].token = t]

-----------------------------------------------------------------------------
(* Program counters *)

At(r, stage) == req[r].at = stage
Goto(r, register) == req' = [req EXCEPT ![r] = register]
Move(r, stage) == Goto(r, [req[r] EXCEPT !.at = stage])
Finish(r) == Goto(r, Idle)
LocalStep == UNCHANGED <<users, tables, configured, tokens>>

Init ==
    /\ exists = Users
    /\ enabled = Users
    /\ active = Users
    /\ code = [c \in Codes |-> BlankCode]
    /\ session = [s \in Sessions |-> Blank]
    /\ history = [t \in Tokens |-> None]
    /\ configured = PublicModes
    /\ req = [r \in Requests |-> Idle]
    /\ minted = {}
    /\ delivered = {}

-----------------------------------------------------------------------------
(* POST /activate: activateMobileSession *)

\* Rate limiting and input checks passed; the code was found usable.
ActivateLookup(r, c, i) ==
    /\ At(r, "idle")
    /\ Usable(c)
    /\ Goto(r, [Idle EXCEPT !.at = "activate-check", !.code = c,
                            !.user = code[c].user, !.inst = i])
    /\ LocalStep

\* assertUserMayUseMobile, outside the transaction.
ActivateCheck(r) ==
    /\ At(r, "activate-check")
    /\ IF req[r].user \in exists \cap enabled \cap active
       THEN Move(r, "activate-lock")
       ELSE Finish(r)
    /\ LocalStep

\* BEGIN; SELECT ... FOR UPDATE, and the second check of the code.
ActivateLock(r) ==
    /\ At(r, "activate-lock")
    /\ ~CodeLocked(req[r].code)
    /\ IF Usable(req[r].code) THEN Move(r, "activate-write") ELSE Finish(r)
    /\ LocalStep

\* INSERT the session (its user must exist: foreign key), UPDATE the code, COMMIT.
ActivateCommit(r) ==
    LET ids == Unused(Sessions, session)
        s == Fresh(ids)
        t == Fresh(Tokens \ minted)
    IN
    /\ At(r, "activate-write")
    /\ req[r].user \in exists
    /\ ids # {} /\ Tokens \ minted # {}
    /\ session' = [session EXCEPT ![s] =
                     [Blank EXCEPT !.row = "row", !.user = req[r].user,
                                   !.inst = req[r].inst, !.token = t]]
    /\ code' = [code EXCEPT ![req[r].code].used = s]
    /\ minted' = minted \cup {t}
    /\ Goto(r, [req[r] EXCEPT !.at = "reply", !.sid = s, !.tok = t])
    /\ UNCHANGED <<users, history, configured, delivered>>

-----------------------------------------------------------------------------
(* POST /bootstrap: createPublicMobileSession, createHiddifyAndroidSession *)

\* The UPDATE that replaces older sessions takes its snapshot.
BootstrapBegin(r, i, m) ==
    /\ At(r, "idle")
    /\ m \in configured
    /\ Goto(r, [Idle EXCEPT !.at = "bootstrap-write", !.inst = i, !.mode = m,
                            !.seen = SessionsOfInstallation(i, m)])
    /\ LocalStep

\* The UPDATE gets its row locks; INSERT the new session; COMMIT.
BootstrapCommit(r) ==
    /\ At(r, "bootstrap-write")
    /\ \A old \in req[r].seen : ~SessionLocked(old)
    /\ Unused(Sessions, session) # {} /\ Tokens \ minted # {}
    /\ LET s == Fresh(Unused(Sessions, session))
           t == Fresh(Tokens \ minted)
       IN  /\ session' = [Revoke(req[r].seen) EXCEPT ![s] =
                            [Blank EXCEPT !.row = "row", !.mode = req[r].mode,
                                          !.inst = req[r].inst, !.token = t]]
           /\ minted' = minted \cup {t}
           /\ Goto(r, [req[r] EXCEPT !.at = "reply", !.sid = s, !.tok = t])
    /\ UNCHANGED <<users, code, history, configured, delivered>>

-----------------------------------------------------------------------------
(* POST /session/refresh: refreshMobileSession *)

\* requireEnabled of routes/hiddify-android.js: no refresh while unconfigured.
Serves(app) == app = "hiddify" => "hiddify-android" \in configured

\* SELECT ... WHERE refresh_token_hash = t FOR UPDATE finds a session that
\* may be refreshed through this route; any other session it finds is an
\* early return that rolls back.
RefreshLookup(r, t, app) ==
    /\ At(r, "idle")
    /\ Serves(app)
    /\ \E s \in Sessions :
         /\ Row(s) /\ session[s].token = t
         /\ ~SessionLocked(s)
         /\ Live(s)
         /\ session[s].mode \in ModesOf(app)
         /\ Goto(r, [Idle EXCEPT !.at = "refresh-write", !.sid = s, !.tok = t,
                       !.user = session[s].user, !.mode = session[s].mode])
    /\ LocalStep

\* No session has this token, but the history does.
RefreshHistory(r, t, app) ==
    /\ At(r, "idle")
    /\ Serves(app)
    /\ \A s \in Sessions : Row(s) => session[s].token # t
    /\ history[t] # None
    /\ Goto(r, [Idle EXCEPT !.at = "refresh-reuse", !.sid = history[t], !.tok = t])
    /\ LocalStep

\* INSERT into the history (its key is the token: a second insert fails and
\* the transaction rolls back), replace the token, COMMIT.
RefreshCommit(r) ==
    LET t == Fresh(Tokens \ minted) IN
    /\ At(r, "refresh-write")
    /\ Tokens \ minted # {}
    /\ IF history[req[r].tok] = None
       THEN /\ history' = [history EXCEPT ![req[r].tok] = req[r].sid]
            /\ session' = Rotated(req[r].sid, t)
            /\ minted' = minted \cup {t}
            /\ Goto(r, [req[r] EXCEPT !.at = "refresh-check", !.tok = t])
       ELSE /\ Finish(r)
            /\ UNCHANGED <<history, session, minted>>
    /\ UNCHANGED <<users, code, configured, delivered>>

\* Reuse of a rotated token: UPDATE the session (overwriting the reason), COMMIT.
RefreshReuse(r) ==
    /\ At(r, "refresh-reuse")
    /\ ~SessionLocked(req[r].sid)
    /\ session' = ReuseRecorded(req[r].sid)
    /\ Move(r, "reused")
    /\ UNCHANGED <<users, code, history, configured, tokens>>

\* After COMMIT: is the public mode still configured, the user still allowed?
RefreshCheck(r) ==
    LET u == req[r].user
        mode == req[r].mode
    IN
    /\ At(r, "refresh-check")
    /\ \/ mode # "user" /\ mode \in configured /\ Move(r, "reply")
       \/ mode # "user" /\ mode \notin configured /\ Move(r, "refresh-revoke")
       \/ mode = "user" /\ u \notin exists /\ Finish(r)
       \/ mode = "user" /\ u \in exists \cap enabled /\ Move(r, "reply")
       \/ mode = "user" /\ u \in exists \ enabled /\ Move(r, "refresh-revoke")
    /\ LocalStep

RefreshRevoke(r) ==
    /\ At(r, "refresh-revoke")
    /\ ~SessionLocked(req[r].sid)
    /\ session' = Revoke({req[r].sid})
    /\ Finish(r)
    /\ UNCHANGED <<users, code, history, configured, tokens>>

-----------------------------------------------------------------------------
(* The admin API *)

\* POST /users/:id/mobile/activation-code: createMobileActivationCode
CodeBegin(r, u) ==
    /\ At(r, "idle")
    /\ u \in exists \cap enabled
    /\ Goto(r, [Idle EXCEPT !.at = "code-select", !.user = u])
    /\ LocalStep

CodeSelect(r) ==
    /\ At(r, "code-select")
    /\ Goto(r, [req[r] EXCEPT !.at = "code-revoke", !.seen = CodesOfUser(req[r].user)])
    /\ LocalStep

CodeRevoke(r) ==
    /\ At(r, "code-revoke")
    /\ \A c \in req[r].seen : ~CodeLocked(c)
    /\ code' = RevokeCodes(req[r].seen)
    /\ Move(r, "code-insert")
    /\ UNCHANGED <<users, session, history, configured, tokens>>

\* The user is a foreign key: the INSERT of a deleted user's code fails.
CodeInsert(r) ==
    LET ids == Unused(Codes, code)
        c == Fresh(ids)
    IN
    /\ At(r, "code-insert")
    /\ ids # {}
    /\ code' = IF req[r].user \in exists
               THEN [code EXCEPT ![c] = [BlankCode EXCEPT !.row = "row",
                                                          !.user = req[r].user]]
               ELSE code
    /\ Finish(r)
    /\ UNCHANGED <<users, session, history, configured, tokens>>

\* PATCH /users/:id[/mobile-access] with mobileAccessEnabled false: update the
\* user, then revoke all its sessions.
DisableAccess(r, u) ==
    /\ At(r, "idle")
    /\ u \in exists
    /\ enabled' = enabled \ {u}
    /\ Goto(r, [Idle EXCEPT !.at = "revoke-select", !.user = u])
    /\ UNCHANGED <<exists, active, tables, configured, tokens>>

EnableAccess(u) ==
    /\ u \in exists \ enabled
    /\ enabled' = enabled \cup {u}
    /\ UNCHANGED <<exists, active, tables, configured, tokens, req>>

\* The snapshot of revokeAllMobileSessions.
RevokeSelect(r) ==
    /\ At(r, "revoke-select")
    /\ Goto(r, [req[r] EXCEPT !.at = "revoke-all", !.seen = SessionsOfUser(req[r].user)])
    /\ LocalStep

RevokeAll(r) ==
    /\ At(r, "revoke-all")
    /\ \A s \in req[r].seen : ~SessionLocked(s)
    /\ session' = Revoke(req[r].seen)
    /\ Finish(r)
    /\ UNCHANGED <<users, code, history, configured, tokens>>

\* DELETE .../sessions/:sessionId by an admin, DELETE /session by the client.
RevokeSession(s) ==
    /\ Row(s)
    /\ ~SessionLocked(s)
    /\ session' = Revoke({s})
    /\ UNCHANGED <<users, code, history, configured, tokens, req>>

\* DELETE /users/:id: the foreign keys cascade to codes, sessions and history.
DeleteUser(u) ==
    LET own == {s \in Sessions : Row(s) /\ session[s].user = u}
        codes == {c \in Codes : CodeRowExists(c) /\ code[c].user = u}
    IN
    /\ u \in exists
    /\ \A s \in own : ~SessionLocked(s)
    /\ \A c \in codes : ~CodeLocked(c)
    /\ exists' = exists \ {u}
    /\ session' = [s \in Sessions |-> IF s \in own THEN [Blank EXCEPT !.row = "deleted"]
                                                   ELSE session[s]]
    /\ code' = [c \in Codes |-> IF c \in codes THEN [BlankCode EXCEPT !.row = "deleted"]
                                               ELSE code[c]]
    /\ history' = [t \in Tokens |-> IF history[t] \in own THEN None ELSE history[t]]
    /\ UNCHANGED <<enabled, active, configured, tokens, req>>

\* PATCH /users/:id with a status, and enforceUserLimits.
SetStatus(u) ==
    /\ u \in exists
    /\ active' \in {active \ {u}, active \cup {u}}
    /\ UNCHANGED <<exists, enabled, tables, configured, tokens, req>>

-----------------------------------------------------------------------------
(* Replies, failures and time *)

\* The response reaches the client; a reuse answers an error.
Reply(r) ==
    /\ At(r, "reply") \/ At(r, "reused")
    /\ delivered' = IF At(r, "reply") THEN delivered \cup {req[r].tok} ELSE delivered
    /\ Finish(r)
    /\ UNCHANGED <<users, tables, configured, minted>>

\* A statement fails (ROLLBACK releases the locks) or the response is lost.
RequestFails(r) ==
    /\ ~At(r, "idle")
    /\ Finish(r)
    /\ LocalStep

\* The process restarts, perhaps with another environment.
Restart ==
    /\ req' = [r \in Requests |-> Idle]
    /\ configured' \in SUBSET PublicModes
    /\ UNCHANGED <<users, tables, tokens>>

SessionExpires(s) ==
    /\ Row(s) /\ ~session[s].expired
    /\ session' = [session EXCEPT ![s].expired = TRUE]
    /\ UNCHANGED <<users, code, history, configured, tokens, req>>

CodeExpires(c) ==
    /\ CodeRowExists(c) /\ ~code[c].expired
    /\ code' = [code EXCEPT ![c].expired = TRUE]
    /\ UNCHANGED <<users, session, history, configured, tokens, req>>

-----------------------------------------------------------------------------

\* The next statement of a request already in flight.
Continue(r) ==
    \/ ActivateCheck(r) \/ ActivateLock(r) \/ ActivateCommit(r)
    \/ \E m \in PublicModes : req[r].mode = m /\ BootstrapCommit(r)
    \/ RefreshCommit(r) \/ RefreshReuse(r) \/ RefreshCheck(r) \/ RefreshRevoke(r)
    \/ CodeSelect(r) \/ CodeRevoke(r) \/ CodeInsert(r)
    \/ RevokeSelect(r) \/ RevokeAll(r)
    \/ Reply(r)

Arrive(r) ==
    \/ \E c \in Codes, i \in Installations : ActivateLookup(r, c, i)
    \/ \E i \in Installations, m \in PublicModes : BootstrapBegin(r, i, m)
    \/ \E t \in delivered, app \in Apps :
         RefreshLookup(r, t, app) \/ RefreshHistory(r, t, app)
    \/ \E u \in Users : CodeBegin(r, u) \/ DisableAccess(r, u)

Environment ==
    \/ \E u \in Users : EnableAccess(u) \/ DeleteUser(u) \/ SetStatus(u)
    \/ \E s \in Sessions : RevokeSession(s) \/ SessionExpires(s)
    \/ \E c \in Codes : CodeExpires(c)
    \/ Restart

Next ==
    \/ \E r \in Requests : Arrive(r) \/ Continue(r) \/ RequestFails(r)
    \/ Environment

Spec == Init /\ [][Next]_vars

-----------------------------------------------------------------------------
(* Properties *)

\* A refresh token identifies one session at most, and a token that was
\* rotated out is never again the current token of any session: otherwise
\* reuse of a rotated token would pass for a valid refresh.
TokenIdentifiesOneSession ==
    \A s, s2 \in Sessions : Row(s) /\ Row(s2) =>
        /\ session[s].token = session[s2].token => s = s2
        /\ history[session[s].token] = None

\* An activation code opens one session at most, however many activations of
\* it run at once: each user session is the one its code was used by.  And a
\* code is spent in one way: an admin who replaces a user's codes never
\* revokes a code that opened a session, and a revoked code opens none.
CodesAreSpentOnce ==
    /\ \A s \in Sessions : Row(s) /\ session[s].mode = "user" =>
          \E c \in Codes : CodeRowExists(c) /\ code[c].used = s
    /\ \A c \in Codes : ~(code[c].used # None /\ code[c].revoked)

\* The token a response is about to carry is current: no later refresh has
\* spent it, so a client that gets the response can use it.
AnsweredTokenIsCurrent ==
    \A r \in Requests : At(r, "reply") /\ Row(req[r].sid) =>
        session[req[r].sid].token = req[r].tok

\* When the server answers REFRESH_TOKEN_REUSED, the session of the rotated
\* token is revoked for that reason, or its user was deleted.
ReuseRevokesSession ==
    \A r \in Requests : At(r, "reused") /\ Row(req[r].sid) =>
        session[req[r].sid].revoked = "reuse"

\* Bootstraps of one installation that overlap may each leave a session, for
\* each replaces only the sessions its snapshot saw; there are never more of
\* them than requests that can overlap.
InstallationSessionsBounded ==
    \A i \in Installations, m \in PublicModes :
        Cardinality(SessionsOfInstallation(i, m)) <= Cardinality(Requests)

\* A revoked session stays revoked with its token frozen while it exists, no
\* matter which request was halfway through it; and evidence of token reuse
\* is never overwritten by a later revocation.
RevocationIsFinal ==
    [][\A s \in Sessions : Row(s) /\ session[s].revoked # "no" =>
        \/ session'[s].row = "deleted"
        \/ /\ session'[s].row = "row"
           /\ session'[s].revoked # "no"
           /\ session'[s].token = session[s].token
           /\ session[s].revoked = "reuse" => session'[s].revoked = "reuse"]_session

-----------------------------------------------------------------------------
(* The tables implement families of tokens. *)

TokenStatus(t) ==
    IF \E s \in Sessions : Row(s) /\ session[s].token = t THEN "current"
    ELSE IF history[t] # None THEN "spent"
    ELSE IF t \in minted THEN "void" ELSE "fresh"

TokenSession(t) ==
    IF TokenStatus(t) = "current" THEN CHOOSE s \in Sessions : Row(s) /\ session[s].token = t
    ELSE history[t]

Family == INSTANCE TokenFamily WITH
    status <- [t \in Tokens |-> TokenStatus(t)],
    family <- [t \in Tokens |-> TokenSession(t)],
    dead <- {s \in Sessions : session[s].row = "deleted" \/ session[s].revoked # "no"}

\* Requests, transactions and locks implement TokenFamily: whatever
\* interleaves, a step opens a session with a fresh token, rotates the current
\* token of a session that is not dead, kills sessions, or purges a user's.
ImplementsTokenFamily == Family!Spec
=============================================================================
