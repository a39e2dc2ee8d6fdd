------------------------ MODULE MobileSessionsProofs ------------------------
(***************************************************************************)
(* Theorems about MobileSessions for any number of requests, users,        *)
(* sessions, codes and tokens: rows and registers keep their type, a token *)
(* identifies one session, and a revoked session stays revoked; the token  *)
(* of an answer is current, an answer that says a token was reused comes   *)
(* after its session was revoked for that, a code opens one session at     *)
(* most, an installation has no more sessions than requests that can       *)
(* overlap, and the tables implement TokenFamily.                          *)
(***************************************************************************)
EXTENDS MobileSessions, FiniteSetTheorems, TLAPS

\* An unused value is one of the values it is taken from.
LEMMA FreshIsMember == \A S : S # {} => Fresh(S) \in S
  BY DEF Fresh

\* Changing one column of a session row, or of a code row, keeps its type.
LEMMA SessionColumns ==
  ASSUME NEW row \in SessionRow
  PROVE  /\ \A v \in {"no", "revoked", "reuse"} : [row EXCEPT !.revoked = v] \in SessionRow
         /\ \A t \in Tokens : [row EXCEPT !.token = t] \in SessionRow
         /\ [row EXCEPT !.expired = TRUE] \in SessionRow
  BY DEF SessionRow

LEMMA CodeColumns ==
  ASSUME NEW row \in CodeRow
  PROVE  /\ \A s \in Sessions : [row EXCEPT !.used = s] \in CodeRow
         /\ [row EXCEPT !.revoked = TRUE] \in CodeRow
         /\ [row EXCEPT !.expired = TRUE] \in CodeRow
  BY DEF CodeRow

\* The types hold at first.
LEMMA InitTypes == Init => TypeOK
BY DEF Init, TypeOK, RequestsOK, RowsOK, CodeRow, BlankCode, SessionRow, Blank, Register, Idle, Stages, Modes

\* Every step of a request and of its environment keeps the types.
LEMMA NextTypes == TypeOK /\ [Next]_vars => TypeOK'
<1> SUFFICES ASSUME TypeOK, [Next]_vars PROVE TypeOK'
  OBVIOUS
<1> USE DEF TypeOK
<1>1. Idle \in Register
  BY DEF Idle, Register, Stages, Modes
<1>2. \A r \in Requests : req[r] \in Register
  BY DEF RequestsOK
<1>3. req' = req /\ minted \subseteq minted' => RequestsOK'
  BY DEF RequestsOK
<1>4. (/\ minted \subseteq minted'
        /\ \A s \in Sessions : session'[s].row = "row" =>
             /\ session[s].row = "row"
             /\ session'[s].token = session[s].token) => RowsOK'
  BY DEF RowsOK
<1>5. session' = session /\ minted \subseteq minted' => RowsOK'
  BY DEF RowsOK
<1> USE <1>2, <1>3, <1>5
<1>6. ASSUME NEW r \in Requests, NEW register \in Register, Goto(r, register),
             minted \subseteq minted',
             register.at \in {"refresh-check", "reply"} => register.tok \in minted'
      PROVE  RequestsOK'
  BY <1>6 DEF Goto, RequestsOK
<1>7. ASSUME NEW r \in Requests, NEW stage \in Stages \ {"refresh-check"}, Move(r, stage),
             minted \subseteq minted', stage = "reply" => At(r, "refresh-check")
      PROVE  RequestsOK'
  <2>1. /\ [req[r] EXCEPT !.at = stage] \in Register
        /\ [req[r] EXCEPT !.at = stage].at = stage
        /\ [req[r] EXCEPT !.at = stage].tok = req[r].tok
    BY DEF Register, RequestsOK
  <2>2. stage = "reply" => req[r].tok \in minted
    BY <1>7 DEF At, RequestsOK
  <2> QED BY <1>7, <1>6, <2>1, <2>2 DEF Move
<1>8. ASSUME NEW r \in Requests, Finish(r), minted \subseteq minted'
      PROVE  RequestsOK'
  BY <1>1, <1>8, <1>6 DEF Finish, Idle
<1>9. ASSUME NEW r \in Requests, NEW register \in Register, Goto(r, register),
              minted' = minted, register.at \notin {"refresh-check", "reply"}
       PROVE  RequestsOK'
  BY <1>6, <1>9
<1>10. \A set : /\ Revoke(set) \in [Sessions -> SessionRow]
               /\ \A s \in Sessions : /\ Revoke(set)[s].row = session[s].row
                                      /\ Revoke(set)[s].token = session[s].token
  BY DEF Revoke, SessionRow
<1>11. ASSUME NEW set, session' = Revoke(set), minted' = minted PROVE RowsOK'
  BY <1>10, <1>4, <1>11
<1>12. ASSUME NEW r \in Requests, Arrive(r) PROVE TypeOK'
  <2>1. ASSUME NEW c \in Codes, NEW i \in Installations, ActivateLookup(r, c, i)
        PROVE TypeOK'
    <3>1. code[c].user \in Users \cup {None}
      BY DEF CodeRow
    <3> DEFINE register == [Idle EXCEPT !.at = "activate-check", !.code = c,
                                        !.user = code[c].user, !.inst = i]
    <3>3. register \in Register /\ register.at = "activate-check"
      BY <3>1, <1>1 DEF Idle, Register, Stages
    <3>2. RequestsOK'
      BY <2>1, <3>3, <1>9 DEF ActivateLookup, LocalStep, tokens
    <3> QED BY <2>1, <3>2 DEF ActivateLookup, LocalStep, users, tables, tokens
  <2>2. ASSUME NEW i \in Installations, NEW m \in PublicModes, BootstrapBegin(r, i, m)
        PROVE TypeOK'
    <3>1. SessionsOfInstallation(i, m) \in SUBSET (Sessions \cup Codes) /\ m \in Modes
      BY DEF SessionsOfInstallation, Modes
    <3> DEFINE register == [Idle EXCEPT !.at = "bootstrap-write", !.inst = i, !.mode = m,
                                        !.seen = SessionsOfInstallation(i, m)]
    <3>3. register \in Register /\ register.at = "bootstrap-write"
      BY <3>1, <1>1 DEF Idle, Register, Stages
    <3>2. RequestsOK'
      BY <2>2, <3>3, <1>9 DEF BootstrapBegin, LocalStep, tokens
    <3> QED BY <2>2, <3>2 DEF BootstrapBegin, LocalStep, users, tables, tokens
  <2>3. ASSUME NEW t \in delivered, NEW app \in Apps, RefreshLookup(r, t, app)
        PROVE TypeOK'
    <3>1. PICK s \in Sessions :
            Goto(r, [Idle EXCEPT !.at = "refresh-write", !.sid = s, !.tok = t,
                                 !.user = session[s].user, !.mode = session[s].mode])
      BY <2>3 DEF RefreshLookup
    <3>2. session[s].user \in Users \cup {None} /\ session[s].mode \in Modes
      BY DEF SessionRow
    <3> DEFINE register == [Idle EXCEPT !.at = "refresh-write", !.sid = s, !.tok = t,
                              !.user = session[s].user, !.mode = session[s].mode]
    <3>3. register \in Register /\ register.at = "refresh-write"
      BY <3>2, <1>1 DEF Idle, Register, Stages
    <3>4. RequestsOK'
      BY <2>3, <3>1, <3>3, <1>9 DEF RefreshLookup, LocalStep, tokens
    <3> QED BY <2>3, <3>4 DEF RefreshLookup, LocalStep, users, tables, tokens
  <2>4. ASSUME NEW t \in delivered, NEW app \in Apps, RefreshHistory(r, t, app)
        PROVE TypeOK'
    <3> DEFINE register == [Idle EXCEPT !.at = "refresh-reuse", !.sid = history[t], !.tok = t]
    <3>2. register \in Register /\ register.at = "refresh-reuse"
      BY <1>1 DEF Idle, Register, Stages
    <3>1. RequestsOK'
      BY <2>4, <3>2, <1>9 DEF RefreshHistory, LocalStep, tokens
    <3> QED BY <2>4, <3>1 DEF RefreshHistory, LocalStep, users, tables, tokens
  <2>5. ASSUME NEW u \in Users, CodeBegin(r, u) \/ DisableAccess(r, u)
        PROVE TypeOK'
    <3>1. \A stage \in Stages : /\ [Idle EXCEPT !.at = stage, !.user = u] \in Register
                                /\ [Idle EXCEPT !.at = stage, !.user = u].at = stage
      BY <1>1 DEF Idle, Register
    <3>2. RequestsOK'
      BY <2>5, <3>1, <1>9 DEF CodeBegin, DisableAccess, Stages, LocalStep, tokens
    <3> QED BY <2>5, <3>2
            DEF CodeBegin, DisableAccess, LocalStep, users, tables, tokens
  <2> QED BY <1>12, <2>1, <2>2, <2>3, <2>4, <2>5 DEF Arrive
<1>13. ASSUME NEW r \in Requests, Continue(r) PROVE TypeOK'
  <2> USE DEF LocalStep, users, tables, tokens
  <2>1. CASE ActivateCheck(r) \/ ActivateLock(r)
    BY <2>1, <1>7, <1>8 DEF ActivateCheck, ActivateLock, Stages
  <2>2. CASE ActivateCommit(r)
    <3> DEFINE s == Fresh(Unused(Sessions, session))
               t == Fresh(Tokens \ minted)
    <3>1. s \in Sessions /\ t \in Tokens
      BY <2>2, FreshIsMember DEF ActivateCommit, Unused
    <3>2. RequestsOK'
      <4>1. /\ [req[r] EXCEPT !.at = "reply", !.sid = s, !.tok = t] \in Register
            /\ [req[r] EXCEPT !.at = "reply", !.sid = s, !.tok = t].tok = t
        BY <3>1 DEF Register, Stages
      <4>2. Goto(r, [req[r] EXCEPT !.at = "reply", !.sid = s, !.tok = t])
        BY <2>2 DEF ActivateCommit
      <4>3. minted' = minted \cup {t}
        BY <2>2 DEF ActivateCommit
      <4> HIDE DEF s, t
      <4> DEFINE register == [req[r] EXCEPT !.at = "reply", !.sid = s, !.tok = t]
      <4>4. register \in Register /\ register.tok = t /\ Goto(r, register)
        BY <4>1, <4>2
      <4> HIDE DEF register
      <4> QED BY <4>3, <4>4, <1>6
    <3>3. session' \in [Sessions -> SessionRow]
      BY <2>2, <3>1 DEF ActivateCommit, SessionRow, Blank, Register, Modes
    <3>4. code' \in [Codes -> CodeRow]
      BY <2>2, <3>1 DEF ActivateCommit, CodeRow
    <3>5. RowsOK'
      BY <2>2, <3>1 DEF ActivateCommit, RowsOK, Blank
    <3> QED BY <2>2, <3>1, <3>2, <3>3, <3>4, <3>5 DEF ActivateCommit
  <2>3. CASE BootstrapCommit(r)
    <3> DEFINE s == Fresh(Unused(Sessions, session))
               t == Fresh(Tokens \ minted)
    <3>1. s \in Sessions /\ t \in Tokens
      BY <2>3, FreshIsMember DEF BootstrapCommit, Unused
    <3>2. RequestsOK'
      <4>1. /\ [req[r] EXCEPT !.at = "reply", !.sid = s, !.tok = t] \in Register
            /\ [req[r] EXCEPT !.at = "reply", !.sid = s, !.tok = t].tok = t
        BY <3>1 DEF Register, Stages
      <4>2. Goto(r, [req[r] EXCEPT !.at = "reply", !.sid = s, !.tok = t])
        BY <2>3 DEF BootstrapCommit
      <4>3. minted' = minted \cup {t}
        BY <2>3 DEF BootstrapCommit
      <4> HIDE DEF s, t
      <4> DEFINE register == [req[r] EXCEPT !.at = "reply", !.sid = s, !.tok = t]
      <4>4. register \in Register /\ register.tok = t /\ Goto(r, register)
        BY <4>1, <4>2
      <4> HIDE DEF register
      <4> QED BY <4>3, <4>4, <1>6
    <3>3. [Blank EXCEPT !.row = "row", !.mode = req[r].mode,
                        !.inst = req[r].inst, !.token = t] \in SessionRow
      BY <3>1 DEF SessionRow, Blank, Register, Modes
    <3>4. session' \in [Sessions -> SessionRow]
      BY <2>3, <3>1, <3>3, <1>10 DEF BootstrapCommit
    <3>5. RowsOK'
      BY <2>3, <3>1, <1>10 DEF BootstrapCommit, RowsOK, Blank
    <3> QED BY <2>3, <3>1, <3>2, <3>4, <3>5 DEF BootstrapCommit
  <2>4. CASE RefreshCommit(r)
    <3> DEFINE t == Fresh(Tokens \ minted)
    <3>1. t \in Tokens
      BY <2>4, FreshIsMember DEF RefreshCommit
    <3>2. RequestsOK'
      <4>1. /\ [req[r] EXCEPT !.at = "refresh-check", !.tok = t] \in Register
            /\ [req[r] EXCEPT !.at = "refresh-check", !.tok = t].tok = t
        BY <3>1 DEF Register, Stages
      <4>2. CASE Finish(r) /\ minted' = minted
        BY <4>2, <1>8
      <4>3. CASE Goto(r, [req[r] EXCEPT !.at = "refresh-check", !.tok = t]) /\ minted' = minted \cup {t}
        <5> HIDE DEF t
        <5> DEFINE register == [req[r] EXCEPT !.at = "refresh-check", !.tok = t]
        <5>1. register \in Register /\ register.tok = t /\ Goto(r, register)
          BY <4>1, <4>3
        <5> HIDE DEF register
        <5> QED BY <4>3, <5>1, <1>6
      <4> QED BY <2>4, <4>2, <4>3 DEF RefreshCommit
    <3>3. session' \in [Sessions -> SessionRow]
      <4>1. \A s : Rotated(s, t) \in [Sessions -> SessionRow]
        BY <3>1, SessionColumns DEF Rotated
      <4> QED BY <2>4, <4>1 DEF RefreshCommit
    <3>4. history' \in [Tokens -> Sessions \cup {None}]
      BY <2>4 DEF RefreshCommit, Register
    <3>5. RowsOK'
      <4>1. CASE UNCHANGED <<session, minted>>
        BY <4>1
      <4>2. CASE session' = Rotated(req[r].sid, t) /\ minted' = minted \cup {t}
        <5> HIDE DEF t
        <5>1. \A s \in Sessions : /\ session'[s].row = session[s].row
                                 /\ session'[s].token \in {session[s].token, t}
          BY <4>2, <3>1 DEF Rotated
        <5> QED BY <4>2, <5>1 DEF RowsOK
      <4> QED BY <2>4, <4>1, <4>2 DEF RefreshCommit
    <3> QED BY <2>4, <3>1, <3>2, <3>3, <3>4, <3>5 DEF RefreshCommit
  <2>5. CASE RefreshReuse(r)
    <3>1. session' \in [Sessions -> SessionRow]
      BY <2>5, SessionColumns DEF RefreshReuse, ReuseRecorded
    <3>2. RowsOK'
      BY <2>5, <1>4 DEF RefreshReuse, ReuseRecorded
    <3> QED BY <2>5, <3>1, <3>2, <1>7 DEF RefreshReuse, Stages
  <2>6. CASE RefreshCheck(r)
    BY <2>6, <1>7, <1>8 DEF RefreshCheck, Stages
  <2>7. CASE RefreshRevoke(r) \/ RevokeAll(r)
    BY <2>7, <1>8, <1>10, <1>11 DEF RefreshRevoke, RevokeAll
  <2>8. CASE CodeSelect(r) \/ RevokeSelect(r)
    <3>2. \A u : /\ CodesOfUser(u) \in SUBSET (Sessions \cup Codes)
                 /\ SessionsOfUser(u) \in SUBSET (Sessions \cup Codes)
      BY DEF CodesOfUser, SessionsOfUser
    <3>3. RequestsOK'
      <4>1. ASSUME NEW stage \in {"code-revoke", "revoke-all"},
                   NEW set \in SUBSET (Sessions \cup Codes),
                   Goto(r, [req[r] EXCEPT !.at = stage, !.seen = set]), minted' = minted
            PROVE  RequestsOK'
        <5> DEFINE register == [req[r] EXCEPT !.at = stage, !.seen = set]
        <5>1. register \in Register /\ register.at = stage
          BY DEF Register, Stages
        <5>2. Goto(r, register)
          BY <4>1
        <5> HIDE DEF register
        <5> QED BY <4>1, <5>1, <5>2, <1>9
      <4>2. CASE CodeSelect(r)
        BY <4>1, <4>2, <3>2 DEF CodeSelect
      <4>3. CASE RevokeSelect(r)
        BY <4>1, <4>3, <3>2 DEF RevokeSelect
      <4> QED BY <2>8, <4>2, <4>3
    <3> QED BY <2>8, <3>3 DEF CodeSelect, RevokeSelect
  <2>9. CASE CodeRevoke(r)
    <3>1. code' \in [Codes -> CodeRow]
      BY <2>9, CodeColumns DEF CodeRevoke, RevokeCodes
    <3> QED BY <2>9, <3>1, <1>7 DEF CodeRevoke, Stages
  <2>10. CASE CodeInsert(r)
    <3>1. Fresh(Unused(Codes, code)) \in Codes
      BY <2>10, FreshIsMember DEF CodeInsert, Unused
    <3>2. code' \in [Codes -> CodeRow]
      BY <2>10, <3>1 DEF CodeInsert, CodeRow, BlankCode
    <3> QED BY <2>10, <3>2, <1>8 DEF CodeInsert
  <2>11. CASE Reply(r)
    <3>1. At(r, "reply") => req[r].tok \in minted
      BY DEF At, RequestsOK
    <3> QED BY <2>11, <3>1, <1>8 DEF Reply
  <2> QED BY <1>13, <2>1, <2>2, <2>3, <2>4, <2>5, <2>6, <2>7, <2>8, <2>9, <2>10, <2>11
          DEF Continue
<1>14. ASSUME NEW r \in Requests, RequestFails(r) PROVE TypeOK'
  BY <1>14, <1>8 DEF RequestFails, LocalStep, users, tables, tokens
<1>15. CASE Environment
  <2> USE DEF users, tables, tokens
  <2>1. ASSUME NEW u \in Users, EnableAccess(u) \/ SetStatus(u) PROVE TypeOK'
    BY <2>1 DEF EnableAccess, SetStatus
  <2>2. ASSUME NEW u \in Users, DeleteUser(u) PROVE TypeOK'
    <3>1. RowsOK'
      BY <2>2, <1>4 DEF DeleteUser, Blank
    <3> QED BY <2>2, <3>1 DEF DeleteUser, SessionRow, CodeRow, Blank, BlankCode, Modes
  <2>3. ASSUME NEW s \in Sessions, RevokeSession(s) \/ SessionExpires(s) PROVE TypeOK'
    <3>1. CASE RevokeSession(s)
      BY <3>1, <1>10, <1>11 DEF RevokeSession
    <3>2. CASE SessionExpires(s)
      <4>1. RowsOK'
        BY <3>2, <1>4 DEF SessionExpires
      <4> QED BY <3>2, <4>1, SessionColumns DEF SessionExpires
    <3> QED BY <2>3, <3>1, <3>2
  <2>4. ASSUME NEW c \in Codes, CodeExpires(c) PROVE TypeOK'
    BY <2>4 DEF CodeExpires, CodeRow
  <2>5. CASE Restart
    BY <2>5, <1>1 DEF Restart, RequestsOK, Idle
  <2> QED BY <1>15, <2>1, <2>2, <2>3, <2>4, <2>5 DEF Environment
<1>16. CASE UNCHANGED vars
  BY <1>16 DEF vars, users, tables, tokens
<1> QED BY <1>12, <1>13, <1>14, <1>15, <1>16 DEF Next

\* Every table and register holds values of its type (lib/postgres.js 110-141
\* and the registers of the handlers of lib/mobile-auth.js).
THEOREM TypeCorrect == Spec => []TypeOK
BY InitTypes, NextTypes, PTL DEF Spec

-----------------------------------------------------------------------------
(* Refresh tokens and locks.  Every step is first reduced to one of four   *)
(* effects on the tables (sessions marked, opened, rotated or purged); the *)
(* row lock of a rotation freezes what the rotation has read.              *)


\* What a rotation relies on between its SELECT ... FOR UPDATE and its write.
Holds(r) ==
    /\ req[r].sid \in Sessions
    /\ Row(req[r].sid)
    /\ session[req[r].sid].revoked = "no"
    /\ session[req[r].sid].token = req[r].tok

LockInv ==
    \A r \in Requests : At(r, "refresh-write") =>
        /\ Holds(r)
        /\ \A q \in Requests : At(q, "refresh-write") /\ req[q].sid = req[r].sid => q = r

HistoryInv == \A t \in Tokens : history[t] # None => t \in minted

IInv == TypeOK /\ LockInv /\ HistoryInv /\ TokenIdentifiesOneSession

-----------------------------------------------------------------------------
(* The effects of a step on the tables *)

\* The row stays as it is, but for being revoked or expired.
Kept(s) ==
    /\ session'[s].row = session[s].row
    /\ session'[s].token = session[s].token
    /\ session'[s].mode = session[s].mode
    /\ session'[s].user = session[s].user
    /\ session'[s].inst = session[s].inst
    /\ session[s].row # "row" => session'[s] = session[s]
    /\ session[s].revoked # "no" => session'[s].revoked # "no"
    /\ session[s].revoked = "reuse" => session'[s].revoked = "reuse"

Marked == UNCHANGED <<history, minted>> /\ \A s \in Sessions : Kept(s)

Opened ==
    \E s \in Sessions, t \in Tokens \ minted :
        /\ minted' = minted \cup {t}
        /\ history' = history
        /\ session[s].row = "none"
        /\ session'[s].row = "row" /\ session'[s].token = t /\ session'[s].revoked = "no"
        /\ \/ session'[s].mode = "user" /\ \E r \in Requests : ActivateCommit(r)
           \/ session'[s].mode # "user" /\ \E r \in Requests : BootstrapCommit(r)
        /\ \A other \in Sessions \ {s} : Kept(other)

RotatedRow ==
    \E r \in Requests, t \in Tokens \ minted :
        /\ At(r, "refresh-write")
        /\ minted' = minted \cup {t}
        /\ history' = [history EXCEPT ![req[r].tok] = req[r].sid]
        /\ session' = Rotated(req[r].sid, t)

Purged ==
    \E own \in SUBSET Sessions :
        /\ minted' = minted
        /\ \A s \in own : Row(s) /\ session'[s].row = "deleted"
        /\ \A s \in Sessions \ own : session'[s] = session[s]
        /\ history' = [t \in Tokens |-> IF history[t] \in own THEN None ELSE history[t]]

\* Revoking leaves rows, tokens and evidence of reuse.
LEMMA RevokeKeeps ==
    ASSUME TypeOK, NEW set
    PROVE  /\ Revoke(set) \in [Sessions -> SessionRow]
           /\ \A s \in Sessions :
                /\ Revoke(set)[s].row = session[s].row
                /\ Revoke(set)[s].token = session[s].token
                /\ Revoke(set)[s].mode = session[s].mode
                /\ Revoke(set)[s].user = session[s].user
                /\ Revoke(set)[s].inst = session[s].inst
                /\ ~Row(s) => Revoke(set)[s] = session[s]
                /\ session[s].revoked # "no" => Revoke(set)[s] = session[s]
                /\ s \notin set => Revoke(set)[s] = session[s]
BY DEF Revoke, TypeOK, SessionRow

\* A step that only revokes has the first effect.
LEMMA RevokeMarks ==
    ASSUME TypeOK, NEW set, session' = Revoke(set), UNCHANGED <<history, minted>>
    PROVE  Marked
BY RevokeKeeps DEF Marked, Kept, Row

\* An activation or a bootstrap opens a session with a fresh token.
LEMMA OpenEffect ==
    ASSUME TypeOK, NEW r \in Requests,
           ActivateCommit(r) \/ (BootstrapCommit(r) /\ req[r].mode # "user")
    PROVE  Opened
<1> DEFINE s == Fresh(Unused(Sessions, session))
           t == Fresh(Tokens \ minted)
<1>1. s \in Unused(Sessions, session) /\ t \in Tokens \ minted
  BY FreshIsMember DEF ActivateCommit, BootstrapCommit
<1>2. s \in Sessions /\ session[s].row = "none"
  BY <1>1 DEF Unused
<1>3. CASE ActivateCommit(r)
  <2>1. session' = [session EXCEPT ![s] =
                     [Blank EXCEPT !.row = "row", !.user = req[r].user,
                                   !.inst = req[r].inst, !.token = t]]
        /\ minted' = minted \cup {t} /\ history' = history
    BY <1>3 DEF ActivateCommit
  <2> HIDE DEF s, t
  <2> QED BY <1>1, <1>2, <1>3, <2>1 DEF Opened, Kept, Blank, TypeOK
<1>4. CASE BootstrapCommit(r) /\ req[r].mode # "user"
  <2>1. session' = [Revoke(req[r].seen) EXCEPT ![s] =
                     [Blank EXCEPT !.row = "row", !.mode = req[r].mode,
                                   !.inst = req[r].inst, !.token = t]]
        /\ minted' = minted \cup {t} /\ history' = history
    BY <1>4 DEF BootstrapCommit
  <2> HIDE DEF s, t
  <2>2. /\ session'[s].row = "row" /\ session'[s].token = t
        /\ session'[s].revoked = "no" /\ session'[s].mode # "user"
    BY <1>2, <1>4, <2>1, RevokeKeeps DEF Blank
  <2>3. \A other \in Sessions \ {s} : session'[other] = Revoke(req[r].seen)[other]
    BY <2>1, RevokeKeeps
  <2>4. \A other \in Sessions \ {s} : Kept(other)
    BY <2>3, RevokeKeeps DEF Kept, Row
  <2> QED BY <1>1, <1>2, <1>4, <2>1, <2>2, <2>4 DEF Opened
<1> QED BY <1>3, <1>4

\* Every step has one of the four effects.
LEMMA Effects ==
    ASSUME TypeOK, [Next]_vars
    PROVE  Marked \/ Opened \/ RotatedRow \/ Purged
<1> USE DEF users, tables, tokens, LocalStep
<1>1. UNCHANGED <<session, history, minted>> => Marked
  BY DEF Marked, Kept
<1>2. ASSUME NEW r \in Requests, Arrive(r) PROVE Marked
  BY <1>1, <1>2 DEF Arrive, ActivateLookup, BootstrapBegin, RefreshLookup, RefreshHistory,
                    CodeBegin, DisableAccess
<1>3. ASSUME NEW r \in Requests, Continue(r) PROVE Marked \/ Opened \/ RotatedRow
  <2>1. CASE ActivateCommit(r) \/ \E m \in PublicModes : req[r].mode = m /\ BootstrapCommit(r)
    BY <2>1, OpenEffect, PublicModesAssumption
  <2>2. CASE RefreshCommit(r)
    <3> DEFINE t == Fresh(Tokens \ minted)
    <3>1. t \in Tokens \ minted
      BY <2>2, FreshIsMember DEF RefreshCommit
    <3>2. \/ /\ history' = [history EXCEPT ![req[r].tok] = req[r].sid]
             /\ session' = Rotated(req[r].sid, t)
             /\ minted' = minted \cup {t}
          \/ UNCHANGED <<session, history, minted>>
      BY <2>2 DEF RefreshCommit
    <3>3. At(r, "refresh-write")
      BY <2>2 DEF RefreshCommit
    <3> HIDE DEF t
    <3> QED BY <1>1, <3>1, <3>2, <3>3 DEF RotatedRow
  <2>3. CASE RefreshReuse(r)
    BY <2>3 DEF RefreshReuse, ReuseRecorded, Marked, Kept, TypeOK, SessionRow, Row
  <2>4. CASE RefreshRevoke(r) \/ RevokeAll(r)
    BY <2>4, RevokeMarks DEF RefreshRevoke, RevokeAll
  <2>5. CASE \/ ActivateCheck(r) \/ ActivateLock(r) \/ RefreshCheck(r) \/ CodeSelect(r)
             \/ CodeRevoke(r) \/ CodeInsert(r) \/ RevokeSelect(r) \/ Reply(r)
    BY <1>1, <2>5 DEF ActivateCheck, ActivateLock, RefreshCheck, CodeSelect, CodeRevoke,
                      CodeInsert, RevokeSelect, Reply
  <2> QED BY <1>3, <2>1, <2>2, <2>3, <2>4, <2>5 DEF Continue
<1>4. ASSUME NEW r \in Requests, RequestFails(r) PROVE Marked
  BY <1>1, <1>4 DEF RequestFails
<1>5. CASE Environment
  <2>1. ASSUME NEW u \in Users, EnableAccess(u) \/ SetStatus(u) PROVE Marked
    BY <1>1, <2>1 DEF EnableAccess, SetStatus
  <2>2. ASSUME NEW u \in Users, DeleteUser(u) PROVE Purged
    BY <2>2 DEF DeleteUser, Purged, Blank, TypeOK
  <2>3. ASSUME NEW s \in Sessions, RevokeSession(s) PROVE Marked
    BY <2>3, RevokeMarks DEF RevokeSession
  <2>4. ASSUME NEW s \in Sessions, SessionExpires(s) PROVE Marked
    BY <2>4 DEF SessionExpires, Marked, Kept, TypeOK, SessionRow, Row
  <2>5. ASSUME NEW c \in Codes, CodeExpires(c) PROVE Marked
    BY <1>1, <2>5 DEF CodeExpires
  <2>6. CASE Restart
    BY <1>1, <2>6 DEF Restart
  <2> QED BY <1>5, <2>1, <2>2, <2>3, <2>4, <2>5, <2>6 DEF Environment
<1>6. CASE UNCHANGED vars
  BY <1>1, <1>6 DEF vars
<1> QED BY <1>2, <1>3, <1>4, <1>5, <1>6 DEF Next

-----------------------------------------------------------------------------
(* The row lock of a rotation *)

\* A step that lets no request start a rotation, and changes neither the token
\* nor the revocation of a row that a rotation still holds.
RespectsLocks ==
    /\ \A q \in Requests : req'[q].at = "refresh-write" => req'[q] = req[q]
    /\ \A q \in Requests : req'[q].at = "refresh-write" =>
         LET s == req[q].sid IN
         /\ session'[s].row = session[s].row
         /\ session'[s].token = session[s].token
         /\ session'[s].revoked = session[s].revoked

\* Such a step keeps what every rotation relies on.
LEMMA RespectsKeeps == ASSUME LockInv, RespectsLocks PROVE LockInv'
BY DEF LockInv, RespectsLocks, At, Holds, Row

\* A request that moves on, anywhere but into a rotation, takes no lock.
LEMMA MovesOn ==
    ASSUME TypeOK, NEW r \in Requests, NEW register, Goto(r, register),
           register.at # "refresh-write"
    PROVE  \A q \in Requests : req'[q].at = "refresh-write" => q # r /\ req'[q] = req[q]
BY DEF Goto, TypeOK, RequestsOK

\* The same for a request that only moves to another stage.
LEMMA MovesTo ==
    ASSUME TypeOK, NEW r \in Requests, NEW stage \in Stages \ {"refresh-write"}, Move(r, stage)
    PROVE  \A q \in Requests : req'[q].at = "refresh-write" => q # r /\ req'[q] = req[q]
<1>1. [req[r] EXCEPT !.at = stage].at = stage
  BY DEF TypeOK, RequestsOK, Register
<1> QED BY <1>1, MovesOn DEF Move

\* The same for a request that ends.
LEMMA Finishes ==
    ASSUME TypeOK, NEW r \in Requests, Finish(r)
    PROVE  \A q \in Requests : req'[q].at = "refresh-write" => q # r /\ req'[q] = req[q]
BY MovesOn DEF Finish, Idle

\* Revoking rows no rotation holds respects the locks.
LEMMA RevokeRespects ==
    ASSUME TypeOK, NEW set, \A s \in set : ~SessionLocked(s), session' = Revoke(set),
           \A q \in Requests : req'[q].at = "refresh-write" => req'[q] = req[q],
           LockInv
    PROVE  RespectsLocks
<1> SUFFICES ASSUME NEW q \in Requests, req'[q].at = "refresh-write"
             PROVE  session'[req[q].sid] = session[req[q].sid]
  BY DEF RespectsLocks
<1>1. SessionLocked(req[q].sid) /\ req[q].sid \in Sessions
  BY DEF SessionLocked, LockInv, At, Holds
<1> QED BY <1>1, RevokeKeeps

\* A rotation starts on a row that no other rotation holds.
LEMMA ArriveLocks ==
    ASSUME IInv, NEW r \in Requests, Arrive(r)
    PROVE  LockInv'
<1> USE DEF IInv, LocalStep, users, tables, tokens
<1>1. ASSUME NEW register, Goto(r, register), register.at # "refresh-write",
             session' = session
      PROVE  LockInv'
  BY <1>1, MovesOn, RespectsKeeps DEF RespectsLocks
<1>2. ASSUME NEW t \in delivered, NEW app \in Apps, RefreshLookup(r, t, app)
      PROVE  LockInv'
  <2>1. PICK s \in Sessions :
          /\ Row(s) /\ session[s].token = t /\ ~SessionLocked(s) /\ Live(s)
          /\ Goto(r, [Idle EXCEPT !.at = "refresh-write", !.sid = s, !.tok = t,
                        !.user = session[s].user, !.mode = session[s].mode])
    BY <1>2 DEF RefreshLookup
  <2>2. session' = session
    BY <1>2 DEF RefreshLookup
  <2>3. req'[r].sid = s /\ req'[r].tok = t /\ \A q \in Requests \ {r} : req'[q] = req[q]
    BY <2>1 DEF Goto, Idle, TypeOK, RequestsOK
  <2>4. ASSUME NEW q \in Requests, req'[q].at = "refresh-write"
        PROVE  /\ Holds(q)'
               /\ q # r => req'[q].sid # s
    BY <2>1, <2>2, <2>3, <2>4 DEF LockInv, Holds, At, Row, Live, SessionLocked
  <2> QED BY <2>3, <2>4 DEF LockInv, At
<1>3. ASSUME NEW c \in Codes, NEW i \in Installations, ActivateLookup(r, c, i) PROVE LockInv'
  BY <1>1, <1>3 DEF ActivateLookup, Idle
<1>4. ASSUME NEW i \in Installations, NEW m \in PublicModes, BootstrapBegin(r, i, m)
      PROVE LockInv'
  BY <1>1, <1>4 DEF BootstrapBegin, Idle
<1>5. ASSUME NEW t \in delivered, NEW app \in Apps, RefreshHistory(r, t, app) PROVE LockInv'
  BY <1>1, <1>5 DEF RefreshHistory, Idle
<1>6. ASSUME NEW u \in Users, CodeBegin(r, u) \/ DisableAccess(r, u) PROVE LockInv'
  BY <1>1, <1>6 DEF CodeBegin, DisableAccess, Idle
<1> QED BY <1>2, <1>3, <1>4, <1>5, <1>6 DEF Arrive

\* A request in flight leaves rows alone that a rotation of another holds.
LEMMA ContinueLocks ==
    ASSUME IInv, NEW r \in Requests, Continue(r)
    PROVE  LockInv'
<1> USE DEF IInv, LocalStep, users, tables, tokens
<1> DEFINE NoLock == \A q \in Requests : req'[q].at = "refresh-write" => q # r /\ req'[q] = req[q]
<1>1. NoLock /\ session' = session => LockInv'
  BY RespectsKeeps DEF RespectsLocks
<1>2. CASE ActivateCheck(r) \/ ActivateLock(r) \/ RefreshCheck(r)
  BY <1>1, <1>2, MovesTo, Finishes DEF ActivateCheck, ActivateLock, RefreshCheck, Stages
<1>3. CASE CodeRevoke(r) \/ CodeInsert(r) \/ Reply(r)
  BY <1>1, <1>3, MovesTo, Finishes DEF CodeRevoke, CodeInsert, Reply, Stages
<1>4. CASE CodeSelect(r) \/ RevokeSelect(r)
  <2>1. ASSUME NEW stage \in {"code-revoke", "revoke-all"}, NEW set,
               Goto(r, [req[r] EXCEPT !.at = stage, !.seen = set]), session' = session
        PROVE  LockInv'
    <3> DEFINE register == [req[r] EXCEPT !.at = stage, !.seen = set]
    <3>1. register.at = stage /\ Goto(r, register)
      BY <2>1 DEF TypeOK, RequestsOK, Register
    <3> HIDE DEF register
    <3> QED BY <1>1, <2>1, <3>1, MovesOn
  <2> QED BY <1>4, <2>1 DEF CodeSelect, RevokeSelect
<1>5. CASE RefreshRevoke(r) \/ RevokeAll(r)
  BY <1>5, Finishes, RevokeRespects, RespectsKeeps DEF RefreshRevoke, RevokeAll
<1>6. CASE RefreshReuse(r)
  <2>1. NoLock
    BY <1>6, MovesTo DEF RefreshReuse, Stages
  <2>2. \A q \in Requests : req'[q].at = "refresh-write" =>
          session'[req[q].sid] = session[req[q].sid]
    BY <1>6, <2>1 DEF RefreshReuse, ReuseRecorded, SessionLocked, LockInv, Holds, At, TypeOK
  <2> QED BY <2>1, <2>2, RespectsKeeps DEF RespectsLocks
<1>7. CASE ActivateCommit(r) \/ BootstrapCommit(r)
  <2>1. \A s, t : [req[r] EXCEPT !.at = "reply", !.sid = s, !.tok = t].at = "reply"
    BY DEF TypeOK, RequestsOK, Register
  <2>2. NoLock
    BY <1>7, <2>1, MovesOn DEF ActivateCommit, BootstrapCommit
  <2> DEFINE new == Fresh(Unused(Sessions, session))
  <2>3. new \in Sessions /\ session[new].row = "none"
    BY <1>7, FreshIsMember DEF ActivateCommit, BootstrapCommit, Unused
  <2>4. \A q \in Requests : req'[q].at = "refresh-write" => req[q].sid \in Sessions \ {new}
    BY <2>2, <2>3 DEF LockInv, Holds, At, Row
  <2>5. CASE ActivateCommit(r)
    <3>1. \A s \in Sessions \ {new} : session'[s] = session[s]
      BY <2>5 DEF ActivateCommit, TypeOK
    <3> QED BY <2>2, <2>4, <3>1, RespectsKeeps DEF RespectsLocks
  <2>6. CASE BootstrapCommit(r)
    <3>1. \A s \in Sessions \ {new} : session'[s] = Revoke(req[r].seen)[s]
      BY <2>6, RevokeKeeps DEF BootstrapCommit
    <3>2. \A q \in Requests : req'[q].at = "refresh-write" => req[q].sid \notin req[r].seen
      BY <2>6, <2>2 DEF BootstrapCommit, SessionLocked, At
    <3>3. \A q \in Requests : req'[q].at = "refresh-write" =>
            session'[req[q].sid] = session[req[q].sid]
      BY <2>4, <3>1, <3>2, RevokeKeeps
    <3> QED BY <2>2, <3>3, RespectsKeeps DEF RespectsLocks
  <2> QED BY <1>7, <2>5, <2>6
<1>8. CASE RefreshCommit(r)
  <2> DEFINE t == Fresh(Tokens \ minted)
  <2>1. [req[r] EXCEPT !.at = "refresh-check", !.tok = t].at = "refresh-check"
    BY DEF TypeOK, RequestsOK, Register
  <2>2. Finish(r) \/ Goto(r, [req[r] EXCEPT !.at = "refresh-check", !.tok = t])
    BY <1>8 DEF RefreshCommit
  <2>3. NoLock
    BY <2>1, <2>2, MovesOn, Finishes
  <2>4. session' = session \/ session' = Rotated(req[r].sid, t)
    BY <1>8 DEF RefreshCommit
  <2>5. \A q \in Requests : req'[q].at = "refresh-write" => req[q].sid # req[r].sid
    BY <1>8, <2>3 DEF RefreshCommit, LockInv, At
  <2> HIDE DEF t
  <2>6. \A q \in Requests : req'[q].at = "refresh-write" =>
          session'[req[q].sid] = session[req[q].sid]
    BY <2>3, <2>4, <2>5 DEF Rotated, LockInv, Holds, At, TypeOK
  <2> QED BY <2>3, <2>6, RespectsKeeps DEF RespectsLocks
<1> QED BY <1>2, <1>3, <1>4, <1>5, <1>6, <1>7, <1>8 DEF Continue

\* Other clients, admins, time and restarts do so too.
LEMMA EnvironmentLocks ==
    ASSUME IInv, Environment
    PROVE  LockInv'
<1> USE DEF IInv, users, tables, tokens
<1>1. req' = req /\ session' = session => LockInv'
  BY RespectsKeeps DEF RespectsLocks
<1>2. ASSUME NEW u \in Users, EnableAccess(u) \/ SetStatus(u) PROVE LockInv'
  BY <1>1, <1>2 DEF EnableAccess, SetStatus
<1>3. ASSUME NEW u \in Users, DeleteUser(u) PROVE LockInv'
  <2>1. \A q \in Requests : At(q, "refresh-write") =>
          session'[req[q].sid] = session[req[q].sid]
    BY <1>3 DEF DeleteUser, SessionLocked, LockInv, Holds, At
  <2> QED BY <1>3, <2>1, RespectsKeeps DEF DeleteUser, RespectsLocks, At
<1>4. ASSUME NEW s \in Sessions, RevokeSession(s) PROVE LockInv'
  BY <1>4, RevokeRespects, RespectsKeeps DEF RevokeSession
<1>5. ASSUME NEW s \in Sessions, SessionExpires(s) PROVE LockInv'
  <2>1. \A o \in Sessions : /\ session'[o].row = session[o].row
                            /\ session'[o].token = session[o].token
                            /\ session'[o].revoked = session[o].revoked
    BY <1>5 DEF SessionExpires, TypeOK, SessionRow
  <2> QED BY <1>5, <2>1, RespectsKeeps DEF SessionExpires, RespectsLocks, LockInv, Holds, At
<1>6. ASSUME NEW c \in Codes, CodeExpires(c) PROVE LockInv'
  BY <1>1, <1>6 DEF CodeExpires
<1>7. CASE Restart
  BY <1>7 DEF Restart, LockInv, At, Idle
<1> QED BY <1>2, <1>3, <1>4, <1>5, <1>6, <1>7 DEF Environment

\* Every step keeps the locks.
LEMMA NextLocks == ASSUME IInv, [Next]_vars PROVE LockInv'
<1>1. ASSUME NEW r \in Requests, RequestFails(r) PROVE LockInv'
  BY <1>1, Finishes, RespectsKeeps
     DEF IInv, RequestFails, LocalStep, tables, RespectsLocks
<1>2. CASE UNCHANGED vars
  BY <1>2, RespectsKeeps DEF IInv, vars, tables, RespectsLocks
<1> QED BY <1>1, <1>2, ArriveLocks, ContinueLocks, EnvironmentLocks DEF Next

-----------------------------------------------------------------------------
(* Tokens *)

\* A rotation replaces the token of the session it has locked by a fresh one.
LEMMA RotationFacts ==
    ASSUME IInv, RotatedRow
    PROVE  \E s \in Sessions, old \in Tokens \cup {None}, t \in Tokens \ minted :
              /\ Row(s) /\ session[s].token = old /\ session[s].revoked = "no"
              /\ minted' = minted \cup {t}
              /\ history' = [history EXCEPT ![old] = s]
              /\ session'[s] = [session[s] EXCEPT !.token = t] /\ session[s] \in SessionRow
              /\ session'[s].row = "row" /\ session'[s].token = t
              /\ \A other \in Sessions \ {s} : session'[other] = session[other]
<1>1. PICK r \in Requests, t \in Tokens \ minted :
        /\ At(r, "refresh-write")
        /\ minted' = minted \cup {t}
        /\ history' = [history EXCEPT ![req[r].tok] = req[r].sid]
        /\ session' = Rotated(req[r].sid, t)
  BY DEF RotatedRow
<1>2. Holds(r) /\ req[r].tok \in Tokens \cup {None}
  BY <1>1 DEF IInv, LockInv, TypeOK, RequestsOK, Register
<1>3. session'[req[r].sid] = [session[req[r].sid] EXCEPT !.token = t]
  BY <1>1, <1>2 DEF Rotated, Holds, IInv, TypeOK
<1>4. session[req[r].sid] \in SessionRow
  BY <1>2 DEF Holds, IInv, TypeOK
<1>5. session'[req[r].sid].row = "row" /\ session'[req[r].sid].token = t
  BY <1>2, <1>3, <1>4 DEF Holds, Row, SessionRow
<1> QED BY <1>1, <1>2, <1>3, <1>4, <1>5 DEF Rotated, Holds, IInv, TypeOK

\* Every effect keeps the tokens unique and the spent ones apart.
LEMMA NextTokens ==
    ASSUME IInv, [Next]_vars
    PROVE  HistoryInv' /\ TokenIdentifiesOneSession'
<1> USE DEF IInv
<1>1. \A s \in Sessions : Row(s) => session[s].token \in minted /\ history[session[s].token] = None
  BY DEF TokenIdentifiesOneSession, TypeOK, RowsOK, Row
<1>2. CASE Marked
  BY <1>1, <1>2 DEF Marked, Kept, HistoryInv, TokenIdentifiesOneSession, Row
<1>3. CASE Opened
  <2>1. PICK s \in Sessions, t \in Tokens \ minted :
          /\ minted' = minted \cup {t} /\ history' = history
          /\ session[s].row = "none"
          /\ session'[s].row = "row" /\ session'[s].token = t
          /\ \A other \in Sessions \ {s} : Kept(other)
    BY <1>3 DEF Opened
  <2>2. history[t] = None
    BY DEF HistoryInv
  <2> QED BY <1>1, <2>1, <2>2 DEF Kept, HistoryInv, TokenIdentifiesOneSession, Row
<1>4. CASE RotatedRow
  <2>1. PICK s \in Sessions, old \in Tokens \cup {None}, t \in Tokens \ minted :
          /\ Row(s) /\ session[s].token = old
          /\ minted' = minted \cup {t}
          /\ history' = [history EXCEPT ![old] = s]
          /\ session'[s].row = "row" /\ session'[s].token = t
          /\ \A other \in Sessions \ {s} : session'[other] = session[other]
    BY <1>4, RotationFacts
  <2>2. old \in minted /\ minted \subseteq Tokens /\ history[t] = None /\ t # old
    BY <1>1, <2>1 DEF TypeOK, HistoryInv
  <2>3. \A u \in Tokens : history'[u] = IF u = old THEN s ELSE history[u]
    BY <2>1, <2>2 DEF TypeOK
  <2>4. HistoryInv'
    BY <2>1, <2>2, <2>3 DEF HistoryInv
  <2>5. ASSUME NEW o \in Sessions \ {s}, Row(o)'
        PROVE  /\ Row(o) /\ session'[o].token = session[o].token
               /\ session[o].token # old /\ session[o].token # t
               /\ session[o].token \in Tokens
    BY <1>1, <2>1, <2>2, <2>5 DEF Row, TokenIdentifiesOneSession
  <2>6. TokenIdentifiesOneSession'
    BY <1>1, <2>1, <2>2, <2>3, <2>5 DEF TokenIdentifiesOneSession, Row
  <2> QED BY <2>4, <2>6
<1>5. CASE Purged
  <2>1. PICK own \in SUBSET Sessions :
          /\ minted' = minted
          /\ \A s \in own : session'[s].row = "deleted"
          /\ \A s \in Sessions \ own : session'[s] = session[s]
          /\ \A t \in Tokens : history'[t] \in {history[t], None}
    BY <1>5 DEF Purged
  <2>2. \A s \in Sessions : Row(s)' => Row(s) /\ session'[s] = session[s]
    BY <2>1 DEF Row
  <2> QED BY <1>1, <2>1, <2>2 DEF HistoryInv, TokenIdentifiesOneSession, TypeOK
<1> QED BY <1>2, <1>3, <1>4, <1>5, Effects

\* The inductive invariant.
LEMMA InitIInv == Init => IInv
BY InitTypes DEF Init, IInv, LockInv, HistoryInv, TokenIdentifiesOneSession, At, Idle, Row, Blank

LEMMA NextIInv == IInv /\ [Next]_vars => IInv'
BY NextTypes, NextLocks, NextTokens DEF IInv

LEMMA IInvHolds == Spec => []IInv
BY InitIInv, NextIInv, PTL DEF Spec

\* A refresh token is the current token of one session at most, and a token
\* that was rotated out is never current again (refreshMobileSession,
\* lib/mobile-auth.js).
THEOREM TokensIdentify == Spec => []TokenIdentifiesOneSession
BY IInvHolds, PTL DEF IInv

\* A revoked session stays revoked, its token frozen and the evidence of reuse
\* with it, whatever requests were halfway through it.
THEOREM RevocationHolds == Spec => RevocationIsFinal
<1> DEFINE Final(s) == Row(s) /\ session[s].revoked # "no" =>
        \/ session'[s].row = "deleted"
        \/ /\ session'[s].row = "row"
           /\ session'[s].revoked # "no"
           /\ session'[s].token = session[s].token
           /\ session[s].revoked = "reuse" => session'[s].revoked = "reuse"
<1>1. ASSUME IInv, [Next]_vars, NEW s \in Sessions PROVE Final(s)
  <2>1. CASE Marked
    BY <2>1 DEF Marked, Kept, Row
  <2>2. CASE Opened
    BY <2>2 DEF Opened, Kept, Row
  <2>3. CASE RotatedRow
    BY <1>1, <2>3, RotationFacts DEF Row
  <2>4. CASE Purged
    BY <2>4 DEF Purged, Row
  <2> QED BY <1>1, <2>1, <2>2, <2>3, <2>4, Effects DEF IInv
<1>2. IInv /\ [Next]_vars => [\A s \in Sessions : Final(s)]_session
  BY <1>1
<1> QED BY <1>2, IInvHolds, PTL DEF Spec, RevocationIsFinal

-----------------------------------------------------------------------------
(* What requests answer and leave *)

Answering == {"refresh-check", "reply"}
Reusing == {"refresh-reuse", "reused"}

\* The session a request is about to answer for exists or was deleted; its
\* token is on no way but this one, ...
Answers(r) ==
    /\ req[r].at \in Answering \cup Reusing =>
         req[r].sid \in Sessions /\ session[req[r].sid].row # "none"
    /\ req[r].at \in Answering =>
         /\ req[r].tok \notin delivered
         /\ Row(req[r].sid) => session[req[r].sid].token = req[r].tok
    /\ req[r].at = "refresh-write" => req[r].tok \in delivered
    /\ At(r, "reused") /\ Row(req[r].sid) => session[req[r].sid].revoked = "reuse"

\* ... for no two requests have it.
AnswerInv ==
    /\ \A r \in Requests : Answers(r)
    /\ \A r, q \in Requests :
         req[r].at \in Answering /\ req[q].at \in Answering /\ req[r].tok = req[q].tok => r = q

\* A token that was spent belongs to a session that was opened.
SpentInv == \A t \in Tokens : history[t] # None => session[history[t]].row # "none"

-----------------------------------------------------------------------------

\* A rotation takes a token that a client has, hence none that is on its way.
LEMMA SessionsOfAnswers ==
    ASSUME IInv, AnswerInv, [Next]_vars,
           NEW r \in Requests, req[r].at \in Answering \cup Reusing,
           NEW s, s = req[r].sid
    PROVE  /\ session'[s].row # "none"
           /\ Row(s)' => Row(s)
           /\ Row(s)' /\ req[r].at \in Answering => session'[s].token = session[s].token
           /\ Row(s)' /\ session[s].revoked = "reuse" => session'[s].revoked = "reuse"
<1>1. s \in Sessions /\ session[s].row # "none"
  BY DEF AnswerInv, Answers
<1>2. CASE Marked
  BY <1>1, <1>2 DEF Marked, Kept, Row
<1>3. CASE Opened
  BY <1>1, <1>3 DEF Opened, Kept, Row
<1>4. CASE RotatedRow
  <2>1. PICK q \in Requests, t \in Tokens \ minted :
          At(q, "refresh-write") /\ session' = Rotated(req[q].sid, t)
    BY <1>4 DEF RotatedRow
  <2>2. Holds(q) /\ req[q].tok \in delivered
    BY <2>1 DEF IInv, LockInv, AnswerInv, Answers, At
  <2>3. session'[req[q].sid] = [session[req[q].sid] EXCEPT !.token = t]
        /\ \A o \in Sessions \ {req[q].sid} : session'[o] = session[o]
    BY <2>1, <2>2 DEF Rotated, Holds, IInv, TypeOK
  <2>4. session[req[q].sid] \in SessionRow
    BY <2>2 DEF Holds, IInv, TypeOK
  <2>5. CASE s = req[q].sid
    <3>1. session'[s].row = session[s].row /\ session'[s].revoked = session[s].revoked
      BY <2>3, <2>4, <2>5 DEF SessionRow
    <3>2. Row(s) /\ session[s].token \in delivered
      BY <2>2, <2>5 DEF Holds
    <3>3. req[r].at \notin Answering
      BY <3>2 DEF AnswerInv, Answers
    <3> QED BY <1>1, <3>1, <3>3 DEF Row
  <2>6. CASE s # req[q].sid
    BY <1>1, <2>3, <2>6 DEF Row
  <2> QED BY <2>5, <2>6
<1>5. CASE Purged
  BY <1>1, <1>5 DEF Purged, Row
<1> QED BY <1>2, <1>3, <1>4, <1>5, Effects DEF IInv

\* A request that does nothing in a step answers as before.
LEMMA OtherAnswers ==
    ASSUME IInv, AnswerInv, [Next]_vars, NEW q \in Requests, req'[q] = req[q],
           delivered \subseteq delivered',
           req[q].at \in Answering => req[q].tok \notin delivered'
    PROVE  Answers(q)'
<1>1. Answers(q)
  BY DEF AnswerInv
<1>2. CASE req[q].at \in Answering \cup Reusing
  <2>1. req[q].at # "refresh-write"
    BY <1>2 DEF Answering, Reusing
  <2>2. PICK s : s = req[q].sid
    OBVIOUS
  <2> QED BY <1>1, <1>2, <2>1, <2>2, SessionsOfAnswers DEF Answers, At, Row
<1>3. CASE req[q].at \notin Answering \cup Reusing
  BY <1>1, <1>3 DEF Answers, Reusing, At
<1> QED BY <1>2, <1>3

\* What has to be shown of a step of request r: the others answer as before.
LEMMA OneAnswers ==
    ASSUME IInv, AnswerInv, [Next]_vars, NEW r \in Requests,
           \A q \in Requests \ {r} : req'[q] = req[q],
           delivered \subseteq delivered',
           \A q \in Requests \ {r} : req[q].at \in Answering => req[q].tok \notin delivered',
           Answers(r)',
           req'[r].at \in Answering =>
              \/ req'[r].tok \notin minted
              \/ req[r].at \in Answering /\ req'[r].tok = req[r].tok
    PROVE  AnswerInv'
<1>1. ASSUME NEW q \in Requests \ {r} PROVE Answers(q)'
  BY OtherAnswers
<1>2. \A q \in Requests : req[q].at \in Answering => req[q].tok \in minted
  BY DEF Answering, IInv, TypeOK, RequestsOK
<1>3. ASSUME NEW p \in Requests, NEW q \in Requests,
             (req[p].at \in Answering)', (req[q].at \in Answering)', (req[p].tok = req[q].tok)'
      PROVE  p = q
  BY <1>2, <1>3 DEF AnswerInv, Answering
<1> QED BY <1>1, <1>3 DEF AnswerInv

\* A step after which r is not about to answer.
LEMMA Silent ==
    ASSUME IInv, AnswerInv, [Next]_vars, NEW r \in Requests, NEW register, Goto(r, register),
           register.at \notin Answering \cup Reusing \cup {"refresh-write"},
           delivered' = delivered
    PROVE  AnswerInv'
<1>1. req'[r] = register /\ \A q \in Requests \ {r} : req'[q] = req[q]
  BY DEF Goto, IInv, TypeOK, RequestsOK
<1>2. Answers(r)'
  BY <1>1 DEF Answers, At, Answering, Reusing
<1>3. \A q \in Requests : req[q].at \in Answering => req[q].tok \notin delivered'
  BY DEF AnswerInv, Answers
<1>4. req'[r].at \notin Answering
  BY <1>1
<1> QED BY <1>1, <1>2, <1>3, <1>4, OneAnswers

\* No step of a request: time, other clients.
LEMMA StillAnswers ==
    ASSUME IInv, AnswerInv, [Next]_vars, req' = req, delivered' = delivered
    PROVE  AnswerInv'
<1>1. ASSUME NEW q \in Requests PROVE Answers(q)'
  BY OtherAnswers DEF AnswerInv, Answers
<1> QED BY <1>1 DEF AnswerInv

\* A request begins with a token that reached a client, or with one that was
\* spent.
LEMMA ArriveAnswers ==
    ASSUME IInv, AnswerInv, SpentInv, [Next]_vars, NEW r \in Requests, Arrive(r)
    PROVE  AnswerInv'
<1> USE DEF LocalStep, tokens
<1>1. ASSUME NEW t \in delivered, NEW app \in Apps, RefreshLookup(r, t, app)
      PROVE  AnswerInv'
  <2>1. PICK s \in Sessions :
          Goto(r, [Idle EXCEPT !.at = "refresh-write", !.sid = s, !.tok = t,
                     !.user = session[s].user, !.mode = session[s].mode])
    BY <1>1 DEF RefreshLookup
  <2>2. delivered' = delivered
    BY <1>1 DEF RefreshLookup
  <2>3. /\ req'[r].at = "refresh-write" /\ req'[r].tok = t
        /\ \A q \in Requests \ {r} : req'[q] = req[q]
    BY <2>1 DEF Goto, Idle, IInv, TypeOK, RequestsOK
  <2>4. Answers(r)'
    BY <2>2, <2>3 DEF Answers, Answering, Reusing, At
  <2>5. \A q \in Requests : req[q].at \in Answering => req[q].tok \notin delivered'
    BY <2>2 DEF AnswerInv, Answers
  <2> QED BY <2>2, <2>3, <2>4, <2>5, OneAnswers DEF Answering
<1>2. ASSUME NEW t \in delivered, NEW app \in Apps, RefreshHistory(r, t, app)
      PROVE  AnswerInv'
  <2>1. /\ history[t] # None /\ delivered' = delivered /\ session' = session
        /\ Goto(r, [Idle EXCEPT !.at = "refresh-reuse", !.sid = history[t], !.tok = t])
    BY <1>2 DEF RefreshHistory, tables
  <2>2. /\ req'[r].at = "refresh-reuse" /\ req'[r].sid = history[t]
        /\ \A q \in Requests \ {r} : req'[q] = req[q]
    BY <2>1 DEF Goto, Idle, IInv, TypeOK, RequestsOK
  <2>3. history[t] \in Sessions /\ session[history[t]].row # "none"
    BY <2>1 DEF SpentInv, IInv, TypeOK
  <2>4. Answers(r)'
    BY <2>1, <2>2, <2>3 DEF Answers, Answering, Reusing, At
  <2>5. \A q \in Requests : req[q].at \in Answering => req[q].tok \notin delivered'
    BY <2>1 DEF AnswerInv, Answers
  <2> QED BY <2>1, <2>2, <2>4, <2>5, OneAnswers DEF Answering
<1>3. ASSUME NEW c \in Codes, NEW i \in Installations, ActivateLookup(r, c, i)
      PROVE  AnswerInv'
  BY <1>3, Silent DEF ActivateLookup, Idle, Answering, Reusing
<1>4. ASSUME NEW i \in Installations, NEW m \in PublicModes, BootstrapBegin(r, i, m)
      PROVE  AnswerInv'
  BY <1>4, Silent DEF BootstrapBegin, Idle, Answering, Reusing
<1>5. ASSUME NEW u \in Users, CodeBegin(r, u) \/ DisableAccess(r, u) PROVE AnswerInv'
  BY <1>5, Silent DEF CodeBegin, DisableAccess, Idle, Answering, Reusing
<1> QED BY <1>1, <1>2, <1>3, <1>4, <1>5 DEF Arrive

\* A request that moves on to a stage where it does not answer.
LEMMA SilentMove ==
    ASSUME IInv, AnswerInv, [Next]_vars, NEW r \in Requests,
           NEW stage \in Stages \ (Answering \cup Reusing \cup {"refresh-write"}),
           Move(r, stage), delivered' = delivered
    PROVE  AnswerInv'
<1>1. [req[r] EXCEPT !.at = stage].at = stage
  BY DEF IInv, TypeOK, RequestsOK, Register
<1> QED BY <1>1, Silent DEF Move

\* A request that ends.
LEMMA SilentEnd ==
    ASSUME IInv, AnswerInv, [Next]_vars, NEW r \in Requests, Finish(r), delivered' = delivered
    PROVE  AnswerInv'
BY Silent DEF Finish, Idle, Answering, Reusing

\* A new token is on its way to one client.
LEMMA MintAnswers ==
    ASSUME IInv, AnswerInv, [Next]_vars, NEW r \in Requests, NEW s \in Sessions,
           NEW t \in Tokens \ minted, NEW stage \in Answering,
           Goto(r, [req[r] EXCEPT !.at = stage, !.sid = s, !.tok = t]),
           session'[s].row = "row", session'[s].token = t, delivered' = delivered
    PROVE  AnswerInv'
<1>1. /\ req'[r].at = stage /\ req'[r].sid = s /\ req'[r].tok = t
      /\ \A q \in Requests \ {r} : req'[q] = req[q]
  BY DEF Goto, IInv, TypeOK, RequestsOK, Register
<1>2. t \notin delivered
  BY DEF IInv, TypeOK
<1>3. Answers(r)'
  BY <1>1, <1>2 DEF Answers, Answering, Reusing, At
<1>4. \A q \in Requests : req[q].at \in Answering => req[q].tok \notin delivered'
  BY DEF AnswerInv, Answers
<1> QED BY <1>1, <1>3, <1>4, OneAnswers

\* What becomes of the answers of a request in flight.
LEMMA ContinueAnswers ==
    ASSUME IInv, AnswerInv, SpentInv, [Next]_vars, NEW r \in Requests, Continue(r)
    PROVE  AnswerInv'
<1> USE DEF LocalStep, tokens
<1>1. CASE ActivateCommit(r) \/ BootstrapCommit(r)
  <2> DEFINE s == Fresh(Unused(Sessions, session))
             t == Fresh(Tokens \ minted)
  <2>1. s \in Sessions /\ t \in Tokens \ minted
    BY <1>1, FreshIsMember DEF ActivateCommit, BootstrapCommit, Unused
  <2>2. /\ Goto(r, [req[r] EXCEPT !.at = "reply", !.sid = s, !.tok = t])
        /\ delivered' = delivered
    BY <1>1 DEF ActivateCommit, BootstrapCommit
  <2>3. \/ session' = [session EXCEPT ![s] =
                        [Blank EXCEPT !.row = "row", !.user = req[r].user,
                                      !.inst = req[r].inst, !.token = t]]
        \/ session' = [Revoke(req[r].seen) EXCEPT ![s] =
                        [Blank EXCEPT !.row = "row", !.mode = req[r].mode,
                                      !.inst = req[r].inst, !.token = t]]
    BY <1>1 DEF ActivateCommit, BootstrapCommit
  <2> HIDE DEF s, t
  <2>4. session'[s].row = "row" /\ session'[s].token = t
    <3>1. DOMAIN session = Sessions /\ DOMAIN Revoke(req[r].seen) = Sessions
      BY DEF Revoke, IInv, TypeOK
    <3> QED BY <2>1, <2>3, <3>1 DEF Blank
  <2> QED BY <2>1, <2>2, <2>4, MintAnswers DEF Answering
<1>2. CASE RefreshCommit(r)
  <2> DEFINE t == Fresh(Tokens \ minted)
  <2>1. /\ t \in Tokens \ minted /\ delivered' = delivered /\ At(r, "refresh-write")
    BY <1>2, FreshIsMember DEF RefreshCommit
  <2>2. \/ Finish(r)
        \/ /\ session' = Rotated(req[r].sid, t)
           /\ Goto(r, [req[r] EXCEPT !.at = "refresh-check", !.tok = t])
    BY <1>2 DEF RefreshCommit
  <2> HIDE DEF t
  <2>3. req[r].sid \in Sessions /\ Row(req[r].sid)
    BY <2>1 DEF IInv, LockInv, Holds
  <2>4. CASE session' = Rotated(req[r].sid, t)
             /\ Goto(r, [req[r] EXCEPT !.at = "refresh-check", !.tok = t])
    <3>1. session'[req[r].sid] = [session[req[r].sid] EXCEPT !.token = t]
          /\ session[req[r].sid] \in SessionRow
      BY <2>3, <2>4 DEF Rotated, IInv, TypeOK
    <3>2. session'[req[r].sid].row = "row" /\ session'[req[r].sid].token = t
      BY <2>3, <3>1 DEF SessionRow, Row
    <3>3. [req[r] EXCEPT !.at = "refresh-check", !.tok = t]
            = [req[r] EXCEPT !.at = "refresh-check", !.sid = req[r].sid, !.tok = t]
      BY DEF IInv, TypeOK, RequestsOK, Register
    <3> QED BY <2>1, <2>3, <2>4, <3>2, <3>3, MintAnswers DEF Answering
  <2> QED BY <2>1, <2>2, <2>4, SilentEnd
<1>3. CASE RefreshReuse(r)
  <2>1. /\ At(r, "refresh-reuse") /\ session' = ReuseRecorded(req[r].sid)
        /\ req' = [req EXCEPT ![r] = [req[r] EXCEPT !.at = "reused"]]
        /\ delivered' = delivered
    BY <1>3 DEF RefreshReuse, Move, Goto
  <2>2. /\ req'[r].at = "reused" /\ req'[r].sid = req[r].sid
        /\ \A q \in Requests \ {r} : req'[q] = req[q]
    BY <2>1 DEF IInv, TypeOK, RequestsOK, Register
  <2>3. req[r].sid \in Sessions /\ session[req[r].sid].row # "none"
        /\ session[req[r].sid] \in SessionRow
    BY <2>1 DEF AnswerInv, Answers, Reusing, At, IInv, TypeOK
  <2>4. /\ session'[req[r].sid].row # "none"
        /\ session'[req[r].sid].row = "row" => session'[req[r].sid].revoked = "reuse"
    BY <2>1, <2>3 DEF ReuseRecorded, Row, SessionRow, IInv, TypeOK
  <2>5. Answers(r)'
    BY <2>2, <2>3, <2>4 DEF Answers, Answering, Reusing, At, Row
  <2>6. \A q \in Requests : req[q].at \in Answering => req[q].tok \notin delivered'
    BY <2>1 DEF AnswerInv, Answers
  <2> QED BY <2>1, <2>2, <2>5, <2>6, OneAnswers DEF Answering
<1>4. CASE RefreshCheck(r)
  <2>1. /\ At(r, "refresh-check") /\ delivered' = delivered /\ session' = session
        /\ Move(r, "reply") \/ Move(r, "refresh-revoke") \/ Finish(r)
    BY <1>4 DEF RefreshCheck, tables
  <2>2. CASE Move(r, "reply")
    <3>1. /\ req'[r].at = "reply" /\ req'[r].sid = req[r].sid /\ req'[r].tok = req[r].tok
          /\ \A q \in Requests \ {r} : req'[q] = req[q]
      BY <2>2 DEF Move, Goto, IInv, TypeOK, RequestsOK, Register
    <3>2. Answers(r)'
      BY <2>1, <3>1 DEF AnswerInv, Answers, Answering, Reusing, At, Row
    <3>3. \A q \in Requests : req[q].at \in Answering => req[q].tok \notin delivered'
      BY <2>1 DEF AnswerInv, Answers
    <3> QED BY <2>1, <3>1, <3>2, <3>3, OneAnswers DEF Answering, At
  <2>3. CASE Move(r, "refresh-revoke")
    BY <2>1, <2>3, SilentMove DEF Stages, Answering, Reusing
  <2> QED BY <2>1, <2>2, <2>3, SilentEnd
<1>5. CASE Reply(r)
  <2>1. /\ Finish(r)
        /\ delivered' = IF At(r, "reply") THEN delivered \cup {req[r].tok} ELSE delivered
    BY <1>5 DEF Reply
  <2>2. req'[r].at = "idle" /\ \A q \in Requests \ {r} : req'[q] = req[q]
    BY <2>1 DEF Finish, Goto, Idle, IInv, TypeOK, RequestsOK
  <2>3. \A q \in Requests \ {r} : req[q].at \in Answering => req[q].tok \notin delivered'
    BY <2>1 DEF AnswerInv, Answers, Answering, At
  <2>4. Answers(r)'
    BY <2>2 DEF Answers, Answering, Reusing, At
  <2> QED BY <2>1, <2>2, <2>3, <2>4, OneAnswers DEF Answering
<1>6. CASE \/ ActivateCheck(r) \/ ActivateLock(r) \/ RefreshRevoke(r) \/ CodeRevoke(r)
           \/ CodeInsert(r) \/ RevokeAll(r)
  BY <1>6, SilentMove, SilentEnd
     DEF ActivateCheck, ActivateLock, RefreshRevoke, CodeRevoke, CodeInsert, RevokeAll,
         Stages, Answering, Reusing
<1>7. CASE CodeSelect(r) \/ RevokeSelect(r)
  <2>1. ASSUME NEW stage \in {"code-revoke", "revoke-all"}, NEW set,
               Goto(r, [req[r] EXCEPT !.at = stage, !.seen = set]), delivered' = delivered
        PROVE  AnswerInv'
    <3> DEFINE register == [req[r] EXCEPT !.at = stage, !.seen = set]
    <3>1. register.at = stage /\ Goto(r, register)
      BY <2>1 DEF IInv, TypeOK, RequestsOK, Register
    <3> HIDE DEF register
    <3> QED BY <2>1, <3>1, Silent DEF Answering, Reusing
  <2> QED BY <1>7, <2>1 DEF CodeSelect, RevokeSelect
<1> QED BY <1>1, <1>2, <1>3, <1>4, <1>5, <1>6, <1>7 DEF Continue

\* Every step keeps the answers.
LEMMA NextAnswers ==
    ASSUME IInv, AnswerInv, SpentInv, [Next]_vars
    PROVE  AnswerInv'
<1> USE DEF LocalStep, tokens
<1>1. ASSUME NEW r \in Requests, RequestFails(r) PROVE AnswerInv'
  BY <1>1, SilentEnd DEF RequestFails
<1>2. CASE Environment
  <2>1. CASE Restart
    BY <2>1 DEF Restart, AnswerInv, Answers, Answering, Reusing, At, Idle
  <2>2. req' = req /\ delivered' = delivered => AnswerInv'
    BY StillAnswers
  <2> QED BY <1>2, <2>1, <2>2
          DEF Environment, EnableAccess, DeleteUser, SetStatus, RevokeSession, SessionExpires,
              CodeExpires
<1>3. CASE UNCHANGED vars
  BY <1>3, StillAnswers DEF vars
<1> QED BY <1>1, <1>2, <1>3, ArriveAnswers, ContinueAnswers DEF Next

\* Tokens are spent by sessions that were opened, and a session that was
\* deleted takes its tokens with it.
LEMMA NextSpent ==
    ASSUME IInv, SpentInv, [Next]_vars
    PROVE  SpentInv'
<1>1. \A t \in Tokens : history[t] # None => history[t] \in Sessions
  BY DEF IInv, TypeOK
<1>2. CASE Marked
  BY <1>1, <1>2 DEF Marked, Kept, SpentInv
<1>3. CASE Opened
  BY <1>1, <1>3 DEF Opened, Kept, SpentInv
<1>4. CASE RotatedRow
  <2>1. PICK s \in Sessions, old \in Tokens \cup {None}, t \in Tokens \ minted :
          /\ Row(s) /\ session[s].token = old
          /\ history' = [history EXCEPT ![old] = s]
          /\ session'[s].row = "row"
          /\ \A other \in Sessions \ {s} : session'[other] = session[other]
    BY <1>4, RotationFacts
  <2>2. \A u \in Tokens : history'[u] \in {s, history[u]}
    BY <2>1 DEF IInv, TypeOK
  <2> QED BY <1>1, <2>1, <2>2 DEF SpentInv
<1>5. CASE Purged
  BY <1>1, <1>5 DEF Purged, SpentInv
<1> QED BY <1>2, <1>3, <1>4, <1>5, Effects DEF IInv

\* What answers rely on is an invariant.
LEMMA AnswersHold == Spec => [](IInv /\ AnswerInv /\ SpentInv)
<1>1. Init => AnswerInv /\ SpentInv
  BY DEF Init, AnswerInv, SpentInv, Answers, Answering, Reusing, At, Idle
<1>2. IInv /\ AnswerInv /\ SpentInv /\ [Next]_vars => AnswerInv' /\ SpentInv'
  BY NextAnswers, NextSpent
<1> QED BY <1>1, <1>2, IInvHolds, PTL DEF Spec

\* The token that activateMobileSession, a bootstrap or refreshMobileSession
\* (lib/mobile-auth.js) is about to answer is current: no later refresh has
\* spent it.
THEOREM AnswersAreCurrent == Spec => []AnsweredTokenIsCurrent
<1>1. AnswerInv => AnsweredTokenIsCurrent
  BY DEF AnswerInv, Answers, Answering, AnsweredTokenIsCurrent, At
<1> QED BY <1>1, AnswersHold, PTL

\* REFRESH_TOKEN_REUSED is answered only once the session is revoked for it,
\* or gone.
THEOREM ReuseIsRevoked == Spec => []ReuseRevokesSession
<1>1. AnswerInv => ReuseRevokesSession
  BY DEF AnswerInv, Answers, ReuseRevokesSession
<1> QED BY <1>1, AnswersHold, PTL

-----------------------------------------------------------------------------
(* Activation codes *)

Activating == {"activate-check", "activate-lock", "activate-write"}

\* The code an activation has looked up is a row, its user the one that was
\* read, or it was deleted; from the lock to the write it can be used.
Activates(r) ==
    /\ req[r].at \in Activating =>
         /\ req[r].code \in Codes /\ code[req[r].code].row # "none"
         /\ CodeRowExists(req[r].code) => code[req[r].code].user = req[r].user
    /\ At(r, "activate-write") =>
         /\ CodeRowExists(req[r].code)
         /\ code[req[r].code].used = None /\ ~code[req[r].code].revoked
         /\ \A q \in Requests : At(q, "activate-write") /\ req[q].code = req[r].code => q = r

\* Each session of a user was opened by a code of that user: who is deleted
\* takes both along.
Opens(c, s) == CodeRowExists(c) /\ code[c].used = s /\ code[c].user = session[s].user
UserSession(s) == Row(s) /\ session[s].mode = "user"

SpentOnce(c) == ~(code[c].used # None /\ code[c].revoked)

CodesInv ==
    /\ \A r \in Requests : Activates(r)
    /\ \A s \in Sessions : UserSession(s) => \E c \in Codes : Opens(c, s)
    /\ \A c \in Codes : SpentOnce(c)

\* A row of a code keeps its user; one that a request has locked stays as it
\* was, but for its expiry.
CodeKept(c) ==
    /\ code'[c].row = code[c].row
    /\ code'[c].user = code[c].user
    /\ code'[c].used = code[c].used
    /\ code'[c].revoked = code[c].revoked

CodesChange ==
    /\ \A c \in Codes : code[c].row # "none" => code'[c].row # "none"
    /\ \A c \in Codes : code[c].row # "none" /\ code'[c].row = "row" =>
         /\ code[c].row = "row"
         /\ code'[c].user = code[c].user /\ code'[c].used = code[c].used
    /\ \A c \in Codes : SpentOnce(c) => SpentOnce(c)'

\* Sessions of users are opened by ActivateCommit alone, and keep their user.
NoNewUserSession ==
    \A s \in Sessions : UserSession(s)' => UserSession(s) /\ session'[s].user = session[s].user

\* No session of a user is left by a deletion of a code.
RowsGoTogether ==
    \A c \in Codes, s \in Sessions : Opens(c, s) /\ Row(s)' => CodeRowExists(c)'

\* A new code revokes the codes of its user that are not spent.
LEMMA RevokeCodesChange ==
    ASSUME TypeOK, NEW set, code' = RevokeCodes(set)
    PROVE  /\ CodesChange
           /\ \A c \in Codes : code'[c].row = code[c].row
           /\ \A c \in Codes \ set : CodeKept(c)
BY DEF RevokeCodes, CodesChange, CodeKept, SpentOnce, CodeRowExists, TypeOK, CodeRow

\* The registers of the others, and the rows they have locked, are kept.
LEMMA OthersActivate ==
    ASSUME CodesInv, CodesChange, NEW r \in Requests, req'[r] = req[r],
           At(r, "activate-write") =>
              CodeKept(req[r].code)
              /\ \A q \in Requests : At(q, "activate-write")' => req'[q] = req[q]
    PROVE  Activates(r)'
BY DEF CodesInv, Activates, CodesChange, CodeKept, Activating, At, CodeRowExists

\* A step that opens no session of a user.
LEMMA SessionsStayOpened ==
    ASSUME CodesInv, CodesChange, NoNewUserSession, RowsGoTogether
    PROVE  /\ \A s \in Sessions : UserSession(s)' => \E c \in Codes : Opens(c, s)'
           /\ \A c \in Codes : SpentOnce(c)'
<1>1. ASSUME NEW s \in Sessions, UserSession(s)' PROVE \E c \in Codes : Opens(c, s)'
  <2>1. PICK c \in Codes : Opens(c, s)
    BY <1>1 DEF CodesInv, NoNewUserSession
  <2>2. CodeRowExists(c)'
    BY <1>1, <2>1 DEF RowsGoTogether, UserSession
  <2>3. Opens(c, s)'
    BY <1>1, <2>1, <2>2 DEF Opens, CodesChange, NoNewUserSession, CodeRowExists
  <2> QED BY <2>3
<1> QED BY <1>1 DEF CodesInv, CodesChange

\* Codes and sessions as they were.
LEMMA SameCodes ==
    ASSUME TypeOK, code' = code
    PROVE  CodesChange /\ RowsGoTogether /\ \A c \in Codes : CodeKept(c)
BY DEF CodesChange, RowsGoTogether, CodeKept, SpentOnce, Opens, CodeRowExists

\* Only an activation opens a session of a user.
LEMMA NoneOpened ==
    ASSUME IInv, [Next]_vars, \A r \in Requests : ~ActivateCommit(r)
    PROVE  NoNewUserSession
<1> USE DEF NoNewUserSession, UserSession, Row
<1>1. CASE Marked
  BY <1>1 DEF Marked, Kept
<1>2. CASE Opened
  BY <1>2 DEF Opened, Kept
<1>3. CASE RotatedRow
  <2>1. PICK s \in Sessions : /\ Row(s) /\ session[s] \in SessionRow
                              /\ \E t : session'[s] = [session[s] EXCEPT !.token = t]
                              /\ \A other \in Sessions \ {s} : session'[other] = session[other]
    BY <1>3, RotationFacts
  <2>2. /\ session'[s].row = session[s].row /\ session'[s].mode = session[s].mode
        /\ session'[s].user = session[s].user
    BY <2>1 DEF SessionRow
  <2> QED BY <2>1, <2>2
<1>4. CASE Purged
  BY <1>4 DEF Purged
<1> QED BY <1>1, <1>2, <1>3, <1>4, Effects DEF IInv

\* What has to be shown of a step that leaves the codes it does not lock.
LEMMA CodesStay ==
    ASSUME IInv, CodesInv, [Next]_vars, \A r \in Requests : ~ActivateCommit(r),
           CodesChange, RowsGoTogether, \A r \in Requests : Activates(r)'
    PROVE  CodesInv'
<1>1. NoNewUserSession
  BY NoneOpened
<1> QED BY <1>1, SessionsStayOpened DEF CodesInv

\* A step of a request that neither enters nor stays in an activation, and
\* touches no code that another has locked.
LEMMA NotActivating ==
    ASSUME IInv, CodesInv, [Next]_vars, CodesChange, RowsGoTogether,
           NEW r \in Requests, NEW register, Goto(r, register),
           ~ActivateCommit(r), register.at \notin Activating,
           \A q \in Requests : ~ActivateCommit(q),
           \A q \in Requests : At(q, "activate-write") => CodeKept(req[q].code)
    PROVE  CodesInv'
<1>1. req'[r] = register /\ \A q \in Requests \ {r} : req'[q] = req[q]
  BY DEF Goto, IInv, TypeOK, RequestsOK
<1>2. \A q \in Requests : At(q, "activate-write")' => req'[q] = req[q]
  BY <1>1 DEF At, Activating
<1>3. Activates(r)'
  BY <1>1 DEF Activates, Activating, At
<1>4. \A q \in Requests \ {r} : Activates(q)'
  BY <1>1, <1>2, OthersActivate
<1> QED BY <1>3, <1>4, CodesStay

\* The same where no code changes.
LEMMA CodesUntouched ==
    ASSUME IInv, CodesInv, [Next]_vars, code' = code,
           NEW r \in Requests, NEW register, Goto(r, register),
           register.at \notin Activating,
           \A q \in Requests : ~ActivateCommit(q)
    PROVE  CodesInv'
<1>1. CodesChange /\ RowsGoTogether /\ \A c \in Codes : CodeKept(c)
  BY SameCodes DEF IInv
<1>2. \A q \in Requests : At(q, "activate-write") => req[q].code \in Codes
  BY DEF CodesInv, Activates, Activating, At
<1> QED BY <1>1, <1>2, NotActivating

\* A request that takes no step has locked what it had.
LEMMA NoRequestSteps ==
    ASSUME IInv, CodesInv, [Next]_vars, CodesChange, RowsGoTogether, req' = req,
           \A q \in Requests : ~ActivateCommit(q),
           \A q \in Requests : At(q, "activate-write") => CodeKept(req[q].code)
    PROVE  CodesInv'
<1>1. \A q \in Requests : Activates(q)'
  BY OthersActivate DEF At
<1> QED BY <1>1, CodesStay

\* The code that is locked is spent on the session it opens.
LEMMA CommitCodes ==
    ASSUME IInv, CodesInv, NEW r \in Requests, ActivateCommit(r)
    PROVE  CodesInv'
<1> DEFINE s == Fresh(Unused(Sessions, session))
           t == Fresh(Tokens \ minted)
           c == req[r].code
<1>1. /\ At(r, "activate-write") /\ s \in Sessions
      /\ session' = [session EXCEPT ![s] = [Blank EXCEPT !.row = "row", !.user = req[r].user,
                                                         !.inst = req[r].inst, !.token = t]]
      /\ code' = [code EXCEPT ![c].used = s]
      /\ Goto(r, [req[r] EXCEPT !.at = "reply", !.sid = s, !.tok = t])
  BY FreshIsMember DEF ActivateCommit, Unused
<1> HIDE DEF s, t
<1>2. /\ c \in Codes /\ CodeRowExists(c) /\ code[c].user = req[r].user
      /\ code[c].used = None /\ ~code[c].revoked /\ code[c] \in CodeRow
  BY <1>1 DEF CodesInv, Activates, Activating, At, IInv, TypeOK
<1>3. /\ code'[c].row = "row" /\ code'[c].user = req[r].user
      /\ code'[c].used = s /\ ~code'[c].revoked
      /\ \A o \in Codes \ {c} : code'[o] = code[o]
  BY <1>1, <1>2 DEF CodeRow, CodeRowExists, IInv, TypeOK
<1>4. /\ session'[s].row = "row" /\ session'[s].user = req[r].user
      /\ \A o \in Sessions \ {s} : session'[o] = session[o]
  BY <1>1 DEF Blank, IInv, TypeOK
<1>5. req'[r].at = "reply" /\ \A q \in Requests \ {r} : req'[q] = req[q]
  BY <1>1 DEF Goto, IInv, TypeOK, RequestsOK, Register
<1>6. Activates(r)'
  BY <1>5 DEF Activates, Activating, At
<1>7. ASSUME NEW q \in Requests \ {r} PROVE Activates(q)'
  <2>1. Activates(q) /\ req'[q] = req[q]
    BY <1>5 DEF CodesInv
  <2>2. At(q, "activate-write") => req[q].code # c
    BY <1>1, <2>1 DEF CodesInv, Activates
  <2>3. \A p \in Requests : At(p, "activate-write")' => p # r /\ req'[p] = req[p]
    BY <1>5 DEF At
  <2>4. \A o \in Codes : code'[o].row = code[o].row /\ code'[o].user = code[o].user
    BY <1>2, <1>3 DEF CodeRowExists
  <2> QED BY <1>3, <2>1, <2>2, <2>3, <2>4 DEF Activates, Activating, At, CodeRowExists
<1>8. ASSUME NEW o \in Sessions, UserSession(o)' PROVE \E d \in Codes : Opens(d, o)'
  <2>1. CASE o = s
    BY <1>2, <1>3, <1>4, <2>1 DEF Opens, CodeRowExists
  <2>2. CASE o # s
    <3>1. PICK d \in Codes : Opens(d, o)
      BY <1>4, <1>8, <2>2 DEF CodesInv, UserSession, Row
    <3>2. d # c
      BY <1>2, <3>1, NoneAssumption DEF Opens
    <3> QED BY <1>3, <1>4, <2>2, <3>1, <3>2 DEF Opens, CodeRowExists
  <2> QED BY <2>1, <2>2
<1>9. \A o \in Codes : SpentOnce(o)'
  BY <1>3 DEF CodesInv, SpentOnce
<1> QED BY <1>6, <1>7, <1>8, <1>9 DEF CodesInv

\* An activation looks its code up, checks the user, and locks the code.
LEMMA ActivationCodes ==
    ASSUME IInv, CodesInv, [Next]_vars, \A q \in Requests : ~ActivateCommit(q),
           NEW r \in Requests,
           \/ \E c \in Codes, i \in Installations : ActivateLookup(r, c, i)
           \/ ActivateCheck(r) \/ ActivateLock(r)
    PROVE  CodesInv'
<1>1. code' = code
  BY DEF ActivateLookup, ActivateCheck, ActivateLock, LocalStep, tables
<1>2. CodesChange /\ RowsGoTogether /\ \A c \in Codes : CodeKept(c)
  BY <1>1, SameCodes DEF IInv
<1>3. CASE Finish(r)
  BY <1>1, <1>3, CodesUntouched DEF Finish, Idle, Activating
<1>4. CASE \E c \in Codes, i \in Installations : ActivateLookup(r, c, i)
  <2>1. PICK c \in Codes, i \in Installations :
          /\ Usable(c)
          /\ Goto(r, [Idle EXCEPT !.at = "activate-check", !.code = c,
                                  !.user = code[c].user, !.inst = i])
    BY <1>4 DEF ActivateLookup
  <2>2. /\ req'[r].at = "activate-check" /\ req'[r].code = c /\ req'[r].user = code[c].user
        /\ \A q \in Requests \ {r} : req'[q] = req[q]
    BY <2>1 DEF Goto, Idle, IInv, TypeOK, RequestsOK
  <2>3. Activates(r)'
    BY <1>1, <2>1, <2>2 DEF Activates, Activating, At, Usable, CodeRowExists
  <2>4. \A q \in Requests : At(q, "activate-write")' => req'[q] = req[q]
    BY <2>2 DEF At
  <2>5. \A q \in Requests : At(q, "activate-write") => req[q].code \in Codes
    BY DEF CodesInv, Activates, Activating, At
  <2>6. \A q \in Requests \ {r} : Activates(q)'
    BY <1>2, <2>2, <2>4, <2>5, OthersActivate
  <2> QED BY <1>2, <2>3, <2>6, CodesStay
<1>5. CASE ActivateCheck(r) /\ Move(r, "activate-lock")
  <2>1. /\ req'[r].at = "activate-lock" /\ req'[r].code = req[r].code /\ req'[r].user = req[r].user
        /\ \A q \in Requests \ {r} : req'[q] = req[q]
    BY <1>5 DEF Move, Goto, IInv, TypeOK, RequestsOK, Register
  <2>2. Activates(r)'
    BY <1>1, <1>5, <2>1 DEF CodesInv, Activates, Activating, At, CodeRowExists, ActivateCheck
  <2>3. \A q \in Requests : At(q, "activate-write")' => req'[q] = req[q]
    BY <2>1 DEF At
  <2>4. \A q \in Requests : At(q, "activate-write") => req[q].code \in Codes
    BY DEF CodesInv, Activates, Activating, At
  <2>5. \A q \in Requests \ {r} : Activates(q)'
    BY <1>2, <2>1, <2>3, <2>4, OthersActivate
  <2> QED BY <1>2, <2>2, <2>5, CodesStay
<1>6. CASE ActivateLock(r) /\ Move(r, "activate-write") /\ Usable(req[r].code)
  <2>1. /\ req'[r].at = "activate-write" /\ req'[r].code = req[r].code /\ req'[r].user = req[r].user
        /\ \A q \in Requests \ {r} : req'[q] = req[q]
    BY <1>6 DEF Move, Goto, IInv, TypeOK, RequestsOK, Register
  <2>2. ~CodeLocked(req[r].code)
    BY <1>6 DEF ActivateLock
  <2>3. Activates(r)'
    BY <1>1, <1>6, <2>1, <2>2
       DEF CodesInv, Activates, Activating, At, CodeRowExists, ActivateLock, CodeLocked, Usable
  <2>4. ASSUME NEW q \in Requests \ {r} PROVE Activates(q)'
    <3>1. Activates(q) /\ req'[q] = req[q]
      BY <2>1 DEF CodesInv
    <3> QED BY <1>1, <2>1, <2>2, <3>1 DEF Activates, At, CodeRowExists, CodeLocked
  <2> QED BY <1>2, <2>3, <2>4, CodesStay
<1> QED BY <1>3, <1>4, <1>5, <1>6 DEF ActivateCheck, ActivateLock

\* Every step keeps the codes.
LEMMA NextCodes ==
    ASSUME IInv, CodesInv, [Next]_vars
    PROVE  CodesInv'
<1> USE DEF LocalStep, users, tables
<1>1. CASE \E r \in Requests : ActivateCommit(r)
  BY <1>1, CommitCodes
<1>2. CASE \A q \in Requests : ~ActivateCommit(q)
  <2> USE <1>2
  <2>1. ASSUME code' = code, NEW r \in Requests, NEW register, Goto(r, register),
               register.at \notin Activating
        PROVE  CodesInv'
    BY <2>1, CodesUntouched
  <2>2. ASSUME code' = code, NEW r \in Requests, NEW stage \in Stages \ Activating, Move(r, stage)
        PROVE  CodesInv'
    <3>1. [req[r] EXCEPT !.at = stage].at = stage
      BY DEF IInv, TypeOK, RequestsOK, Register
    <3> QED BY <2>1, <2>2, <3>1 DEF Move
  <2>3. ASSUME code' = code, NEW r \in Requests, Finish(r) PROVE CodesInv'
    BY <2>1, <2>3 DEF Finish, Idle, Activating
  <2>4. ASSUME code' = code, req' = req PROVE CodesInv'
    <3>1. CodesChange /\ RowsGoTogether /\ \A c \in Codes : CodeKept(c)
      BY <2>4, SameCodes DEF IInv
    <3>2. \A q \in Requests : At(q, "activate-write") => req[q].code \in Codes
      BY DEF CodesInv, Activates, Activating, At
    <3> QED BY <2>4, <3>1, <3>2, NoRequestSteps
  <2>5. \A q \in Requests : At(q, "activate-write") =>
          req[q].code \in Codes /\ CodeRowExists(req[q].code) /\ CodeLocked(req[q].code)
    BY DEF CodesInv, Activates, Activating, At, CodeLocked
  <2>6. ASSUME NEW r \in Requests, Arrive(r) PROVE CodesInv'
    <3>1. CASE \E c \in Codes, i \in Installations : ActivateLookup(r, c, i)
      BY <3>1, ActivationCodes
    <3>2. ASSUME NEW i \in Installations, NEW m \in PublicModes, BootstrapBegin(r, i, m)
          PROVE  CodesInv'
      BY <2>1, <3>2 DEF BootstrapBegin, Idle, Activating
    <3>3. ASSUME NEW t \in delivered, NEW app \in Apps, RefreshLookup(r, t, app) PROVE CodesInv'
      BY <2>1, <3>3 DEF RefreshLookup, Idle, Activating
    <3>4. ASSUME NEW t \in delivered, NEW app \in Apps, RefreshHistory(r, t, app) PROVE CodesInv'
      BY <2>1, <3>4 DEF RefreshHistory, Idle, Activating
    <3>5. ASSUME NEW u \in Users, CodeBegin(r, u) \/ DisableAccess(r, u) PROVE CodesInv'
      BY <2>1, <3>5 DEF CodeBegin, DisableAccess, Idle, Activating
    <3> QED BY <2>6, <3>1, <3>2, <3>3, <3>4, <3>5 DEF Arrive
  <2>7. ASSUME NEW r \in Requests, Continue(r) PROVE CodesInv'
    <3>1. CASE ActivateCheck(r) \/ ActivateLock(r)
      BY <3>1, ActivationCodes
    <3>2. CASE \/ RefreshCommit(r) \/ BootstrapCommit(r)
      <4>1. \A s, t : [req[r] EXCEPT !.at = "reply", !.sid = s, !.tok = t].at = "reply"
        BY DEF IInv, TypeOK, RequestsOK, Register
      <4>2. \A t : [req[r] EXCEPT !.at = "refresh-check", !.tok = t].at = "refresh-check"
        BY DEF IInv, TypeOK, RequestsOK, Register
      <4> QED BY <2>1, <2>3, <3>2, <4>1, <4>2 DEF RefreshCommit, BootstrapCommit, Activating
    <3>3. CASE RefreshReuse(r) \/ RefreshCheck(r) \/ RefreshRevoke(r) \/ RevokeAll(r) \/ Reply(r)
      BY <2>2, <2>3, <3>3
         DEF RefreshReuse, RefreshCheck, RefreshRevoke, RevokeAll, Reply, Stages, Activating
    <3>4. CASE CodeSelect(r) \/ RevokeSelect(r)
      <4>1. ASSUME NEW stage \in {"code-revoke", "revoke-all"}, NEW set, code' = code,
                   Goto(r, [req[r] EXCEPT !.at = stage, !.seen = set])
            PROVE  CodesInv'
        <5> DEFINE register == [req[r] EXCEPT !.at = stage, !.seen = set]
        <5>1. register.at = stage /\ Goto(r, register)
          BY <4>1 DEF IInv, TypeOK, RequestsOK, Register
        <5> HIDE DEF register
        <5> QED BY <2>1, <4>1, <5>1 DEF Activating
      <4> QED BY <3>4, <4>1 DEF CodeSelect, RevokeSelect
    <3>5. CASE CodeRevoke(r)
      <4>1. /\ code' = RevokeCodes(req[r].seen) /\ session' = session
            /\ \A c \in req[r].seen : ~CodeLocked(c)
            /\ Goto(r, [req[r] EXCEPT !.at = "code-insert"])
        BY <3>5 DEF CodeRevoke, Move
      <4>2. /\ CodesChange /\ \A c \in Codes : code'[c].row = code[c].row
            /\ \A c \in Codes \ req[r].seen : CodeKept(c)
        BY <4>1, RevokeCodesChange DEF IInv
      <4>3. RowsGoTogether
        BY <4>2 DEF RowsGoTogether, Opens, CodeRowExists
      <4>4. [req[r] EXCEPT !.at = "code-insert"].at \notin Activating
        BY DEF IInv, TypeOK, RequestsOK, Register, Activating
      <4> QED BY <2>5, <4>1, <4>2, <4>3, <4>4, NotActivating
    <3>6. CASE CodeInsert(r)
      <4> DEFINE c == Fresh(Unused(Codes, code))
      <4>1. /\ c \in Codes /\ code[c].row = "none" /\ Finish(r) /\ session' = session
            /\ \/ code' = code
               \/ code' = [code EXCEPT ![c] = [BlankCode EXCEPT !.row = "row", !.user = req[r].user]]
        BY <3>6, FreshIsMember DEF CodeInsert, Unused
      <4> HIDE DEF c
      <4>2. CASE code' = [code EXCEPT ![c] = [BlankCode EXCEPT !.row = "row", !.user = req[r].user]]
        <5>1. /\ code'[c].row = "row" /\ code'[c].used = None
              /\ \A o \in Codes \ {c} : code'[o] = code[o]
          BY <4>1, <4>2 DEF BlankCode, IInv, TypeOK
        <5>2. CodesChange
          BY <4>1, <5>1 DEF CodesChange, SpentOnce
        <5>3. RowsGoTogether
          BY <5>1 DEF RowsGoTogether, Opens, CodeRowExists
        <5>4. \A q \in Requests : At(q, "activate-write") => CodeKept(req[q].code)
          BY <2>5, <4>1, <5>1 DEF CodeRowExists, CodeKept
        <5> QED BY <4>1, <5>2, <5>3, <5>4, NotActivating DEF Finish, Idle, Activating
      <4> QED BY <2>3, <4>1, <4>2
    <3> QED BY <2>7, <1>2, <3>1, <3>2, <3>3, <3>4, <3>5, <3>6 DEF Continue
  <2>8. ASSUME NEW r \in Requests, RequestFails(r) PROVE CodesInv'
    BY <2>3, <2>8 DEF RequestFails
  <2>9. CASE Environment
    <3>1. ASSUME NEW u \in Users, DeleteUser(u) PROVE CodesInv'
      <4> DEFINE own == {s \in Sessions : Row(s) /\ session[s].user = u}
                 codes == {c \in Codes : CodeRowExists(c) /\ code[c].user = u}
      <4>1. /\ \A c \in codes : ~CodeLocked(c) /\ code'[c].row = "deleted" /\ code'[c].used = None
            /\ \A c \in Codes \ codes : code'[c] = code[c]
            /\ \A s \in own : session'[s].row = "deleted"
            /\ \A s \in Sessions \ own : session'[s] = session[s]
            /\ req' = req
        BY <3>1 DEF DeleteUser, Blank, BlankCode
      <4>2. CodesChange
        BY <4>1 DEF CodesChange, SpentOnce
      <4>3. RowsGoTogether
        BY <4>1 DEF RowsGoTogether, Opens, CodeRowExists, Row
      <4>4. \A q \in Requests : At(q, "activate-write") => CodeKept(req[q].code)
        BY <2>5, <4>1 DEF CodeKept
      <4> QED BY <4>1, <4>2, <4>3, <4>4, NoRequestSteps
    <3>2. ASSUME NEW c \in Codes, CodeExpires(c) PROVE CodesInv'
      <4>1. \A o \in Codes : CodeKept(o)
        BY <3>2 DEF CodeExpires, CodeKept, CodeRow, IInv, TypeOK
      <4>2. CodesChange
        BY <4>1 DEF CodeKept, CodesChange, SpentOnce
      <4>3. RowsGoTogether
        BY <4>1 DEF CodeKept, RowsGoTogether, Opens, CodeRowExists
      <4> QED BY <2>5, <3>2, <4>1, <4>2, <4>3, NoRequestSteps DEF CodeExpires
    <3>3. CASE Restart
      <4>1. code' = code /\ \A q \in Requests : req'[q].at = "idle"
        BY <3>3 DEF Restart, Idle
      <4>2. CodesChange /\ RowsGoTogether
        BY <4>1, SameCodes DEF IInv
      <4>3. \A q \in Requests : Activates(q)'
        BY <4>1 DEF Activates, Activating, At
      <4> QED BY <4>2, <4>3, CodesStay
    <3> QED BY <2>4, <2>9, <3>1, <3>2, <3>3
            DEF Environment, EnableAccess, SetStatus, RevokeSession, SessionExpires
  <2>10. CASE UNCHANGED vars
    BY <2>4, <2>10 DEF vars
  <2> QED BY <2>6, <2>7, <2>8, <2>9, <2>10 DEF Next
<1> QED BY <1>1, <1>2

\* An activation code (createMobileActivationCode, activateMobileSession,
\* lib/mobile-auth.js) opens one session at most, and a code that was revoked
\* opens none.
THEOREM CodesAreSpent == Spec => []CodesAreSpentOnce
<1>1. Init => CodesInv
  BY DEF Init, CodesInv, Activates, Activating, At, Idle, UserSession, Row, Blank, SpentOnce, BlankCode
<1>2. IInv /\ CodesInv /\ [Next]_vars => CodesInv'
  BY NextCodes
<1>3. CodesInv => CodesAreSpentOnce
  BY DEF CodesInv, CodesAreSpentOnce, UserSession, Opens, SpentOnce
<1> QED BY <1>1, <1>2, <1>3, IInvHolds, PTL DEF Spec

-----------------------------------------------------------------------------
(* Sessions of an installation *)

\* A request that is about to replace the sessions of installation i has seen s.
Sees(r, s, i, m) ==
    At(r, "bootstrap-write") /\ req[r].inst = i /\ req[r].mode = m => s \in req[r].seen

\* Each session of an installation has a request that opened it, and no
\* request opened two: before it opens another it sees the first, and revokes
\* it.
OpenedBy(f, i, m) ==
    /\ f \in [SessionsOfInstallation(i, m) -> Requests]
    /\ \A s, o \in SessionsOfInstallation(i, m) : f[s] = f[o] => s = o
    /\ \A s \in SessionsOfInstallation(i, m) : Sees(f[s], s, i, m)

OpenersInv == \A i \in Installations, m \in PublicModes : \E f : OpenedBy(f, i, m)

\* No step but a bootstrap adds a session to an installation.
LEMMA InstallationShrinks ==
    ASSUME IInv, [Next]_vars, NEW i \in Installations, NEW m \in PublicModes,
           \A r \in Requests : ~BootstrapCommit(r)
    PROVE  SessionsOfInstallation(i, m)' \subseteq SessionsOfInstallation(i, m)
<1> SUFFICES ASSUME NEW s \in Sessions, Row(s)', session'[s].revoked = "no",
                    session'[s].mode = m, session'[s].inst = i
             PROVE  /\ Row(s) /\ session[s].revoked = "no"
                    /\ session[s].mode = m /\ session[s].inst = i
  BY DEF SessionsOfInstallation
<1>1. CASE Marked
  BY <1>1 DEF Marked, Kept, Row
<1>2. CASE Purged
  BY <1>2 DEF Purged, Row
<1>3. CASE RotatedRow
  <2>1. PICK o \in Sessions : /\ Row(o) /\ session[o].revoked = "no" /\ session[o] \in SessionRow
                              /\ \E t : session'[o] = [session[o] EXCEPT !.token = t]
                              /\ \A other \in Sessions \ {o} : session'[other] = session[other]
    BY <1>3, RotationFacts
  <2>2. session'[o].mode = session[o].mode /\ session'[o].inst = session[o].inst
    BY <2>1 DEF SessionRow
  <2> QED BY <2>1, <2>2 DEF Row
<1>4. CASE Opened
  <2>1. PICK o \in Sessions :
          /\ session'[o].mode = "user" \/ \E r \in Requests : BootstrapCommit(r)
          /\ \A other \in Sessions \ {o} : Kept(other)
    BY <1>4 DEF Opened
  <2>2. s # o
    BY <2>1, PublicModesAssumption
  <2> QED BY <2>1, <2>2 DEF Kept, Row
<1> QED BY <1>1, <1>2, <1>3, <1>4, Effects DEF IInv

\* A request replaces what it has seen when it began.
BootstrapsStay ==
    \A q \in Requests : At(q, "bootstrap-write")' =>
        \/ req'[q] = req[q]
        \/ \A i \in Installations, m \in PublicModes :
             req'[q].inst = i /\ req'[q].mode = m => req'[q].seen = SessionsOfInstallation(i, m)

\* Only the begin of a bootstrap takes a snapshot.
LEMMA NextBootstraps ==
    ASSUME IInv, [Next]_vars
    PROVE  BootstrapsStay
<1>1. ASSUME NEW r \in Requests, NEW register, Goto(r, register), register.at # "bootstrap-write"
      PROVE  BootstrapsStay
  BY <1>1 DEF BootstrapsStay, Goto, At, IInv, TypeOK, RequestsOK
<1>2. ASSUME NEW r \in Requests, NEW stage \in Stages \ {"bootstrap-write"}, Move(r, stage)
      PROVE  BootstrapsStay
  <2>1. [req[r] EXCEPT !.at = stage].at = stage
    BY DEF IInv, TypeOK, RequestsOK, Register
  <2> QED BY <1>1, <1>2, <2>1 DEF Move
<1>3. ASSUME NEW r \in Requests, Finish(r) PROVE BootstrapsStay
  BY <1>1, <1>3 DEF Finish, Idle
<1>4. req' = req => BootstrapsStay
  BY DEF BootstrapsStay
<1>5. ASSUME NEW r \in Requests, Arrive(r) PROVE BootstrapsStay
  <2>1. ASSUME NEW c \in Codes, NEW i \in Installations, ActivateLookup(r, c, i)
        PROVE  BootstrapsStay
    BY <1>1, <2>1 DEF ActivateLookup, Idle
  <2>2. ASSUME NEW i \in Installations, NEW m \in PublicModes, BootstrapBegin(r, i, m)
        PROVE  BootstrapsStay
    <3>1. /\ req'[r].inst = i /\ req'[r].mode = m /\ req'[r].seen = SessionsOfInstallation(i, m)
          /\ \A q \in Requests \ {r} : req'[q] = req[q]
      BY <2>2 DEF BootstrapBegin, Goto, Idle, IInv, TypeOK, RequestsOK
    <3> QED BY <3>1 DEF BootstrapsStay
  <2>3. ASSUME NEW t \in delivered, NEW app \in Apps, RefreshLookup(r, t, app)
        PROVE  BootstrapsStay
    BY <1>1, <2>3 DEF RefreshLookup, Idle
  <2>4. ASSUME NEW t \in delivered, NEW app \in Apps, RefreshHistory(r, t, app)
        PROVE  BootstrapsStay
    BY <1>1, <2>4 DEF RefreshHistory, Idle
  <2>5. ASSUME NEW u \in Users, CodeBegin(r, u) \/ DisableAccess(r, u) PROVE BootstrapsStay
    BY <1>1, <2>5 DEF CodeBegin, DisableAccess, Idle
  <2> QED BY <1>5, <2>1, <2>2, <2>3, <2>4, <2>5 DEF Arrive
<1>6. ASSUME NEW r \in Requests, Continue(r) PROVE BootstrapsStay
  <2>1. \A s, t : [req[r] EXCEPT !.at = "reply", !.sid = s, !.tok = t].at = "reply"
    BY DEF IInv, TypeOK, RequestsOK, Register
  <2>2. \A t : [req[r] EXCEPT !.at = "refresh-check", !.tok = t].at = "refresh-check"
    BY DEF IInv, TypeOK, RequestsOK, Register
  <2>3. \A set, stage \in {"code-revoke", "revoke-all"} :
          [req[r] EXCEPT !.at = stage, !.seen = set].at = stage
    BY DEF IInv, TypeOK, RequestsOK, Register
  <2>4. CASE ActivateCommit(r) \/ BootstrapCommit(r)
    BY <1>1, <2>1, <2>4 DEF ActivateCommit, BootstrapCommit
  <2>5. CASE RefreshCommit(r)
    BY <1>1, <1>3, <2>2, <2>5 DEF RefreshCommit
  <2>6. CASE CodeSelect(r) \/ RevokeSelect(r)
    BY <1>1, <2>3, <2>6 DEF CodeSelect, RevokeSelect
  <2>7. CASE \/ ActivateCheck(r) \/ ActivateLock(r) \/ RefreshReuse(r) \/ RefreshCheck(r)
             \/ RefreshRevoke(r) \/ CodeRevoke(r) \/ CodeInsert(r) \/ RevokeAll(r) \/ Reply(r)
    BY <1>2, <1>3, <2>7
       DEF ActivateCheck, ActivateLock, RefreshReuse, RefreshCheck, RefreshRevoke, CodeRevoke,
           CodeInsert, RevokeAll, Reply, Stages
  <2> QED BY <1>6, <2>4, <2>5, <2>6, <2>7 DEF Continue
<1>7. CASE Environment
  <2>1. CASE Restart
    BY <2>1 DEF Restart, BootstrapsStay, At, Idle
  <2> QED BY <1>4, <1>7, <2>1
          DEF Environment, EnableAccess, DeleteUser, SetStatus, RevokeSession, SessionExpires,
              CodeExpires
<1>8. UNCHANGED vars => BootstrapsStay
  BY <1>4 DEF vars
<1> QED BY <1>3, <1>5, <1>6, <1>7, <1>8 DEF Next, RequestFails

\* Sessions that go need no request.
LEMMA OpenersShrink ==
    ASSUME OpenersInv, BootstrapsStay, NEW i \in Installations, NEW m \in PublicModes,
           SessionsOfInstallation(i, m)' \subseteq SessionsOfInstallation(i, m)
    PROVE  \E f : OpenedBy(f, i, m)'
<1> DEFINE now == SessionsOfInstallation(i, m)
           after == SessionsOfInstallation(i, m)'
<1>1. PICK f : OpenedBy(f, i, m)
  BY DEF OpenersInv
<1> DEFINE g == [s \in after |-> f[s]]
<1>2. g \in [after -> Requests] /\ \A s \in after : s \in now /\ g[s] = f[s]
  BY <1>1 DEF OpenedBy
<1>3. ASSUME NEW s \in after, NEW q, q = g[s] PROVE Sees(q, s, i, m)'
  <2>1. Sees(f[s], s, i, m) /\ g[s] = f[s] /\ f[s] \in Requests /\ s \in now
    BY <1>1, <1>2 DEF OpenedBy
  <2> HIDE DEF g
  <2> QED BY <1>3, <2>1 DEF Sees, BootstrapsStay, At
<1>4. \A s, o \in after : g[s] = g[o] => s = o
  BY <1>1, <1>2 DEF OpenedBy
<1>5. PICK h : h = g
  OBVIOUS
<1> HIDE DEF g
<1>6. OpenedBy(h, i, m)'
  BY <1>2, <1>3, <1>4, <1>5 DEF OpenedBy
<1> QED BY <1>6

\* A bootstrap puts its session in the place of the one its request opened
\* before.
LEMMA OpenersCommit ==
    ASSUME IInv, OpenersInv, [Next]_vars, NEW r \in Requests, BootstrapCommit(r),
           NEW i \in Installations, NEW m \in PublicModes
    PROVE  \E f : OpenedBy(f, i, m)'
<1> DEFINE now == SessionsOfInstallation(i, m)
           after == SessionsOfInstallation(i, m)'
           new == Fresh(Unused(Sessions, session))
           t == Fresh(Tokens \ minted)
<1>1. /\ At(r, "bootstrap-write") /\ new \in Sessions /\ session[new].row = "none"
      /\ session' = [Revoke(req[r].seen) EXCEPT ![new] =
                        [Blank EXCEPT !.row = "row", !.mode = req[r].mode,
                                      !.inst = req[r].inst, !.token = t]]
      /\ Goto(r, [req[r] EXCEPT !.at = "reply", !.sid = new, !.tok = t])
  BY FreshIsMember DEF BootstrapCommit, Unused
<1> HIDE DEF new, t
<1>2. req'[r].at = "reply" /\ \A q \in Requests \ {r} : req'[q] = req[q]
  BY <1>1 DEF Goto, IInv, TypeOK, RequestsOK, Register
<1>3. /\ session'[new].inst = req[r].inst /\ session'[new].mode = req[r].mode
      /\ \A s \in Sessions \ {new} : session'[s] = Revoke(req[r].seen)[s]
  BY <1>1, RevokeKeeps DEF Blank, IInv
<1>4. ASSUME NEW s \in after, s # new PROVE s \in now /\ s \notin req[r].seen
  <2>1. /\ s \in Sessions /\ Row(s)' /\ session'[s].revoked = "no"
        /\ session'[s].mode = m /\ session'[s].inst = i
    BY <1>4 DEF SessionsOfInstallation
  <2>2. session'[s] = Revoke(req[r].seen)[s] /\ session[s] \in SessionRow
    BY <1>3, <1>4, <2>1 DEF IInv, TypeOK
  <2>3. /\ Row(s) /\ session[s].mode = m /\ session[s].inst = i
        /\ session[s].revoked = "no"
    BY <2>1, <2>2, RevokeKeeps DEF Row, IInv
  <2>4. s \notin req[r].seen
    BY <2>1, <2>2, <2>3 DEF Revoke, SessionRow
  <2> QED BY <2>1, <2>3, <2>4 DEF SessionsOfInstallation
<1>5. PICK f : OpenedBy(f, i, m)
  BY DEF OpenersInv
<1> DEFINE g == [s \in after |-> IF s = new THEN r ELSE f[s]]
<1>6. \A s \in after : s # new => f[s] \in Requests /\ g[s] = f[s] /\ Sees(f[s], s, i, m)
  BY <1>4, <1>5 DEF OpenedBy
<1>7. g \in [after -> Requests]
  BY <1>6
<1>8. ASSUME new \in after, NEW s \in after, s # new PROVE g[s] # r
  <2>1. req[r].inst = i /\ req[r].mode = m
    BY <1>3, <1>8 DEF SessionsOfInstallation
  <2>2. s \notin req[r].seen /\ Sees(f[s], s, i, m) /\ g[s] = f[s]
    BY <1>4, <1>6, <1>8
  <2> HIDE DEF g
  <2> QED BY <1>1, <2>1, <2>2 DEF Sees
<1>9. \A s, o \in after : g[s] = g[o] => s = o
  <2>1. \A s, o \in after : s # new /\ o # new /\ g[s] = g[o] => s = o
    BY <1>4, <1>5, <1>6 DEF OpenedBy
  <2>2. new \in after => g[new] = r
    OBVIOUS
  <2> HIDE DEF g
  <2> QED BY <1>8, <2>1, <2>2
<1>10. ASSUME NEW s \in after, NEW q, q = g[s] PROVE Sees(q, s, i, m)'
  <2>1. s = new => g[s] = r
    OBVIOUS
  <2>2. s # new => Sees(g[s], s, i, m) /\ g[s] \in Requests
    BY <1>6
  <2> HIDE DEF g
  <2> QED BY <1>2, <1>10, <2>1, <2>2 DEF Sees, At
<1>11. PICK h : h = g
  OBVIOUS
<1> HIDE DEF g
<1>12. OpenedBy(h, i, m)'
  BY <1>7, <1>9, <1>10, <1>11 DEF OpenedBy
<1> QED BY <1>12

\* Every step keeps the openers.
LEMMA NextOpeners == IInv /\ OpenersInv /\ [Next]_vars => OpenersInv'
<1> SUFFICES ASSUME IInv, OpenersInv, [Next]_vars, NEW i \in Installations, NEW m \in PublicModes
             PROVE  \E f : OpenedBy(f, i, m)'
  BY DEF OpenersInv
<1>1. CASE \E r \in Requests : BootstrapCommit(r)
  BY <1>1, OpenersCommit
<1>2. CASE \A r \in Requests : ~BootstrapCommit(r)
  BY <1>2, NextBootstraps, InstallationShrinks, OpenersShrink
<1> QED BY <1>1, <1>2

\* No installation has a session at first.
LEMMA InitOpeners == Init => OpenersInv
<1> SUFFICES ASSUME Init, NEW i \in Installations, NEW m \in PublicModes
             PROVE  \E f : OpenedBy(f, i, m)
  BY DEF OpenersInv
<1>1. SessionsOfInstallation(i, m) = {}
  BY DEF Init, SessionsOfInstallation, Row, Blank
<1>2. [s \in {} |-> s] \in [{} -> Requests]
  OBVIOUS
<1>3. OpenedBy([s \in {} |-> s], i, m)
  BY <1>1, <1>2 DEF OpenedBy
<1> QED BY <1>3

\* Requests that each opened another session are as many.
LEMMA OpenersBound ==
    ASSUME IsFiniteSet(Requests)
    PROVE  OpenersInv => InstallationSessionsBounded
<1> SUFFICES ASSUME OpenersInv, NEW i \in Installations, NEW m \in PublicModes
             PROVE  Cardinality(SessionsOfInstallation(i, m)) <= Cardinality(Requests)
  BY DEF InstallationSessionsBounded
<1>1. PICK f : OpenedBy(f, i, m)
  BY DEF OpenersInv
<1>2. f \in Injection(SessionsOfInstallation(i, m), Requests)
  BY <1>1 DEF OpenedBy, Injection, IsInjective
<1> QED BY <1>2, FS_Injection

\* Bootstraps of one installation (createPublicMobileSession and
\* createHiddifyAndroidSession, lib/mobile-auth.js) leave no more sessions
\* than there are requests that can overlap.
THEOREM InstallationsAreBounded ==
    ASSUME IsFiniteSet(Requests)
    PROVE  Spec => []InstallationSessionsBounded
BY InitOpeners, OpenersBound, NextOpeners, IInvHolds, PTL DEF Spec

-----------------------------------------------------------------------------
(* The tables implement TokenFamily *)

Current(t, s) == Row(s) /\ session[s].token = t
StatusUnowned(t) ==
    IF history[t] # None THEN "spent" ELSE IF t \in minted THEN "void" ELSE "fresh"

\* What a token is for TokenFamily, told by the row it is the token of.
Views ==
    \A t \in Tokens :
      /\ \A s \in Sessions : Current(t, s) => TokenStatus(t) = "current" /\ TokenSession(t) = s
      /\ (\A s \in Sessions : ~Current(t, s)) =>
           TokenStatus(t) = StatusUnowned(t) /\ TokenSession(t) = history[t]

\* It is told uniquely, for no token belongs to two sessions.
LEMMA ViewsHold == TokenIdentifiesOneSession => Views
<1> SUFFICES ASSUME TokenIdentifiesOneSession, NEW t \in Tokens
             PROVE  /\ \A s \in Sessions : Current(t, s) =>
                         TokenStatus(t) = "current" /\ TokenSession(t) = s
                    /\ (\A s \in Sessions : ~Current(t, s)) =>
                         TokenStatus(t) = StatusUnowned(t) /\ TokenSession(t) = history[t]
  BY DEF Views
<1>1. ASSUME NEW s \in Sessions, Current(t, s)
      PROVE  TokenStatus(t) = "current" /\ TokenSession(t) = s
  <2>1. \A o \in Sessions : Row(o) /\ session[o].token = t => o = s
    BY <1>1 DEF Current, TokenIdentifiesOneSession
  <2>2. TokenStatus(t) = "current"
    BY <1>1 DEF Current, TokenStatus
  <2>3. TokenSession(t) = CHOOSE o \in Sessions : Row(o) /\ session[o].token = t
    BY <2>2 DEF TokenSession
  <2> QED BY <1>1, <2>1, <2>2, <2>3 DEF Current
<1>2. ASSUME \A s \in Sessions : ~Current(t, s)
      PROVE  TokenStatus(t) = StatusUnowned(t) /\ TokenSession(t) = history[t]
  BY <1>2 DEF Current, TokenStatus, TokenSession, StatusUnowned
<1> QED BY <1>1, <1>2

\* A session that was not opened is not revoked.
UnopenedInv == \A s \in Sessions : session[s].row = "none" => session[s].revoked = "no"

\* Every step keeps that.
LEMMA NextUnopened ==
    ASSUME IInv, UnopenedInv, [Next]_vars
    PROVE  UnopenedInv'
<1>1. CASE Marked
  BY <1>1 DEF Marked, Kept, UnopenedInv
<1>2. CASE Opened
  BY <1>2 DEF Opened, Kept, UnopenedInv
<1>3. CASE RotatedRow
  BY <1>3, RotationFacts DEF UnopenedInv
<1>4. CASE Purged
  BY <1>4 DEF Purged, UnopenedInv
<1> QED BY <1>1, <1>2, <1>3, <1>4, Effects DEF IInv

Dead == {s \in Sessions : session[s].row = "deleted" \/ session[s].revoked # "no"}

\* Sessions that are marked may die.
LEMMA MarkedKills ==
    ASSUME Views, Views', Marked
    PROVE  Family!Kill
<1>1. \A t \in Tokens, s \in Sessions : Current(t, s)' <=> Current(t, s)
  BY DEF Marked, Kept, Current, Row
<1>2. \A t \in Tokens : StatusUnowned(t)' = StatusUnowned(t) /\ history'[t] = history[t]
  BY DEF Marked, StatusUnowned
<1>3. \A t \in Tokens : TokenStatus(t)' = TokenStatus(t) /\ TokenSession(t)' = TokenSession(t)
  <2> SUFFICES ASSUME NEW t \in Tokens
               PROVE  TokenStatus(t)' = TokenStatus(t) /\ TokenSession(t)' = TokenSession(t)
    OBVIOUS
  <2>1. CASE \E s \in Sessions : Current(t, s)
    BY <1>1, <2>1 DEF Views
  <2>2. CASE \A s \in Sessions : ~Current(t, s)
    BY <1>1, <1>2, <2>2 DEF Views
  <2> QED BY <2>1, <2>2
<1>4. Dead \subseteq Dead' /\ Dead' \subseteq Sessions
  BY DEF Dead, Marked, Kept
<1> QED BY <1>3, <1>4 DEF Family!Kill, Family!Die, Dead

\* An opened session starts a family with a fresh token.
LEMMA OpenedOpens ==
    ASSUME IInv, UnopenedInv, SpentInv, Views, Views', Opened
    PROVE  \E s \in Sessions, t \in Tokens : Family!Open(s, t)
<1>1. PICK s \in Sessions, t \in Tokens \ minted :
        /\ minted' = minted \cup {t} /\ history' = history
        /\ session[s].row = "none"
        /\ session'[s].row = "row" /\ session'[s].token = t /\ session'[s].revoked = "no"
        /\ \A other \in Sessions \ {s} : Kept(other)
  BY DEF Opened
<1>2. \A o \in Sessions, u \in Tokens : Current(u, o) => o # s /\ u # t
  BY <1>1 DEF Current, Row, IInv, TypeOK, RowsOK
<1>3. \A o \in Sessions, u \in Tokens \ {t} : Current(u, o)' <=> Current(u, o)
  BY <1>1, <1>2 DEF Current, Row, Kept
<1>4. \A u \in Tokens \ {t} : StatusUnowned(u)' = StatusUnowned(u) /\ history'[u] = history[u]
  BY <1>1 DEF StatusUnowned
<1>5. \A u \in Tokens \ {t} : TokenStatus(u)' = TokenStatus(u) /\ TokenSession(u)' = TokenSession(u)
  <2> SUFFICES ASSUME NEW u \in Tokens \ {t}
               PROVE  TokenStatus(u)' = TokenStatus(u) /\ TokenSession(u)' = TokenSession(u)
    OBVIOUS
  <2>1. CASE \E o \in Sessions : Current(u, o)
    BY <1>3, <2>1 DEF Views
  <2>2. CASE \A o \in Sessions : ~Current(u, o)
    BY <1>3, <1>4, <2>2 DEF Views
  <2> QED BY <2>1, <2>2
<1>6. TokenStatus(t)' = "current" /\ TokenSession(t)' = s
  <2>1. Current(t, s)'
    BY <1>1 DEF Current, Row
  <2> QED BY <2>1 DEF Views
<1>7. TokenStatus(t) = "fresh"
  <2>1. history[t] = None
    BY DEF IInv, HistoryInv
  <2> QED BY <1>2, <2>1 DEF Views, StatusUnowned
<1>8. \A u \in Tokens : TokenSession(u) # s
  <2> SUFFICES ASSUME NEW u \in Tokens PROVE TokenSession(u) # s
    OBVIOUS
  <2>1. history[u] # s
    BY <1>1, NoneAssumption DEF SpentInv
  <2>2. CASE \E o \in Sessions : Current(u, o)
    BY <1>2, <2>2 DEF Views
  <2>3. CASE \A o \in Sessions : ~Current(u, o)
    BY <2>1, <2>3 DEF Views
  <2> QED BY <2>2, <2>3
<1>9. Dead \subseteq Dead' /\ Dead' \subseteq Sessions /\ s \notin Dead'
  BY <1>1 DEF Dead, Kept, UnopenedInv
<1>10. /\ [u \in Tokens |-> TokenStatus(u)'] = [[u \in Tokens |-> TokenStatus(u)] EXCEPT ![t] = "current"]
       /\ [u \in Tokens |-> TokenSession(u)'] = [[u \in Tokens |-> TokenSession(u)] EXCEPT ![t] = s]
  BY <1>5, <1>6
<1>11. Family!Open(s, t)
  BY <1>7, <1>8, <1>9, <1>10 DEF Family!Open, Family!Die, Dead
<1> QED BY <1>11

\* A rotation spends the current token of a session that is not dead.
LEMMA RotatedRotates ==
    ASSUME IInv, Views, Views', RotatedRow
    PROVE  \E t, next \in Tokens : Family!Rotate(t, next)
<1>1. PICK s \in Sessions, old \in Tokens \cup {None}, t \in Tokens \ minted :
        /\ Row(s) /\ session[s].token = old /\ session[s].revoked = "no"
        /\ minted' = minted \cup {t}
        /\ history' = [history EXCEPT ![old] = s]
        /\ session'[s] = [session[s] EXCEPT !.token = t] /\ session[s] \in SessionRow
        /\ session'[s].row = "row" /\ session'[s].token = t
        /\ \A other \in Sessions \ {s} : session'[other] = session[other]
  BY RotationFacts
<1>2. old \in minted /\ old \in Tokens /\ t # old
  BY <1>1 DEF IInv, TypeOK, RowsOK, Row
<1>3. \A o \in Sessions : ~Current(t, o)
  BY <1>1 DEF Current, Row, IInv, TypeOK, RowsOK
<1>4. \A o \in Sessions : Current(old, o) => o = s
  BY <1>1 DEF Current, IInv, TokenIdentifiesOneSession
<1>5. \A o \in Sessions, u \in Tokens \ {t, old} : Current(u, o)' <=> Current(u, o)
  BY <1>1 DEF Current, Row
<1>6. \A u \in Tokens : history'[u] = IF u = old THEN s ELSE history[u]
  BY <1>1, <1>2 DEF IInv, TypeOK
<1>7. \A u \in Tokens \ {t, old} : StatusUnowned(u)' = StatusUnowned(u) /\ history'[u] = history[u]
  BY <1>1, <1>6 DEF StatusUnowned
<1>8. \A u \in Tokens \ {t, old} :
        TokenStatus(u)' = TokenStatus(u) /\ TokenSession(u)' = TokenSession(u)
  <2> SUFFICES ASSUME NEW u \in Tokens \ {t, old}
               PROVE  TokenStatus(u)' = TokenStatus(u) /\ TokenSession(u)' = TokenSession(u)
    OBVIOUS
  <2>1. CASE \E o \in Sessions : Current(u, o)
    BY <1>5, <2>1 DEF Views
  <2>2. CASE \A o \in Sessions : ~Current(u, o)
    BY <1>5, <1>7, <2>2 DEF Views
  <2> QED BY <2>1, <2>2
<1>9. TokenStatus(old) = "current" /\ TokenSession(old) = s
  <2>1. Current(old, s)
    BY <1>1 DEF Current
  <2> QED BY <1>2, <2>1 DEF Views
<1>10. TokenStatus(t) = "fresh"
  <2>1. history[t] = None
    BY DEF IInv, HistoryInv
  <2> QED BY <1>3, <2>1 DEF Views, StatusUnowned
<1>11. TokenStatus(t)' = "current" /\ TokenSession(t)' = s
  <2>1. Current(t, s)'
    BY <1>1 DEF Current, Row
  <2> QED BY <2>1 DEF Views
<1>12. TokenStatus(old)' = "spent" /\ TokenSession(old)' = s
  <2>1. \A o \in Sessions : ~Current(old, o)'
    BY <1>1, <1>2, <1>4 DEF Current, Row
  <2>2. history'[old] = s /\ s # None
    BY <1>2, <1>6, NoneAssumption
  <2>3. StatusUnowned(old)' = "spent"
    BY <2>2 DEF StatusUnowned
  <2> QED BY <1>2, <2>1, <2>2, <2>3 DEF Views
<1>13. Dead' = Dead /\ s \notin Dead
  <2>1. session'[s].row = session[s].row /\ session'[s].revoked = session[s].revoked
    BY <1>1 DEF SessionRow
  <2>2. \A o \in Sessions : /\ session'[o].row = session[o].row
                            /\ session'[o].revoked = session[o].revoked
    BY <1>1, <2>1
  <2>3. Dead' = Dead
    BY <2>2 DEF Dead
  <2> QED BY <1>1, <2>3 DEF Dead, Row
<1>14. Family!Rotate(old, t)
  BY <1>2, <1>8, <1>9, <1>10, <1>11, <1>12, <1>13 DEF Family!Rotate, Dead
<1> QED BY <1>2, <1>14

\* A deletion leaves no trace of the tokens of the user's sessions.
LEMMA PurgedPurges ==
    ASSUME IInv, Views, Views', Purged
    PROVE  \E set \in SUBSET Sessions : Family!Purge(set)
<1>1. PICK own \in SUBSET Sessions :
        /\ minted' = minted
        /\ \A s \in own : Row(s) /\ session'[s].row = "deleted"
        /\ \A s \in Sessions \ own : session'[s] = session[s]
        /\ history' = [t \in Tokens |-> IF history[t] \in own THEN None ELSE history[t]]
  BY DEF Purged
<1>2. \A t \in Tokens, s \in Sessions : Current(t, s)' <=> Current(t, s) /\ s \notin own
  BY <1>1 DEF Current, Row
<1>3. \A t \in Tokens : history'[t] = IF history[t] \in own THEN None ELSE history[t]
  BY <1>1
<1>4. \A t \in Tokens, s \in Sessions : Current(t, s) => t \in minted /\ history[t] = None
  BY DEF Current, Row, IInv, TypeOK, RowsOK, TokenIdentifiesOneSession
<1>5. ASSUME NEW t \in Tokens
      PROVE  /\ TokenStatus(t)' = IF TokenSession(t) \in own THEN "void" ELSE TokenStatus(t)
             /\ TokenSession(t)' = IF TokenSession(t) \in own THEN None ELSE TokenSession(t)
  <2>1. CASE \E s \in Sessions : Current(t, s)
    <3>1. PICK s \in Sessions : Current(t, s)
      BY <2>1
    <3>2. TokenStatus(t) = "current" /\ TokenSession(t) = s
      BY <3>1 DEF Views
    <3>3. CASE s \in own
      <4>1. \A o \in Sessions : ~Current(t, o)'
        BY <1>2, <3>1, <3>3 DEF Current, IInv, TokenIdentifiesOneSession
      <4>2. history'[t] = None /\ StatusUnowned(t)' = "void"
        BY <1>1, <1>3, <1>4, <3>1 DEF StatusUnowned
      <4> QED BY <3>2, <3>3, <4>1, <4>2 DEF Views
    <3>4. CASE s \notin own
      <4>1. Current(t, s)'
        BY <1>2, <3>1, <3>4
      <4> QED BY <3>2, <3>4, <4>1 DEF Views
    <3> QED BY <3>3, <3>4
  <2>2. CASE \A s \in Sessions : ~Current(t, s)
    <3>1. TokenStatus(t) = StatusUnowned(t) /\ TokenSession(t) = history[t]
      BY <2>2 DEF Views
    <3>2. TokenStatus(t)' = StatusUnowned(t)' /\ TokenSession(t)' = history'[t]
      BY <1>2, <2>2 DEF Views
    <3>3. history[t] \in own => history[t] # None /\ t \in minted
      BY NoneAssumption DEF IInv, HistoryInv
    <3>4. CASE history[t] \in own
      <4>1. history'[t] = None /\ StatusUnowned(t)' = "void"
        BY <1>1, <1>3, <3>3, <3>4 DEF StatusUnowned
      <4> QED BY <3>1, <3>2, <3>4, <4>1
    <3>5. CASE history[t] \notin own
      <4>1. history'[t] = history[t] /\ StatusUnowned(t)' = StatusUnowned(t)
        BY <1>1, <1>3, <3>5 DEF StatusUnowned
      <4> QED BY <3>1, <3>2, <3>5, <4>1
    <3> QED BY <3>4, <3>5
  <2> QED BY <2>1, <2>2
<1>6. Dead' = Dead \cup own
  BY <1>1 DEF Dead
<1>7. Family!Purge(own)
  BY <1>5, <1>6 DEF Family!Purge, Dead
<1> QED BY <1>7

\* The tables of sessions and spent tokens implement TokenFamily: each step of
\* a request, with its transactions and locks, is a step of the families or
\* changes nothing of them.
THEOREM FamiliesAreImplemented == Spec => ImplementsTokenFamily
<1>1. Init => UnopenedInv /\ Family!Init
  <2> SUFFICES ASSUME Init PROVE UnopenedInv /\ Family!Init
    OBVIOUS
  <2>1. \A s \in Sessions : session[s].row = "none" /\ session[s].revoked = "no"
    BY DEF Init, Blank
  <2>2. \A t \in Tokens : TokenStatus(t) = "fresh" /\ TokenSession(t) = None
    BY <2>1 DEF Init, TokenStatus, TokenSession, Row
  <2> QED BY <2>1, <2>2 DEF UnopenedInv, Family!Init
<1>2. IInv /\ UnopenedInv /\ [Next]_vars => UnopenedInv'
  BY NextUnopened
<1>3. IInv => Views
  BY ViewsHold DEF IInv
<1>4. ASSUME IInv, UnopenedInv, SpentInv, Views, Views', [Next]_vars
      PROVE  [Family!Next]_Family!vars
  BY <1>4, MarkedKills, OpenedOpens, RotatedRotates, PurgedPurges, Effects DEF IInv, Family!Next
<1> QED
  BY <1>1, <1>2, <1>3, <1>4, AnswersHold, PTL DEF Spec, ImplementsTokenFamily, Family!Spec
=============================================================================
