------------------------------ MODULE Accounts ------------------------------
(***************************************************************************)
(* CMS accounts: sign-in, remember-me, password reset links and the        *)
(* administration of users (auth_service.ts, user_service.ts, the session, *)
(* users and profiles controllers, and the authentication middleware).     *)
(*                                                                         *)
(* Every browser runs one request at a time; requests of different         *)
(* browsers interleave between their database statements.  A model is      *)
(* loaded without a lock and saved later with the absolute values it then  *)
(* holds, auth_version included.  The three operations that set a password *)
(* share their transaction: UPDATE the user row, DELETE the user's         *)
(* remember-me and reset tokens, COMMIT.  A row lock is held until the     *)
(* commit, and what a transaction deletes stays visible until then.        *)
(*                                                                         *)
(* The passwords themselves do not matter, only whether one was changed:   *)
(* "fresh", "proven" and "late" are history fields that no guard reads.    *)
(***************************************************************************)
EXTENDS Naturals, FiniteSets

CONSTANTS
    User,        \* accounts (a user id and its e-mail address)
    Root,        \* the accounts with is_root, created by the seeder
    Browser,     \* clients: each has a session cookie and a remember cookie
    Token,       \* reset tokens, each sent in one mail (one deleted can stand for a new one)
    MaxVersion,  \* bound: no change of account u starts at version MaxVersion[u]
    Null

ASSUME AccountsAssumption ==
    /\ Root \subseteq User
    /\ MaxVersion \in [User -> Nat]
    /\ Null \notin Browser \cup User \cup Token

VARIABLES
    users,       \* users table: Null or [active, version, lock]
    tokens,      \* password_reset_tokens: Null or [user, live, lock]
    remember,    \* remember_me_tokens: the row the browser's cookie names
    session,     \* the browser's session: user id and authVersion
    req,         \* the request each browser has in flight
    overwritten  \* history: users saved over a version that was not loaded

vars == <<users, tokens, remember, session, req, overwritten>>

UserRow == [active: BOOLEAN, version: Nat, lock: Browser \cup {Null}]
TokenRow == [user: User, live: BOOLEAN, lock: Browser \cup {Null}]
RememberRow == [user: User, proven: BOOLEAN, late: BOOLEAN]
Session == [user: User, version: Nat, fresh: BOOLEAN]
Request == [op: {"login", "remember", "toggle", "change", "adminReset", "reset", "link"},
            stage: {"start", "delete", "commit"},
            user: User, version: Nat, active: BOOLEAN,
            token: Token \cup {Null}, doomed: SUBSET Browser,
            fresh: BOOLEAN, proven: BOOLEAN]

\* An absent row, cookie or request is none of the rows.
ASSUME NullAssumption ==
    Null \notin UserRow \cup TokenRow \cup RememberRow \cup Session \cup Request

(* Every field of a row, a cookie and a request keeps its type. *)
TypeOK ==
    /\ users \in [User -> UserRow \cup {Null}]
    /\ tokens \in [Token -> TokenRow \cup {Null}]
    /\ remember \in [Browser -> RememberRow \cup {Null}]
    /\ session \in [Browser -> Session \cup {Null}]
    /\ req \in [Browser -> Request \cup {Null}]
    /\ overwritten \subseteq User

\* Mutant: a new user gets no auth_version.
NewUserUnversioned == [active |-> TRUE, version |-> Null, lock |-> Null]
NewUser == [active |-> TRUE, version |-> 0, lock |-> Null]

Init ==
    /\ users = [u \in User |-> IF u \in Root THEN NewUser ELSE Null]
    /\ tokens = [t \in Token |-> Null]
    /\ remember = [b \in Browser |-> Null]
    /\ session = [b \in Browser |-> Null]
    /\ req = [b \in Browser |-> Null]
    /\ overwritten = {}

-----------------------------------------------------------------------------
(* Who a request comes from.                                               *)

\* Mutant: the middleware does not compare the session's version.
AcceptedAnyVersion(b) ==
    /\ session[b] # Null
    /\ users[session[b].user].active

(* AuthMiddleware lets the request through. *)
Accepted(b) ==
    /\ session[b] # Null
    /\ session[b].version = users[session[b].user].version
    /\ users[session[b].user].active

Idle(b) == req[b] = Null
Guest(b) == Idle(b) /\ session[b] = Null /\ remember[b] = Null
Member(b) == Idle(b) /\ Accepted(b)
Administrator(b) == Member(b) /\ session[b].user \in Root

Start(b, op, u, t, proven) ==
    req' = [req EXCEPT ![b] =
        [op |-> op, stage |-> "start", user |-> u, version |-> users[u].version,
         active |-> users[u].active, token |-> t, doomed |-> {},
         fresh |-> TRUE, proven |-> proven]]

TokensOf(u) == {t \in Token : tokens[t] # Null /\ tokens[t].user = u}
LockedBy(b) == {t \in Token : tokens[t] # Null /\ tokens[t].lock = b}
LockTokens(b, ts) ==
    tokens' = [t \in Token |-> IF t \in ts THEN [tokens[t] EXCEPT !.lock = b] ELSE tokens[t]]

(* A token row or user row is locked by the transaction of another request. *)
TokensFree(b, u) == \A t \in TokensOf(u) : tokens[t].lock \in {b, Null}
RowFree(u) == users[u].lock = Null

-----------------------------------------------------------------------------
(* Signing in and out.                                                     *)

(* store: verifyCredentials has loaded the row and the password matched. *)
LoginVerify(b, u) ==
    /\ Guest(b)
    /\ users[u] # Null /\ users[u].active
    /\ Start(b, "login", u, Null, TRUE)
    /\ UNCHANGED <<users, tokens, remember, session, overwritten>>

(* A remember row of u stored now: late when a password change has         *)
(* committed since the credentials were checked, or is in its transaction. *)
RememberFor(b) ==
    LET u == req[b].user
    IN  [user |-> u, proven |-> req[b].proven,
         late |-> ~req[b].proven \/ ~RowFree(u)]

(* store: guard.login stores the remember token, session.put the version   *)
(* that was loaded with the credentials.                                   *)
LoginFinish(b, rememberMe) ==
    /\ ~Idle(b) /\ req[b].op = "login"
    /\ session' = [session EXCEPT ![b] =
           [user |-> req[b].user, version |-> req[b].version, fresh |-> req[b].fresh]]
    /\ remember' = [remember EXCEPT ![b] = IF rememberMe THEN RememberFor(b) ELSE Null]
    /\ req' = [req EXCEPT ![b] = Null]
    /\ UNCHANGED <<users, tokens, overwritten>>

(* SilentAuthMiddleware: the guard verifies the remember cookie's row. *)
RememberVerify(b) ==
    /\ Idle(b) /\ session[b] = Null /\ remember[b] # Null
    /\ Start(b, "remember", remember[b].user, Null, remember[b].proven)
    /\ UNCHANGED <<users, tokens, remember, session, overwritten>>

(* It then loads the user, replaces the row by a new one and starts a      *)
(* session, into which the middleware puts the version just loaded.        *)
RememberRecycle(b) ==
    /\ ~Idle(b) /\ req[b].op = "remember"
    /\ \A c \in Browser : ~Idle(c) => b \notin req[c].doomed
    /\ session' = [session EXCEPT ![b] =
           [user |-> req[b].user, version |-> users[req[b].user].version, fresh |-> TRUE]]
    /\ remember' = [remember EXCEPT ![b] = RememberFor(b)]
    /\ req' = [req EXCEPT ![b] = Null]
    /\ UNCHANGED <<users, tokens, overwritten>>

(* guard.logout: the session's user and the remember row are removed. *)
SignOut(b) ==
    /\ Idle(b) /\ session[b] # Null
    /\ session' = [session EXCEPT ![b] = Null]
    /\ remember' = [remember EXCEPT ![b] = Null]
    /\ UNCHANGED <<users, tokens, req, overwritten>>

Logout(b) == Accepted(b) /\ SignOut(b)
Reject(b) == ~Accepted(b) /\ SignOut(b)

(* The session's age is two hours; the remember cookie outlives it. *)
SessionExpires(b) ==
    /\ Idle(b) /\ session[b] # Null
    /\ session' = [session EXCEPT ![b] = Null]
    /\ UNCHANGED <<users, tokens, remember, req, overwritten>>

-----------------------------------------------------------------------------
(* Changes of an account.                                                  *)

CreateUser(b, u) ==
    /\ Administrator(b)
    /\ users[u] = Null
    /\ users' = [users EXCEPT ![u] = NewUser]
    /\ UNCHANGED <<tokens, remember, session, req, overwritten>>

MayChange(u) == users[u] # Null /\ users[u].version < MaxVersion[u]

(* toggleActiveUser and resetPassword: not oneself, not a root user. *)
MayAdminister(b, u) ==
    /\ Administrator(b)
    /\ MayChange(u)
    /\ u # session[b].user /\ u \notin Root

ToggleRead(b, u) ==
    /\ MayAdminister(b, u)
    /\ Start(b, "toggle", u, Null, TRUE)
    /\ UNCHANGED <<users, tokens, remember, session, overwritten>>

AdminResetRead(b, u) ==
    /\ MayAdminister(b, u)
    /\ Start(b, "adminReset", u, Null, TRUE)
    /\ UNCHANGED <<users, tokens, remember, session, overwritten>>

(* changePassword: the current password has been checked. *)
ChangeRead(b) ==
    /\ Member(b) /\ MayChange(session[b].user)
    /\ Start(b, "change", session[b].user, Null, TRUE)
    /\ UNCHANGED <<users, tokens, remember, session, overwritten>>

\* Mutant: the token is read without FOR UPDATE.
ResetLockShared(b, t) ==
    /\ Guest(b)
    /\ tokens[t] # Null /\ tokens[t].live
    /\ MayChange(tokens[t].user) /\ users[tokens[t].user].active
    /\ LockTokens(b, {t})
    /\ Start(b, "reset", tokens[t].user, t, TRUE)
    /\ UNCHANGED <<users, remember, session, overwritten>>

(* updatePasswordByToken: SELECT ... FOR UPDATE and DELETE of the token,   *)
(* then the read of the user, who must be active.                          *)
ResetLock(b, t) ==
    /\ Guest(b)
    /\ tokens[t] # Null /\ tokens[t].live /\ tokens[t].lock = Null
    /\ MayChange(tokens[t].user) /\ users[tokens[t].user].active
    /\ LockTokens(b, {t})
    /\ Start(b, "reset", tokens[t].user, t, TRUE)
    /\ UNCHANGED <<users, remember, session, overwritten>>

SetsPassword(b) == ~Idle(b) /\ req[b].op \in {"change", "adminReset", "reset"}

(* UPDATE of the user row: waits for its lock. *)
SaveUser(b) ==
    /\ SetsPassword(b) /\ req[b].stage = "start"
    /\ RowFree(req[b].user)
    /\ users' = [users EXCEPT ![req[b].user].lock = b]
    /\ req' = [req EXCEPT ![b].stage = "delete"]
    /\ UNCHANGED <<tokens, remember, session, overwritten>>

\* Mutant: a password change keeps the remember-me tokens.
RememberRowsKept(u) == {}
RememberRowsOf(u) == {c \in Browser : remember[c] # Null /\ remember[c].user = u}

(* DELETE of the user's remember and reset tokens: waits for the latter. *)
DeleteTokens(b) ==
    LET u == req[b].user
    IN  /\ SetsPassword(b) /\ req[b].stage = "delete"
        /\ TokensFree(b, u)
        /\ LockTokens(b, TokensOf(u))
        /\ req' = [req EXCEPT ![b].stage = "commit", ![b].doomed = RememberRowsOf(u)]
        /\ UNCHANGED <<users, remember, session, overwritten>>

(* The history of a committed change of u by b: what was read before it is *)
(* no longer fresh, and after a password change no longer proven.          *)
AgedSessions(b, u, ss) ==
    [c \in Browser |->
        IF ss[c] # Null /\ ss[c].user = u /\ c # b THEN [ss[c] EXCEPT !.fresh = FALSE]
        ELSE ss[c]]

AgedRequests(b, u, password) ==
    [c \in Browser |->
        IF c = b THEN Null
        ELSE IF req[c] # Null /\ req[c].user = u /\ req[c].op \in {"login", "remember"}
             THEN [req[c] EXCEPT !.fresh = FALSE, !.proven = @ /\ ~password]
             ELSE req[c]]

Overwrites(b) ==
    overwritten' = IF users[req[b].user].version = req[b].version THEN overwritten
                   ELSE overwritten \cup {req[b].user}

(* COMMIT; changePassword then puts the new version into its own session. *)
CommitPassword(b) ==
    LET u == req[b].user
        new == req[b].version + 1
        own == IF req[b].op = "change" THEN {b} ELSE {}
    IN  /\ SetsPassword(b) /\ req[b].stage = "commit"
        /\ users' = [users EXCEPT ![u].version = new, ![u].lock = Null]
        /\ tokens' = [t \in Token |-> IF t \in LockedBy(b) THEN Null ELSE tokens[t]]
        /\ remember' = [c \in Browser |->
               IF c \in req[b].doomed THEN Null
               ELSE IF remember[c] # Null /\ remember[c].user = u
                    THEN [remember[c] EXCEPT !.proven = FALSE]
                    ELSE remember[c]]
        /\ session' = [AgedSessions(IF own = {} THEN Null ELSE b, u, session) EXCEPT
               ![b] = IF own = {} THEN @ ELSE [@ EXCEPT !.version = new, !.fresh = TRUE]]
        /\ req' = AgedRequests(b, u, TRUE)
        /\ Overwrites(b)

(* toggleActiveUser saves is_active and auth_version, nothing else. *)
ToggleSave(b) ==
    LET u == req[b].user
    IN  /\ ~Idle(b) /\ req[b].op = "toggle"
        /\ RowFree(u)
        /\ users' = [users EXCEPT ![u].active = ~req[b].active,
                                  ![u].version = req[b].version + 1]
        /\ session' = AgedSessions(Null, u, session)
        /\ req' = AgedRequests(b, u, FALSE)
        /\ Overwrites(b)
        /\ UNCHANGED <<tokens, remember>>

-----------------------------------------------------------------------------
(* Reset links.                                                            *)

LinkRead(b, u) ==
    /\ Guest(b)
    /\ MayChange(u) /\ users[u].active
    /\ Start(b, "link", u, Null, TRUE)
    /\ UNCHANGED <<users, tokens, remember, session, overwritten>>

LinkDelete(b) ==
    /\ ~Idle(b) /\ req[b].op = "link" /\ req[b].stage = "start"
    /\ TokensFree(b, req[b].user)
    /\ LockTokens(b, TokensOf(req[b].user))
    /\ req' = [req EXCEPT ![b].stage = "commit"]
    /\ UNCHANGED <<users, remember, session, overwritten>>

LinkInsert(b, t) ==
    /\ ~Idle(b) /\ req[b].op = "link" /\ req[b].stage = "commit"
    /\ tokens[t] = Null \/ t \in LockedBy(b)
    /\ tokens' = [s \in Token |->
           IF s = t THEN [user |-> req[b].user, live |-> TRUE, lock |-> Null]
           ELSE IF s \in LockedBy(b) THEN Null ELSE tokens[s]]
    /\ req' = [req EXCEPT ![b] = Null]
    /\ UNCHANGED <<users, remember, session, overwritten>>

(* A token's hour is over. *)
TokenExpires(t) ==
    /\ tokens[t] # Null /\ tokens[t].live
    /\ tokens' = [tokens EXCEPT ![t].live = FALSE]
    /\ UNCHANGED <<users, remember, session, req, overwritten>>

-----------------------------------------------------------------------------
(* Failures.                                                               *)

\* Mutant: a failed transaction is left open.
RollbackKeepsLocks(b) ==
    /\ req' = [req EXCEPT ![b] = Null]
    /\ UNCHANGED <<users, tokens, remember, session, overwritten>>

(* The request is lost or its process stops: its transaction rolls back. *)
Rollback(b) ==
    /\ users' = [u \in User |->
           IF users[u] # Null /\ users[u].lock = b THEN [users[u] EXCEPT !.lock = Null]
           ELSE users[u]]
    /\ LockTokens(Null, LockedBy(b))
    /\ req' = [req EXCEPT ![b] = Null]
    /\ UNCHANGED <<remember, session, overwritten>>

Abort(b) == ~Idle(b) /\ Rollback(b)

(* b's statement waits for a row that c's transaction has locked. *)
WaitsFor(b, c) ==
    /\ ~Idle(b) /\ b # c
    /\ \/ SetsPassword(b) /\ req[b].stage = "start" /\ users[req[b].user].lock = c
       \/ req[b].op = "toggle" /\ users[req[b].user].lock = c
       \/ /\ \/ SetsPassword(b) /\ req[b].stage = "delete"
             \/ req[b].op = "link" /\ req[b].stage = "start"
          /\ \E t \in TokensOf(req[b].user) : tokens[t].lock = c

(* PostgreSQL finds two transactions waiting for each other and ends one:  *)
(* a reset holds its token and wants the user row, a password change holds *)
(* the user row and wants the token.                                       *)
DeadlockVictim(b) ==
    /\ \E c \in Browser : WaitsFor(b, c) /\ WaitsFor(c, b)
    /\ Rollback(b)

-----------------------------------------------------------------------------
Step(b) ==
    \/ \E r \in BOOLEAN : LoginFinish(b, r)
    \/ RememberRecycle(b)
    \/ SaveUser(b) \/ DeleteTokens(b) \/ CommitPassword(b)
    \/ ToggleSave(b)
    \/ LinkDelete(b) \/ \E t \in Token : LinkInsert(b, t)
    \/ DeadlockVictim(b)

Begin(b) ==
    \/ \E u \in User : \/ LoginVerify(b, u) \/ CreateUser(b, u)
                       \/ ToggleRead(b, u) \/ AdminResetRead(b, u) \/ LinkRead(b, u)
    \/ RememberVerify(b) \/ ChangeRead(b)
    \/ \E t \in Token : ResetLock(b, t)
    \/ Logout(b) \/ Reject(b) \/ SessionExpires(b)

Next ==
    \/ \E b \in Browser : Step(b) \/ Begin(b) \/ Abort(b)
    \/ \E t \in Token : TokenExpires(t)

(* The server goes on with a request it has begun.  PostgreSQL queues the  *)
(* requests that wait for a row, so one that is offered the lock again and *)
(* again gets it: strong fairness.                                         *)
Fairness == \A b \in Browser : SF_vars(Step(b))

Spec == Init /\ [][Next]_vars /\ Fairness

-----------------------------------------------------------------------------
(* A session issued before a change of its account (password, activation)  *)
(* is rejected from the commit of that change on, through every later      *)
(* change: authVersion has moved on.  The exception is exactly a user      *)
(* whose row was saved over a version the saving request had not loaded    *)
(* (two overlapping changes), where the same version can come twice.       *)
StaleSessionsRejected ==
    \A b \in Browser :
        Accepted(b) /\ session[b].user \notin overwritten => session[b].fresh

(* A remember-me token does not survive a change of the password it was    *)
(* obtained with, unless it was stored while that change was in its        *)
(* transaction or after it, by a sign-in that had checked the old one.     *)
RememberTokensRevoked ==
    \A b \in Browser :
        remember[b] # Null => remember[b].proven \/ remember[b].late

(* A reset link changes one password at most, however often and however    *)
(* concurrently it is posted and whatever else changes the account: the    *)
(* change it commits removes its own token, which was still there.         *)
ResetConsumesToken ==
    [][\A b \in Browser :
        CommitPassword(b) /\ req[b].op = "reset" =>
            /\ tokens[req[b].token] # Null
            /\ tokens'[req[b].token] = Null]_vars

(* Every request ends: the transactions lock the user row and the token    *)
(* rows in both orders, and the database's deadlock detection is what      *)
(* releases them.                                                          *)
RequestsEnd == \A b \in Browser : ~Idle(b) ~> Idle(b)
=============================================================================
