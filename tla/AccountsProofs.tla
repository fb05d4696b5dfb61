--------------------------- MODULE AccountsProofs ---------------------------
(***************************************************************************)
(* Proofs about Accounts, for any number of accounts, browsers, tokens and *)
(* changes.                                                                *)
(***************************************************************************)
EXTENDS Accounts, TLAPS

-----------------------------------------------------------------------------
(* The inductive invariant *)

\* A version that was read from u's row has not been passed, and has been left
\* behind when a change was committed since.  Says nothing of overwritten users.
VersionOK(u, version, fresh) ==
    u \notin overwritten =>
        /\ version <= users[u].version
        /\ ~fresh => version < users[u].version

SessionOK(b) ==
    session[b] # Null =>
        /\ users[session[b].user] # Null
        /\ VersionOK(session[b].user, session[b].version, session[b].fresh)

\* While the transaction of a password change is open, every remember row of its
\* user that the transaction does not delete was stored during it.
DoomedOK(u, doomed) ==
    \A c \in Browser :
        remember[c] # Null /\ remember[c].user = u => c \in doomed \/ remember[c].late

\* What a request has read and locked.
RequestOK(b) ==
    req[b] # Null =>
        /\ users[req[b].user] # Null
        /\ req[b].op = "login" => VersionOK(req[b].user, req[b].version, req[b].fresh)
        /\ req[b].op = "change" => session[b] # Null /\ session[b].user = req[b].user
        /\ req[b].op = "reset" => /\ req[b].token \in Token
                                  /\ tokens[req[b].token] # Null
                                  /\ tokens[req[b].token].lock = b
        /\ SetsPassword(b) /\ req[b].stage # "start" => users[req[b].user].lock = b
        /\ SetsPassword(b) /\ req[b].stage = "commit" => DoomedOK(req[b].user, req[b].doomed)

RememberOK(b) ==
    remember[b] # Null =>
        /\ users[remember[b].user] # Null
        /\ remember[b].proven \/ remember[b].late

TokenOK(t) == tokens[t] # Null => users[tokens[t].user] # Null

Inductive ==
    /\ TypeOK
    /\ \A b \in Browser : SessionOK(b)
    /\ \A b \in Browser : RequestOK(b)
    /\ \A b \in Browser : RememberOK(b)
    /\ \A t \in Token : TokenOK(t)

-----------------------------------------------------------------------------
(* Frames *)

\* The invariant's parts, for one browser.
LEMMA Facts ==
    ASSUME Inductive, NEW b \in Browser
    PROVE  /\ users \in [User -> UserRow \cup {Null}]
           /\ tokens \in [Token -> TokenRow \cup {Null}]
           /\ remember \in [Browser -> RememberRow \cup {Null}]
           /\ session \in [Browser -> Session \cup {Null}]
           /\ req \in [Browser -> Request \cup {Null}]
           /\ overwritten \subseteq User
           /\ SessionOK(b) /\ RequestOK(b) /\ RememberOK(b)
BY DEF Inductive, TypeOK

\* A step of browser b (of none when b is Null) that changes no version, and
\* touches neither cookies, requests nor locks of the other browsers.
LEMMA Frame ==
    ASSUME Inductive, TypeOK', NEW b \in Browser \cup {Null},
           overwritten' = overwritten,
           \A u \in User : users[u] # Null =>
               users'[u] # Null /\ users'[u].version = users[u].version,
           \A u \in User, c \in Browser \ {b} :
               users[u] # Null /\ users[u].lock = c => users'[u].lock = c,
           \A t \in Token, c \in Browser \ {b} :
               tokens[t] # Null /\ tokens[t].lock = c => tokens'[t] # Null /\ tokens'[t].lock = c,
           \A t \in Token : TokenOK(t)',
           \A c \in Browser \ {b} :
               session'[c] = session[c] /\ remember'[c] = remember[c] /\ req'[c] = req[c],
           b \in Browser => SessionOK(b)' /\ RequestOK(b)' /\ RememberOK(b)',
           b \in Browser /\ remember'[b] # Null =>
               \/ remember'[b] = remember[b]
               \/ users[remember'[b].user].lock # Null => remember'[b].late
    PROVE  Inductive'
<1> SUFFICES ASSUME NEW c \in Browser, c # b
             PROVE  SessionOK(c)' /\ RequestOK(c)' /\ RememberOK(c)'
  BY DEF Inductive
<1>1. session'[c] = session[c] /\ remember'[c] = remember[c] /\ req'[c] = req[c]
  OBVIOUS
<1>t. /\ SessionOK(c) /\ RequestOK(c) /\ RememberOK(c)
      /\ session[c] \in Session \cup {Null} /\ remember[c] \in RememberRow \cup {Null}
      /\ req[c] \in Request \cup {Null}
  BY Facts
<1>2. SessionOK(c)'
  <2> PICK s : s = session[c]
    OBVIOUS
  <2> SUFFICES ASSUME session'[c] # Null
               PROVE  users'[s.user] # Null /\ VersionOK(s.user, s.version, s.fresh)'
    BY <1>1 DEF SessionOK
  <2>1. s # Null /\ s.user \in User
    BY <1>1, <1>t DEF Session
  <2>2. users[s.user] # Null /\ VersionOK(s.user, s.version, s.fresh)
    BY <1>t, <2>1 DEF SessionOK
  <2> QED BY <1>1, <2>1, <2>2 DEF VersionOK
<1>3. RememberOK(c)'
  <2> SUFFICES ASSUME remember[c] # Null PROVE users'[remember[c].user] # Null
    BY <1>1, <1>t DEF RememberOK
  <2> QED BY <1>t DEF RememberOK, RememberRow
<1>4. RequestOK(c)'
  <2> PICK r : r = req[c]
    OBVIOUS
  <2> SUFFICES ASSUME r # Null PROVE RequestOK(c)'
    BY <1>1 DEF RequestOK
  <2>1. r.user \in User /\ r.token \in Token \cup {Null} /\ req'[c] = r
    BY <1>1, <1>t DEF Request
  <2>2. users[r.user] # Null /\ users'[r.user] # Null
    BY <1>t, <2>1 DEF RequestOK
  <2>3. r.op = "login" => VersionOK(r.user, r.version, r.fresh)'
    BY <1>1, <1>t, <2>1, <2>2 DEF RequestOK, VersionOK
  <2>4. r.op = "change" => session'[c] # Null /\ session'[c].user = r.user
    BY <1>1, <1>t DEF RequestOK
  <2>5. r.op = "reset" => r.token \in Token /\ tokens'[r.token] # Null /\ tokens'[r.token].lock = c
    BY <1>t DEF RequestOK
  <2>6. SetsPassword(c)' => SetsPassword(c)
    BY <1>1 DEF SetsPassword, Idle
  <2>7. SetsPassword(c) /\ r.stage # "start" => users[r.user].lock = c /\ users'[r.user].lock = c
    BY <1>t, <2>1, <2>2 DEF RequestOK
  <2>8. SetsPassword(c) /\ r.stage = "commit" => DoomedOK(r.user, r.doomed)'
    <3> SUFFICES ASSUME SetsPassword(c), r.stage = "commit", NEW d \in Browser,
                        remember'[d] # Null, remember'[d].user = r.user, d \notin r.doomed
                 PROVE  remember'[d].late
      BY <1>1 DEF DoomedOK
    <3>1. DoomedOK(r.user, r.doomed)
      BY <1>t DEF RequestOK
    <3>2. CASE remember'[d] = remember[d]
      BY <3>1, <3>2 DEF DoomedOK
    <3>3. CASE remember'[d] # remember[d]
      <4>1. d = b /\ users[r.user].lock # Null
        BY <2>7, <3>3, AccountsAssumption
      <4> QED BY <3>3, <4>1
    <3> QED BY <3>2, <3>3
  <2> QED BY <2>1, <2>2, <2>3, <2>4, <2>5, <2>6, <2>7, <2>8 DEF RequestOK
<1> QED BY <1>2, <1>3, <1>4

-----------------------------------------------------------------------------
(* The beginnings of requests *)

Ops == {"login", "remember", "toggle", "change", "adminReset", "reset", "link"}

\* A request that starts with the row of an existing user.
LEMMA StartStep ==
    ASSUME Inductive, NEW b \in Browser, NEW op \in Ops, NEW u \in User,
           NEW t \in Token \cup {Null}, NEW proven \in BOOLEAN,
           users[u] # Null, Start(b, op, u, t, proven),
           UNCHANGED <<users, remember, session, overwritten>>,
           op = "change" => session[b] # Null /\ session[b].user = u,
           op = "reset" => t \in Token /\ tokens'[t] # Null /\ tokens'[t].lock = b,
           tokens' \in [Token -> TokenRow \cup {Null}],
           \A s \in Token : tokens'[s] # Null => tokens[s] # Null /\ tokens'[s].user = tokens[s].user,
           \A s \in Token, c \in Browser \ {b} :
               tokens[s] # Null /\ tokens[s].lock = c => tokens'[s] # Null /\ tokens'[s].lock = c
    PROVE  Inductive'
<1>t. /\ users \in [User -> UserRow \cup {Null}] /\ req \in [Browser -> Request \cup {Null}]
      /\ SessionOK(b) /\ RememberOK(b) /\ session[b] \in Session \cup {Null}
      /\ remember[b] \in RememberRow \cup {Null}
  BY Facts
<1> DEFINE r == [op |-> op, stage |-> "start", user |-> u, version |-> users[u].version,
                 active |-> users[u].active, token |-> t, doomed |-> {},
                 fresh |-> TRUE, proven |-> proven]
<1>1. users[u] \in UserRow
  BY <1>t
<1>2. users[u].version \in Nat /\ users[u].active \in BOOLEAN
  BY <1>1 DEF UserRow
<1>3. r \in Request /\ r.op = op /\ r.stage = "start" /\ r.user = u /\ r.token = t
        /\ r.version = users[u].version /\ r.fresh = TRUE
  BY <1>2 DEF Request, Ops
<1>4. req' = [req EXCEPT ![b] = r]
  BY DEF Start
<1> HIDE DEF r
<1>5. /\ req' \in [Browser -> Request \cup {Null}] /\ req'[b] = r
      /\ \A c \in Browser \ {b} : req'[c] = req[c]
  BY <1>t, <1>3, <1>4
<1>6. TypeOK'
  BY <1>5 DEF Inductive, TypeOK
<1>7. RequestOK(b)'
  <2>1. VersionOK(req[b].user, req[b].version, req[b].fresh)'
    BY <1>2, <1>3, <1>5 DEF VersionOK
  <2>2. SetsPassword(b)' => req'[b].stage = "start"
    BY <1>3, <1>5
  <2> QED BY <1>3, <1>5, <2>1, <2>2 DEF RequestOK
<1>8. SessionOK(b)' /\ RememberOK(b)'
  BY <1>t DEF SessionOK, RememberOK, VersionOK
<1>9. \A s \in Token : TokenOK(s)'
  BY DEF Inductive, TokenOK
<1> QED BY <1>5, <1>6, <1>7, <1>8, <1>9, Frame

\* A session or a remember row names an existing user.
LEMMA CookieFacts ==
    ASSUME Inductive, NEW b \in Browser
    PROVE  /\ session[b] # Null =>
                  session[b].user \in User /\ users[session[b].user] # Null
           /\ remember[b] # Null =>
                  /\ remember[b].user \in User /\ users[remember[b].user] # Null
                  /\ remember[b].proven \in BOOLEAN
           /\ tokens \in [Token -> TokenRow \cup {Null}]
<1>1. /\ session[b] \in Session \cup {Null} /\ remember[b] \in RememberRow \cup {Null}
      /\ SessionOK(b) /\ RememberOK(b) /\ tokens \in [Token -> TokenRow \cup {Null}]
  BY Facts
<1> QED BY <1>1 DEF Session, RememberRow, SessionOK, RememberOK

\* Every request that only reads starts within the invariant.
LEMMA ReadSteps ==
    ASSUME Inductive, NEW b \in Browser,
           \/ \E u \in User : \/ LoginVerify(b, u) \/ ToggleRead(b, u)
                              \/ AdminResetRead(b, u) \/ LinkRead(b, u)
           \/ RememberVerify(b) \/ ChangeRead(b)
    PROVE  Inductive'
<1>0. /\ session[b] # Null => session[b].user \in User /\ users[session[b].user] # Null
      /\ remember[b] # Null => /\ remember[b].user \in User /\ users[remember[b].user] # Null
                               /\ remember[b].proven \in BOOLEAN
      /\ tokens \in [Token -> TokenRow \cup {Null}]
  BY CookieFacts
<1> DEFINE Starts(op, u, proven) ==
          /\ users[u] # Null /\ Start(b, op, u, Null, proven)
          /\ op = "change" => session[b] # Null /\ session[b].user = u
          /\ op # "reset" /\ UNCHANGED <<users, tokens, remember, session, overwritten>>
<1>1. \E op \in Ops, u \in User, proven \in BOOLEAN : Starts(op, u, proven)
  <2>0. {"login", "toggle", "adminReset", "link", "remember", "change"} \subseteq Ops
    BY DEF Ops
  <2>1. ASSUME NEW u \in User, LoginVerify(b, u) PROVE Starts("login", u, TRUE)
    BY <2>1 DEF LoginVerify
  <2>2. ASSUME NEW u \in User, ToggleRead(b, u) PROVE Starts("toggle", u, TRUE)
    BY <2>2 DEF ToggleRead, MayAdminister, MayChange
  <2>3. ASSUME NEW u \in User, AdminResetRead(b, u) PROVE Starts("adminReset", u, TRUE)
    BY <2>3 DEF AdminResetRead, MayAdminister, MayChange
  <2>4. ASSUME NEW u \in User, LinkRead(b, u) PROVE Starts("link", u, TRUE)
    BY <2>4 DEF LinkRead, MayChange
  <2>5. RememberVerify(b) =>
            remember[b] # Null /\ Starts("remember", remember[b].user, remember[b].proven)
    BY <1>0 DEF RememberVerify
  <2>6. ChangeRead(b) => session[b] # Null /\ Starts("change", session[b].user, TRUE)
    BY <1>0 DEF ChangeRead, Member, Accepted
  <2> HIDE DEF Starts
  <2>7. ASSUME NEW u \in User, NEW op \in Ops, Starts(op, u, TRUE)
        PROVE  \E op2 \in Ops, u2 \in User, proven \in BOOLEAN : Starts(op2, u2, proven)
    <3>1. TRUE \in BOOLEAN
      OBVIOUS
    <3> QED BY <2>7, <3>1
  <2>8. CASE \E u \in User : \/ LoginVerify(b, u) \/ ToggleRead(b, u)
                             \/ AdminResetRead(b, u) \/ LinkRead(b, u)
    BY <2>0, <2>1, <2>2, <2>3, <2>4, <2>7, <2>8
  <2>9. CASE RememberVerify(b)
    <3>1. remember[b].user \in User /\ remember[b].proven \in BOOLEAN /\ "remember" \in Ops
      BY <1>0, <2>0, <2>5, <2>9
    <3> QED BY <2>5, <2>9, <3>1
  <2>10. CASE ChangeRead(b)
    <3>1. session[b].user \in User /\ "change" \in Ops
      BY <1>0, <2>0, <2>6, <2>10
    <3> QED BY <2>6, <2>7, <2>10, <3>1
  <2> QED BY <2>8, <2>9, <2>10
<1>2. PICK op \in Ops, u \in User, proven \in BOOLEAN : Starts(op, u, proven)
  BY <1>1
<1> QED BY <1>0, <1>2, StartStep

\* Locking rows changes nothing but their lock.
LEMMA LockFacts ==
    ASSUME Inductive, NEW who \in Browser \cup {Null}, NEW ts \in SUBSET Token,
           \A t \in ts : tokens[t] # Null, LockTokens(who, ts)
    PROVE  /\ tokens' \in [Token -> TokenRow \cup {Null}]
           /\ \A t \in ts : /\ tokens'[t] # Null /\ tokens'[t].lock = who
                            /\ tokens'[t].user = tokens[t].user
           /\ \A t \in Token \ ts : tokens'[t] = tokens[t]
           /\ \A t \in Token : tokens'[t] # Null => tokens[t] # Null /\ tokens'[t].user = tokens[t].user
<1>1. tokens \in [Token -> TokenRow \cup {Null}]
  BY DEF Inductive, TypeOK
<1>2. ASSUME NEW t \in ts
      PROVE  /\ tokens'[t] \in TokenRow /\ tokens'[t].lock = who
             /\ tokens'[t].user = tokens[t].user
  <2>1. tokens[t] \in TokenRow
    BY <1>1
  <2>2. tokens'[t] = [tokens[t] EXCEPT !.lock = who]
    BY DEF LockTokens
  <2> QED BY <2>1, <2>2 DEF TokenRow
<1>3. \A t \in Token \ ts : tokens'[t] = tokens[t]
  BY DEF LockTokens
<1>4. tokens' = [t \in Token |-> tokens'[t]]
  BY DEF LockTokens
<1>5. \A t \in ts : tokens'[t] # Null
  BY <1>2, NullAssumption
<1> QED BY <1>1, <1>2, <1>3, <1>4, <1>5

\* The reset holds the token it was sent.
LEMMA ResetLockStep ==
    ASSUME Inductive, NEW b \in Browser, NEW t \in Token, ResetLock(b, t)
    PROVE  Inductive'
<1>1. /\ tokens[t] # Null /\ tokens[t].lock = Null /\ LockTokens(b, {t})
      /\ users[tokens[t].user] # Null /\ Start(b, "reset", tokens[t].user, t, TRUE)
      /\ UNCHANGED <<users, remember, session, overwritten>>
  BY DEF ResetLock, MayChange
<1>2. tokens[t].user \in User
  <2>1. tokens[t] \in TokenRow
    BY <1>1 DEF Inductive, TypeOK
  <2> QED BY <2>1 DEF TokenRow
<1>3. /\ tokens' \in [Token -> TokenRow \cup {Null}]
      /\ tokens'[t] # Null /\ tokens'[t].lock = b
      /\ \A s \in Token \ {t} : tokens'[s] = tokens[s]
      /\ \A s \in Token : tokens'[s] # Null => tokens[s] # Null /\ tokens'[s].user = tokens[s].user
  BY <1>1, LockFacts
<1>4. \A s \in Token, c \in Browser \ {b} :
          tokens[s] # Null /\ tokens[s].lock = c => tokens'[s] # Null /\ tokens'[s].lock = c
  BY <1>1, <1>3, AccountsAssumption
<1>5. PICK u \in User : u = tokens[t].user
  BY <1>2
<1>6. "reset" \in Ops /\ TRUE \in BOOLEAN
  BY DEF Ops
<1> QED BY <1>1, <1>3, <1>4, <1>5, <1>6, StartStep

-----------------------------------------------------------------------------
(* Cookies *)

\* A step of b that changes only its own session, remember row and request.
LEMMA CookieStep ==
    ASSUME Inductive, NEW b \in Browser,
           UNCHANGED <<users, tokens, overwritten>>,
           session' \in [Browser -> Session \cup {Null}],
           remember' \in [Browser -> RememberRow \cup {Null}],
           req' \in [Browser -> Request \cup {Null}],
           \A c \in Browser \ {b} :
               session'[c] = session[c] /\ remember'[c] = remember[c] /\ req'[c] = req[c],
           req'[b] = Null, SessionOK(b)', RememberOK(b)',
           remember'[b] # Null =>
               \/ remember'[b] = remember[b]
               \/ users[remember'[b].user].lock # Null => remember'[b].late
    PROVE  Inductive'
<1>1. TypeOK' /\ \A t \in Token : TokenOK(t)'
  BY DEF Inductive, TypeOK, TokenOK
<1>2. RequestOK(b)'
  BY DEF RequestOK
<1> QED BY <1>1, <1>2, Frame

\* A session ends.
LEMMA SignOutSteps ==
    ASSUME Inductive, NEW b \in Browser, SignOut(b) \/ SessionExpires(b)
    PROVE  Inductive'
<1>t. /\ session \in [Browser -> Session \cup {Null}]
      /\ remember \in [Browser -> RememberRow \cup {Null}]
      /\ req \in [Browser -> Request \cup {Null}] /\ RememberOK(b)
  BY Facts
<1>1. /\ req[b] = Null /\ UNCHANGED <<users, tokens, req, overwritten>>
      /\ session' = [session EXCEPT ![b] = Null]
      /\ remember' = remember \/ remember' = [remember EXCEPT ![b] = Null]
  BY DEF SignOut, SessionExpires, Idle
<1>2. SessionOK(b)'
  BY <1>t, <1>1 DEF SessionOK
<1>3. RememberOK(b)' /\ (remember'[b] # Null => remember'[b] = remember[b])
  BY <1>t, <1>1 DEF RememberOK
<1> QED BY <1>t, <1>1, <1>2, <1>3, CookieStep

\* A remember row stored now.
LEMMA RememberForFacts ==
    ASSUME Inductive, NEW b \in Browser, req[b] # Null
    PROVE  /\ RememberFor(b) \in RememberRow
           /\ RememberFor(b).user = req[b].user /\ req[b].user \in User
           /\ users[req[b].user] # Null
           /\ RememberFor(b).proven \/ RememberFor(b).late
           /\ users[req[b].user].lock # Null => RememberFor(b).late
<1>1. req[b] \in Request /\ RequestOK(b)
  BY Facts
<1>2. req[b].user \in User /\ req[b].proven \in BOOLEAN
  BY <1>1 DEF Request
<1> DEFINE p == req[b].proven
           late == ~p \/ ~RowFree(req[b].user)
<1>3. late \in BOOLEAN /\ (p \/ late) /\ (users[req[b].user].lock # Null => late)
  BY <1>2 DEF RowFree
<1>4. RememberFor(b) = [user |-> req[b].user, proven |-> p, late |-> late]
  BY DEF RememberFor
<1> HIDE DEF late, p
<1>5. p \in BOOLEAN
  BY <1>2 DEF p
<1> QED BY <1>1, <1>2, <1>3, <1>4, <1>5 DEF RememberRow, RequestOK

\* A sign-in with the password, or with the remember cookie.
LEMMA SignInSteps ==
    ASSUME Inductive, NEW b \in Browser,
           (\E m \in BOOLEAN : LoginFinish(b, m)) \/ RememberRecycle(b)
    PROVE  Inductive'
<1>t. /\ session \in [Browser -> Session \cup {Null}]
      /\ remember \in [Browser -> RememberRow \cup {Null}]
      /\ req \in [Browser -> Request \cup {Null}] /\ RequestOK(b)
      /\ users \in [User -> UserRow \cup {Null}]
  BY Facts
<1> DEFINE r == req[b]
           m == RememberFor(b)
<1>1. r # Null
  BY DEF LoginFinish, RememberRecycle, Idle
<1>2. r \in Request /\ users[r.user] # Null
  BY <1>t, <1>1 DEF RequestOK
<1>3. r.user \in User /\ r.version \in Nat /\ r.fresh \in BOOLEAN
  BY <1>2 DEF Request
<1>4. users[r.user] \in UserRow
  BY <1>t, <1>2, <1>3
<1>5. users[r.user].version \in Nat
  BY <1>4 DEF UserRow
<1>6. PICK v \in Nat, f \in BOOLEAN :
          /\ session' = [session EXCEPT ![b] = [user |-> r.user, version |-> v, fresh |-> f]]
          /\ VersionOK(r.user, v, f)
  <2>1. CASE RememberRecycle(b)
    <3>1. session' = [session EXCEPT ![b] =
              [user |-> r.user, version |-> users[r.user].version, fresh |-> TRUE]]
      BY <2>1 DEF RememberRecycle
    <3>2. VersionOK(r.user, users[r.user].version, TRUE)
      BY <1>5 DEF VersionOK
    <3>3. TRUE \in BOOLEAN
      OBVIOUS
    <3> QED BY <1>5, <3>1, <3>2, <3>3
  <2>2. ASSUME NEW rememberMe \in BOOLEAN, LoginFinish(b, rememberMe)
        PROVE  /\ session' = [session EXCEPT ![b] =
                      [user |-> r.user, version |-> r.version, fresh |-> r.fresh]]
               /\ VersionOK(r.user, r.version, r.fresh)
    <3>1. session' = [session EXCEPT ![b] =
                      [user |-> r.user, version |-> r.version, fresh |-> r.fresh]]
      BY <2>2 DEF LoginFinish
    <3>2. r.op = "login"
      BY <2>2 DEF LoginFinish
    <3> QED BY <1>t, <1>1, <3>1, <3>2 DEF RequestOK
  <2>3. CASE \E rememberMe \in BOOLEAN : LoginFinish(b, rememberMe)
    <3> HIDE DEF r
    <3> QED BY <1>3, <2>2, <2>3
  <2> QED BY <2>1, <2>3
<1> DEFINE s == [user |-> r.user, version |-> v, fresh |-> f]
<1>7. /\ remember' = [remember EXCEPT ![b] = Null] \/ remember' = [remember EXCEPT ![b] = m]
      /\ req' = [req EXCEPT ![b] = Null] /\ UNCHANGED <<users, tokens, overwritten>>
  BY DEF LoginFinish, RememberRecycle
<1>8. /\ m \in RememberRow /\ m.user \in User /\ users[m.user] # Null
      /\ m.proven \/ m.late
      /\ users[m.user].lock # Null => m.late
  BY <1>1, RememberForFacts
<1>9. s \in Session /\ s.user = r.user /\ s.version = v /\ s.fresh = f
  BY <1>3, <1>6 DEF Session
<1>10. session' = [session EXCEPT ![b] = s]
  BY <1>6
<1> HIDE DEF m, s
<1>11. SessionOK(b)'
  <2>1. session'[b] = s
    BY <1>t, <1>10
  <2> PICK u \in User : u = r.user
    BY <1>3
  <2>2. VersionOK(u, v, f)'
    BY <1>6, <1>7 DEF VersionOK
  <2> HIDE DEF r
  <2> QED BY <1>2, <1>7, <1>9, <2>1, <2>2 DEF SessionOK
<1>12. /\ RememberOK(b)'
       /\ remember'[b] # Null =>
              (users[remember'[b].user].lock # Null => remember'[b].late)
  <2>1. remember'[b] = Null \/ remember'[b] = m
    BY <1>t, <1>7
  <2> QED BY <1>7, <1>8, <2>1 DEF RememberOK
<1>13. session' \in [Browser -> Session \cup {Null}] /\ \A c \in Browser \ {b} : session'[c] = session[c]
  BY <1>t, <1>9, <1>10
<1>14. /\ remember' \in [Browser -> RememberRow \cup {Null}] /\ req' \in [Browser -> Request \cup {Null}]
       /\ \A c \in Browser \ {b} : remember'[c] = remember[c] /\ req'[c] = req[c]
       /\ req'[b] = Null
  BY <1>t, <1>7, <1>8
<1> QED BY <1>7, <1>11, <1>12, <1>13, <1>14, CookieStep

-----------------------------------------------------------------------------
(* Rows and locks *)

\* A step of b (of none when b is Null) that leaves all cookies alone.
LEMMA RowsFrame ==
    ASSUME Inductive, NEW b \in Browser \cup {Null},
           UNCHANGED <<remember, session, overwritten>>,
           users' \in [User -> UserRow \cup {Null}],
           tokens' \in [Token -> TokenRow \cup {Null}],
           req' \in [Browser -> Request \cup {Null}],
           \A u \in User : users[u] # Null =>
               users'[u] # Null /\ users'[u].version = users[u].version,
           \A u \in User, c \in Browser \ {b} :
               users[u] # Null /\ users[u].lock = c => users'[u].lock = c,
           \A t \in Token, c \in Browser \ {b} :
               tokens[t] # Null /\ tokens[t].lock = c => tokens'[t] # Null /\ tokens'[t].lock = c,
           \A t \in Token : tokens'[t] # Null => users'[tokens'[t].user] # Null,
           \A c \in Browser \ {b} : req'[c] = req[c],
           b \in Browser => RequestOK(b)'
    PROVE  Inductive'
<1>1. TypeOK'
  BY DEF Inductive, TypeOK
<1>2. \A t \in Token : TokenOK(t)'
  BY DEF TokenOK
<1>3. ASSUME b \in Browser PROVE SessionOK(b)' /\ RememberOK(b)'
  <2>1. /\ session[b] \in Session \cup {Null} /\ remember[b] \in RememberRow \cup {Null}
        /\ SessionOK(b) /\ RememberOK(b)
    BY <1>3, Facts
  <2>2. session[b] # Null => session[b].user \in User
    BY <2>1 DEF Session
  <2>3. remember[b] # Null => remember[b].user \in User
    BY <2>1 DEF RememberRow
  <2>4. SessionOK(b)'
    BY <2>1, <2>2 DEF SessionOK, VersionOK
  <2>5. RememberOK(b)'
    BY <2>1, <2>3 DEF RememberOK
  <2> QED BY <2>4, <2>5
<1> QED BY <1>1, <1>2, <1>3, Frame

\* Row facts that a step which keeps the users table inherits.
LEMMA TokenUsers ==
    ASSUME Inductive, UNCHANGED users,
           \A t \in Token : tokens'[t] # Null =>
               tokens[t] # Null /\ tokens'[t].user = tokens[t].user
    PROVE  \A t \in Token : tokens'[t] # Null => users'[tokens'[t].user] # Null
BY DEF Inductive, TokenOK

LEMMA CreateUserStep ==
    ASSUME Inductive, NEW b \in Browser, NEW u \in User, CreateUser(b, u) PROVE Inductive'
<1>t. /\ users \in [User -> UserRow \cup {Null}] /\ tokens \in [Token -> TokenRow \cup {Null}]
      /\ req \in [Browser -> Request \cup {Null}]
  BY Facts
<1>1. /\ users[u] = Null /\ users' = [users EXCEPT ![u] = NewUser] /\ req[b] = Null
      /\ UNCHANGED <<tokens, remember, session, req, overwritten>>
  BY DEF CreateUser, Administrator, Member, Idle
<1>2. NewUser \in UserRow
  BY DEF NewUser, UserRow
<1>3. NewUser # Null
  BY <1>2, NullAssumption
<1>4. /\ users' \in [User -> UserRow \cup {Null}] /\ users'[u] # Null
      /\ \A v \in User : users[v] # Null => users'[v] = users[v]
  BY <1>t, <1>1, <1>2, <1>3
<1>5. \A t \in Token : tokens'[t] # Null => users'[tokens'[t].user] # Null
  <2> SUFFICES ASSUME NEW t \in Token, tokens[t] # Null PROVE users'[tokens[t].user] # Null
    BY <1>1
  <2>1. tokens[t].user \in User
    BY <1>t DEF TokenRow
  <2> QED BY <1>4, <2>1 DEF Inductive, TokenOK
<1>6. RequestOK(b)'
  BY <1>1 DEF RequestOK
<1> QED BY <1>t, <1>1, <1>4, <1>5, <1>6, RowsFrame

LEMMA TokenExpiresStep ==
    ASSUME Inductive, NEW t \in Token, TokenExpires(t) PROVE Inductive'
<1>t. /\ users \in [User -> UserRow \cup {Null}] /\ tokens \in [Token -> TokenRow \cup {Null}]
      /\ req \in [Browser -> Request \cup {Null}]
  BY DEF Inductive, TypeOK
<1> DEFINE row == [tokens[t] EXCEPT !.live = FALSE]
<1>1. /\ tokens[t] # Null /\ tokens' = [tokens EXCEPT ![t] = row]
      /\ UNCHANGED <<users, remember, session, req, overwritten>>
  BY DEF TokenExpires
<1>2. tokens[t] \in TokenRow
  BY <1>t, <1>1
<1>3. row \in TokenRow /\ row.user = tokens[t].user /\ row.lock = tokens[t].lock
  BY <1>2 DEF TokenRow
<1>4. row # Null
  BY <1>3, NullAssumption
<1> HIDE DEF row
<1>5. /\ tokens' \in [Token -> TokenRow \cup {Null}]
      /\ \A s \in Token : /\ tokens'[s] # Null => tokens[s] # Null
                          /\ tokens[s] # Null => /\ tokens'[s] # Null
                                                 /\ tokens'[s].user = tokens[s].user
                                                 /\ tokens'[s].lock = tokens[s].lock
  BY <1>t, <1>1, <1>3, <1>4
<1>6. \A s \in Token : tokens'[s] # Null => users'[tokens'[s].user] # Null
  BY <1>1, <1>5, TokenUsers
<1>7. Null \notin Browser
  BY AccountsAssumption
<1> QED BY <1>t, <1>1, <1>5, <1>6, <1>7, RowsFrame

\* The UPDATE of the user row takes its lock.
LEMMA SaveUserStep ==
    ASSUME Inductive, NEW b \in Browser, SaveUser(b) PROVE Inductive'
<1>t. /\ users \in [User -> UserRow \cup {Null}] /\ tokens \in [Token -> TokenRow \cup {Null}]
      /\ req \in [Browser -> Request \cup {Null}] /\ RequestOK(b)
  BY Facts
<1>0. req[b] # Null /\ req[b].op \in {"change", "adminReset", "reset"}
  BY DEF SaveUser, SetsPassword, Idle
<1>1. req[b] \in Request /\ users[req[b].user] # Null
  BY <1>t, <1>0 DEF RequestOK
<1>2. PICK u \in User : u = req[b].user
  BY <1>1 DEF Request
<1> DEFINE r == [req[b] EXCEPT !.stage = "delete"]
           row == [users[u] EXCEPT !.lock = b]
<1>3. users[u] \in UserRow
  BY <1>t, <1>1, <1>2
<1>4. row \in UserRow /\ row.lock = b /\ row.version = users[u].version
  BY <1>3 DEF UserRow
<1>5. /\ r \in Request /\ r.stage = "delete" /\ r.op = req[b].op /\ r.user = u
      /\ r.token = req[b].token
  BY <1>1, <1>2 DEF Request
<1>6. /\ users[u].lock = Null /\ users' = [users EXCEPT ![u] = row]
      /\ req' = [req EXCEPT ![b] = r]
      /\ UNCHANGED <<tokens, remember, session, overwritten>>
  BY <1>2 DEF SaveUser, RowFree
<1>7. row # Null
  BY <1>4, NullAssumption
<1> HIDE DEF r, row
<1>8. /\ users' \in [User -> UserRow \cup {Null}] /\ users'[u] = row
      /\ \A v \in User \ {u} : users'[v] = users[v]
  BY <1>t, <1>4, <1>6
<1>9. /\ req' \in [Browser -> Request \cup {Null}] /\ req'[b] = r
      /\ \A c \in Browser \ {b} : req'[c] = req[c]
  BY <1>t, <1>5, <1>6
<1>10. RequestOK(b)'
  BY <1>t, <1>0, <1>2, <1>4, <1>5, <1>6, <1>7, <1>8, <1>9 DEF RequestOK
<1>11. \A v \in User : users[v] # Null =>
           users'[v] # Null /\ users'[v].version = users[v].version
  BY <1>4, <1>7, <1>8
<1>12. \A v \in User, c \in Browser \ {b} :
           users[v] # Null /\ users[v].lock = c => users'[v].lock = c
  BY <1>6, <1>8, AccountsAssumption
<1>13. \A t \in Token : tokens'[t] # Null => users'[tokens'[t].user] # Null
  <2> SUFFICES ASSUME NEW t \in Token, tokens[t] # Null PROVE users'[tokens[t].user] # Null
    BY <1>6
  <2>1. tokens[t].user \in User
    BY <1>t DEF TokenRow
  <2> QED BY <1>11, <2>1 DEF Inductive, TokenOK
<1> QED BY <1>t, <1>6, <1>8, <1>9, <1>10, <1>11, <1>12, <1>13, RowsFrame

\* The rows a DELETE locks were free or its own; nobody else loses a lock.
LEMMA DeleteLocks ==
    ASSUME Inductive, NEW b \in Browser, NEW u \in User,
           TokensFree(b, u), LockTokens(b, TokensOf(u))
    PROVE  /\ tokens' \in [Token -> TokenRow \cup {Null}]
           /\ \A t \in Token : tokens'[t] # Null => tokens[t] # Null /\ tokens'[t].user = tokens[t].user
           /\ \A t \in Token, c \in Browser \ {b} :
                  tokens[t] # Null /\ tokens[t].lock = c => tokens'[t] # Null /\ tokens'[t].lock = c
           /\ \A t \in Token : tokens[t] # Null /\ tokens[t].lock = b =>
                  tokens'[t] # Null /\ tokens'[t].lock = b
<1>1. TokensOf(u) \in SUBSET Token /\ \A t \in TokensOf(u) : tokens[t] # Null
  BY DEF TokensOf
<1>2. /\ tokens' \in [Token -> TokenRow \cup {Null}]
      /\ \A t \in TokensOf(u) : tokens'[t] # Null /\ tokens'[t].lock = b
      /\ \A t \in Token \ TokensOf(u) : tokens'[t] = tokens[t]
      /\ \A t \in Token : tokens'[t] # Null => tokens[t] # Null /\ tokens'[t].user = tokens[t].user
  BY <1>1, LockFacts
<1>3. \A t \in TokensOf(u) : tokens[t].lock \in {b, Null}
  BY DEF TokensFree
<1> QED BY <1>2, <1>3, AccountsAssumption

\* The DELETE of a password change dooms every remember row there is.
LEMMA DeleteTokensStep ==
    ASSUME Inductive, NEW b \in Browser, DeleteTokens(b) PROVE Inductive'
<1>t. /\ users \in [User -> UserRow \cup {Null}]
      /\ req \in [Browser -> Request \cup {Null}] /\ RequestOK(b)
  BY Facts
<1>0. req[b] # Null /\ req[b].op \in {"change", "adminReset", "reset"} /\ req[b].stage = "delete"
  BY DEF DeleteTokens, SetsPassword, Idle
<1>1. req[b] \in Request
  BY <1>t, <1>0
<1>2. PICK u \in User : u = req[b].user
  BY <1>1 DEF Request
<1>3. PICK doomed \in SUBSET Browser : doomed = RememberRowsOf(u)
  BY DEF RememberRowsOf
<1> DEFINE r == [[req[b] EXCEPT !.stage = "commit"] EXCEPT !.doomed = doomed]
<1>4. /\ r \in Request /\ r.stage = "commit" /\ r.op = req[b].op /\ r.user = u
      /\ r.token = req[b].token /\ r.doomed = doomed
  BY <1>1, <1>2 DEF Request
<1>5. /\ TokensFree(b, u) /\ LockTokens(b, TokensOf(u)) /\ req' = [req EXCEPT ![b] = r]
      /\ UNCHANGED <<users, remember, session, overwritten>>
  BY <1>t, <1>2, <1>3 DEF DeleteTokens
<1> HIDE DEF r
<1>6. /\ req' \in [Browser -> Request \cup {Null}] /\ req'[b] = r
      /\ \A c \in Browser \ {b} : req'[c] = req[c]
  BY <1>t, <1>4, <1>5
<1>7. /\ tokens' \in [Token -> TokenRow \cup {Null}]
      /\ \A t \in Token : tokens'[t] # Null => tokens[t] # Null /\ tokens'[t].user = tokens[t].user
      /\ \A t \in Token, c \in Browser \ {b} :
             tokens[t] # Null /\ tokens[t].lock = c => tokens'[t] # Null /\ tokens'[t].lock = c
      /\ \A t \in Token : tokens[t] # Null /\ tokens[t].lock = b =>
             tokens'[t] # Null /\ tokens'[t].lock = b
  BY <1>5, DeleteLocks
<1>8. DoomedOK(u, doomed)'
  BY <1>3, <1>5 DEF DoomedOK, RememberRowsOf
<1>9. users[u] # Null /\ users[u].lock = b
  BY <1>t, <1>0, <1>2 DEF RequestOK, SetsPassword, Idle
<1>10. r.op = "change" => session'[b] # Null /\ session'[b].user = u
  BY <1>t, <1>0, <1>2, <1>4, <1>5 DEF RequestOK
<1>11. r.op = "reset" => r.token \in Token /\ tokens'[r.token] # Null /\ tokens'[r.token].lock = b
  BY <1>t, <1>0, <1>4, <1>7 DEF RequestOK
<1>12. RequestOK(b)'
  BY <1>0, <1>4, <1>5, <1>6, <1>8, <1>9, <1>10, <1>11 DEF RequestOK
<1>13. \A t \in Token : tokens'[t] # Null => users'[tokens'[t].user] # Null
  BY <1>5, <1>7, TokenUsers
<1> QED BY <1>t, <1>5, <1>6, <1>7, <1>12, <1>13, RowsFrame

\* A reset link replaces the tokens of its user.
LEMMA LinkSteps ==
    ASSUME Inductive, NEW b \in Browser, LinkDelete(b) \/ \E t \in Token : LinkInsert(b, t)
    PROVE  Inductive'
<1>t. /\ users \in [User -> UserRow \cup {Null}] /\ tokens \in [Token -> TokenRow \cup {Null}]
      /\ req \in [Browser -> Request \cup {Null}] /\ RequestOK(b)
  BY Facts
<1>0. req[b] # Null /\ req[b].op = "link"
  BY DEF LinkDelete, LinkInsert, Idle
<1>1. req[b] \in Request /\ users[req[b].user] # Null
  BY <1>t, <1>0 DEF RequestOK
<1>2. PICK u \in User : u = req[b].user
  BY <1>1 DEF Request
<1>3. CASE LinkDelete(b)
  <2> DEFINE r == [req[b] EXCEPT !.stage = "commit"]
  <2>1. r \in Request /\ r.op = "link" /\ r.user = u
    BY <1>0, <1>1, <1>2 DEF Request
  <2>2. /\ TokensFree(b, u) /\ LockTokens(b, TokensOf(u)) /\ req' = [req EXCEPT ![b] = r]
        /\ UNCHANGED <<users, remember, session, overwritten>>
    BY <1>2, <1>3 DEF LinkDelete
  <2> HIDE DEF r
  <2>3. /\ req' \in [Browser -> Request \cup {Null}] /\ req'[b] = r
        /\ \A c \in Browser \ {b} : req'[c] = req[c]
    BY <1>t, <2>1, <2>2
  <2>4. /\ tokens' \in [Token -> TokenRow \cup {Null}]
        /\ \A t \in Token : tokens'[t] # Null => tokens[t] # Null /\ tokens'[t].user = tokens[t].user
        /\ \A t \in Token, c \in Browser \ {b} :
               tokens[t] # Null /\ tokens[t].lock = c => tokens'[t] # Null /\ tokens'[t].lock = c
    BY <2>2, DeleteLocks
  <2>5. RequestOK(b)'
    BY <1>1, <1>2, <2>1, <2>2, <2>3 DEF RequestOK, SetsPassword
  <2>6. \A t \in Token : tokens'[t] # Null => users'[tokens'[t].user] # Null
    BY <2>2, <2>4, TokenUsers
  <2> QED BY <1>t, <2>2, <2>3, <2>4, <2>5, <2>6, RowsFrame
<1>4. ASSUME NEW t \in Token, LinkInsert(b, t) PROVE Inductive'
  <2> DEFINE row == [user |-> u, live |-> TRUE, lock |-> Null]
  <2>1. row \in TokenRow /\ row.user = u
    BY DEF TokenRow
  <2>2. /\ tokens[t] = Null \/ t \in LockedBy(b)
        /\ tokens' = [s \in Token |->
               IF s = t THEN row ELSE IF s \in LockedBy(b) THEN Null ELSE tokens[s]]
        /\ req' = [req EXCEPT ![b] = Null]
        /\ UNCHANGED <<users, remember, session, overwritten>>
    BY <1>2, <1>4 DEF LinkInsert
  <2> HIDE DEF row
  <2>3. /\ tokens' \in [Token -> TokenRow \cup {Null}] /\ tokens'[t] = row
        /\ \A s \in Token \ {t} : tokens'[s] # Null => tokens'[s] = tokens[s]
    BY <1>t, <2>1, <2>2
  <2>4. \A s \in Token, c \in Browser \ {b} :
            tokens[s] # Null /\ tokens[s].lock = c => tokens'[s] = tokens[s]
    BY <2>2 DEF LockedBy
  <2>5. \A s \in Token : tokens'[s] # Null => users'[tokens'[s].user] # Null
    <3> SUFFICES ASSUME NEW s \in Token, tokens'[s] # Null PROVE users'[tokens'[s].user] # Null
      OBVIOUS
    <3>1. CASE s = t
      BY <1>1, <1>2, <2>1, <2>2, <2>3, <3>1
    <3>2. CASE s # t
      BY <2>2, <2>3, <3>2 DEF Inductive, TokenOK
    <3> QED BY <3>1, <3>2
  <2>6. /\ req' \in [Browser -> Request \cup {Null}] /\ req'[b] = Null
        /\ \A c \in Browser \ {b} : req'[c] = req[c]
    BY <1>t, <2>2
  <2>7. RequestOK(b)'
    BY <2>6 DEF RequestOK
  <2> QED BY <1>t, <2>2, <2>3, <2>4, <2>5, <2>6, <2>7, RowsFrame
<1> QED BY <1>3, <1>4

\* A rollback releases the locks of its own request only.
LEMMA RollbackStep ==
    ASSUME Inductive, NEW b \in Browser, Rollback(b) PROVE Inductive'
<1>t. /\ users \in [User -> UserRow \cup {Null}] /\ tokens \in [Token -> TokenRow \cup {Null}]
      /\ req \in [Browser -> Request \cup {Null}]
  BY Facts
<1>1. /\ LockTokens(Null, LockedBy(b)) /\ req' = [req EXCEPT ![b] = Null]
      /\ UNCHANGED <<remember, session, overwritten>>
      /\ users' = [u \in User |->
             IF users[u] # Null /\ users[u].lock = b THEN [users[u] EXCEPT !.lock = Null]
             ELSE users[u]]
  BY DEF Rollback
<1>2. /\ req' \in [Browser -> Request \cup {Null}] /\ req'[b] = Null
      /\ \A c \in Browser \ {b} : req'[c] = req[c]
  BY <1>t, <1>1
<1>3. ASSUME NEW u \in User
      PROVE  /\ users'[u] \in UserRow \cup {Null}
             /\ users[u] # Null => users'[u] # Null /\ users'[u].version = users[u].version
             /\ \A c \in Browser \ {b} : users[u] # Null /\ users[u].lock = c => users'[u].lock = c
  <2>1. CASE users[u] # Null /\ users[u].lock = b
    <3>1. users'[u] = [users[u] EXCEPT !.lock = Null] /\ users[u] \in UserRow
      BY <1>t, <1>1, <2>1
    <3>2. users'[u] \in UserRow /\ users'[u].version = users[u].version
      BY <3>1 DEF UserRow
    <3>3. users'[u] # Null
      BY <3>2, NullAssumption
    <3> QED BY <2>1, <3>2, <3>3
  <2>2. CASE ~(users[u] # Null /\ users[u].lock = b)
    <3>1. users'[u] = users[u]
      BY <1>1, <2>2
    <3> QED BY <1>t, <3>1
  <2> QED BY <2>1, <2>2
<1>4. users' \in [User -> UserRow \cup {Null}]
  <2>1. users' = [u \in User |-> users'[u]]
    BY <1>1
  <2> QED BY <1>3, <2>1
<1>5. LockedBy(b) \in SUBSET Token /\ \A t \in LockedBy(b) : tokens[t] # Null /\ tokens[t].lock = b
  BY DEF LockedBy
<1>6. /\ tokens' \in [Token -> TokenRow \cup {Null}]
      /\ \A t \in Token \ LockedBy(b) : tokens'[t] = tokens[t]
      /\ \A t \in Token : tokens'[t] # Null => tokens[t] # Null /\ tokens'[t].user = tokens[t].user
  BY <1>1, <1>5, LockFacts
<1>7. \A t \in Token : tokens'[t] # Null => users'[tokens'[t].user] # Null
  <2> SUFFICES ASSUME NEW t \in Token, tokens'[t] # Null PROVE users'[tokens'[t].user] # Null
    OBVIOUS
  <2>1. tokens[t] # Null /\ tokens'[t].user = tokens[t].user
    BY <1>6
  <2>2. tokens[t] \in TokenRow /\ users[tokens[t].user] # Null
    BY <1>t, <2>1 DEF Inductive, TokenOK
  <2>3. tokens[t].user \in User
    BY <2>2 DEF TokenRow
  <2> QED BY <1>3, <2>1, <2>2, <2>3
<1>8. RequestOK(b)'
  BY <1>2 DEF RequestOK
<1>9. \A t \in Token, c \in Browser \ {b} :
          tokens[t] # Null /\ tokens[t].lock = c => tokens'[t] # Null /\ tokens'[t].lock = c
  BY <1>5, <1>6
<1> QED BY <1>1, <1>2, <1>3, <1>4, <1>6, <1>7, <1>8, <1>9, RowsFrame

-----------------------------------------------------------------------------
(* Commits *)

\* After a change of u by b: what is left of the other requests, and a session of
\* another browser (or, in the transaction of an administrator, of any).
RequestsAged(b, u) ==
    /\ req' \in [Browser -> Request \cup {Null}] /\ req'[b] = Null
    /\ \A c \in Browser \ {b} : req'[c] # Null =>
           /\ req[c] # Null /\ req'[c].op = req[c].op /\ req'[c].stage = req[c].stage
           /\ req'[c].user = req[c].user /\ req'[c].version = req[c].version
           /\ req'[c].token = req[c].token /\ req'[c].doomed = req[c].doomed
           /\ IF req[c].user = u /\ req[c].op = "login" THEN req'[c].fresh = FALSE
              ELSE req[c].op = "login" => req'[c] = req[c]

SessionAged(s, u, c) ==
    IF session[c] # Null /\ session[c].user = u
    THEN s # Null /\ s.user = u /\ s.version = session[c].version /\ s.fresh = FALSE
    ELSE s = session[c]

\* What a committed change of u leaves of the other requests.
LEMMA AgedRequestFacts ==
    ASSUME Inductive, NEW b \in Browser, NEW u \in User, NEW password \in BOOLEAN,
           req' = AgedRequests(b, u, password)
    PROVE  RequestsAged(b, u)
<1>1. req \in [Browser -> Request \cup {Null}]
  BY DEF Inductive, TypeOK
<1>2. req' = [c \in Browser |-> req'[c]] /\ req'[b] = Null
  BY DEF AgedRequests
<1>3. ASSUME NEW c \in Browser \ {b}
      PROVE  /\ req'[c] \in Request \cup {Null}
             /\ req'[c] # Null =>
                  /\ req[c] # Null /\ req'[c].op = req[c].op /\ req'[c].stage = req[c].stage
                  /\ req'[c].user = req[c].user /\ req'[c].version = req[c].version
                  /\ req'[c].token = req[c].token /\ req'[c].doomed = req[c].doomed
                  /\ IF req[c].user = u /\ req[c].op = "login" THEN req'[c].fresh = FALSE
                     ELSE req[c].op = "login" => req'[c] = req[c]
  <2>1. CASE req[c] # Null /\ req[c].user = u /\ req[c].op \in {"login", "remember"}
    <3> DEFINE p == req[c].proven /\ ~password
               r == [req[c] EXCEPT !.fresh = FALSE, !.proven = p]
    <3>1. req'[c] = r /\ req[c] \in Request
      BY <1>1, <2>1 DEF AgedRequests
    <3>2. p \in BOOLEAN
      OBVIOUS
    <3> HIDE DEF p
    <3>3. /\ r \in Request /\ r.op = req[c].op /\ r.stage = req[c].stage
          /\ r.user = req[c].user /\ r.version = req[c].version /\ r.token = req[c].token
          /\ r.doomed = req[c].doomed /\ r.fresh = FALSE
      BY <3>1, <3>2 DEF Request
    <3> HIDE DEF r
    <3> QED BY <2>1, <3>1, <3>3
  <2>2. CASE ~(req[c] # Null /\ req[c].user = u /\ req[c].op \in {"login", "remember"})
    <3>1. req'[c] = req[c]
      BY <2>2 DEF AgedRequests
    <3> QED BY <1>1, <2>2, <3>1
  <2> QED BY <2>1, <2>2
<1>4. req' \in [Browser -> Request \cup {Null}]
  BY <1>2, <1>3
<1> QED BY <1>2, <1>3, <1>4 DEF RequestsAged

\* What a committed change of u leaves of the sessions of all but x.
LEMMA AgedSessionFacts ==
    ASSUME Inductive, NEW x \in Browser \cup {Null}, NEW u \in User
    PROVE  /\ AgedSessions(x, u, session) \in [Browser -> Session \cup {Null}]
           /\ \A c \in Browser :
                IF c = x THEN AgedSessions(x, u, session)[c] = session[c]
                ELSE SessionAged(AgedSessions(x, u, session)[c], u, c)
<1>1. session \in [Browser -> Session \cup {Null}]
  BY DEF Inductive, TypeOK
<1> DEFINE ss == AgedSessions(x, u, session)
<1>2. ASSUME NEW c \in Browser
      PROVE  /\ ss[c] \in Session \cup {Null}
             /\ IF session[c] # Null /\ session[c].user = u /\ c # x
                THEN ss[c] # Null /\ ss[c].user = u /\ ss[c].version = session[c].version
                     /\ ss[c].fresh = FALSE
                ELSE ss[c] = session[c]
  <2>1. CASE session[c] # Null /\ session[c].user = u /\ c # x
    <3>1. ss[c] = [session[c] EXCEPT !.fresh = FALSE] /\ session[c] \in Session
      BY <1>1, <2>1 DEF AgedSessions
    <3>2. /\ ss[c] \in Session /\ ss[c].user = u /\ ss[c].version = session[c].version
          /\ ss[c].fresh = FALSE
      BY <2>1, <3>1 DEF Session
    <3>3. ss[c] # Null
      BY <3>2, NullAssumption
    <3> QED BY <2>1, <3>2, <3>3
  <2>2. CASE ~(session[c] # Null /\ session[c].user = u /\ c # x)
    <3>1. ss[c] = session[c]
      BY <2>2 DEF AgedSessions
    <3> QED BY <1>1, <2>2, <3>1
  <2> QED BY <2>1, <2>2
<1>3. ss = [c \in Browser |-> ss[c]]
  BY DEF AgedSessions
<1> HIDE DEF ss
<1>4. ss \in [Browser -> Session \cup {Null}]
  BY <1>2, <1>3
<1> QED BY <1>2, <1>4 DEF ss, SessionAged

\* A committed change of u by b, the session of b and the remember rows aside.
LEMMA ChangeFrame ==
    ASSUME Inductive, NEW b \in Browser, NEW u \in User,
           users[u] # Null, users[u].lock \in {b, Null},
           users' \in [User -> UserRow \cup {Null}], users'[u] # Null,
           \A v \in User \ {u} : users'[v] = users[v],
           overwritten \subseteq overwritten', overwritten' \subseteq User,
           u \in overwritten' \/ users'[u].version = users[u].version + 1,
           RequestsAged(b, u),
           session' \in [Browser -> Session \cup {Null}], SessionOK(b)',
           \A c \in Browser \ {b} : SessionAged(session'[c], u, c),
           tokens' \in [Token -> TokenRow \cup {Null}],
           \A t \in Token : tokens'[t] # Null => tokens'[t] = tokens[t],
           \A t \in Token, c \in Browser \ {b} :
               tokens[t] # Null /\ tokens[t].lock = c => tokens'[t] = tokens[t],
           remember' \in [Browser -> RememberRow \cup {Null}],
           \A c \in Browser : remember'[c] # Null =>
               /\ remember[c] # Null /\ remember'[c].user = remember[c].user
               /\ remember'[c].late = remember[c].late
               /\ remember'[c].proven \/ remember'[c].late
    PROVE  Inductive'
<1>t. /\ users \in [User -> UserRow \cup {Null}] /\ tokens \in [Token -> TokenRow \cup {Null}]
      /\ session \in [Browser -> Session \cup {Null}]
      /\ remember \in [Browser -> RememberRow \cup {Null}]
      /\ req \in [Browser -> Request \cup {Null}]
  BY Facts
<1>1. /\ req' \in [Browser -> Request \cup {Null}] /\ req'[b] = Null
      /\ \A c \in Browser \ {b} : req'[c] # Null =>
             /\ req[c] # Null /\ req'[c].op = req[c].op /\ req'[c].stage = req[c].stage
             /\ req'[c].user = req[c].user /\ req'[c].version = req[c].version
             /\ req'[c].token = req[c].token /\ req'[c].doomed = req[c].doomed
             /\ IF req[c].user = u /\ req[c].op = "login" THEN req'[c].fresh = FALSE
                ELSE req[c].op = "login" => req'[c] = req[c]
  BY DEF RequestsAged
<1>2. TypeOK'
  BY <1>1 DEF TypeOK
<1>3. \A v \in User : users[v] # Null => users'[v] # Null
  OBVIOUS
<1>4. users[u].version \in Nat
  <2>1. users[u] \in UserRow
    BY <1>t
  <2> QED BY <2>1 DEF UserRow
<1>5. ASSUME NEW v \in User, NEW ver \in Nat, NEW f \in BOOLEAN, VersionOK(v, ver, f)
      PROVE  /\ v # u => VersionOK(v, ver, f)'
             /\ v = u => VersionOK(v, ver, FALSE)'
  BY <1>4, <1>5 DEF VersionOK
<1>6. ASSUME NEW c \in Browser \ {b} PROVE SessionOK(c)'
  <2> SUFFICES ASSUME session'[c] # Null PROVE SessionOK(c)'
    BY DEF SessionOK
  <2>1. IF session[c] # Null /\ session[c].user = u
        THEN /\ session'[c] # Null /\ session'[c].user = u
             /\ session'[c].version = session[c].version /\ session'[c].fresh = FALSE
        ELSE session'[c] = session[c]
    BY DEF SessionAged
  <2>2. session[c] # Null /\ session[c] \in Session /\ SessionOK(c)
    BY <1>t, <2>1, Facts
  <2>3. PICK v \in User, ver \in Nat, f \in BOOLEAN :
            v = session[c].user /\ ver = session[c].version /\ f = session[c].fresh
    BY <2>2 DEF Session
  <2>4. users[v] # Null /\ VersionOK(v, ver, f)
    BY <2>2, <2>3 DEF SessionOK
  <2>5. CASE v = u
    <3>1. VersionOK(v, ver, FALSE)'
      BY <1>5, <2>4, <2>5
    <3>2. session'[c].user = v /\ session'[c].version = ver /\ session'[c].fresh = FALSE
      BY <2>1, <2>2, <2>3, <2>5
    <3> QED BY <1>3, <2>4, <3>1, <3>2 DEF SessionOK
  <2>6. CASE v # u
    <3>1. VersionOK(v, ver, f)'
      BY <1>5, <2>4, <2>6
    <3>2. session'[c].user = v /\ session'[c].version = ver /\ session'[c].fresh = f
      BY <2>1, <2>2, <2>3, <2>6
    <3> QED BY <1>3, <2>4, <3>1, <3>2 DEF SessionOK
  <2> QED BY <2>5, <2>6
<1>7. ASSUME NEW c \in Browser PROVE RememberOK(c)'
  <2> SUFFICES ASSUME remember'[c] # Null PROVE users'[remember'[c].user] # Null
    BY DEF RememberOK
  <2>1. remember[c] # Null /\ remember[c] \in RememberRow /\ RememberOK(c)
    BY <1>t, Facts
  <2>2. remember[c].user \in User
    BY <2>1 DEF RememberRow
  <2> QED BY <1>3, <2>1, <2>2 DEF RememberOK
<1>8. ASSUME NEW t \in Token PROVE TokenOK(t)'
  <2> SUFFICES ASSUME tokens'[t] # Null PROVE users'[tokens[t].user] # Null
    BY DEF TokenOK
  <2>1. tokens[t] # Null /\ tokens[t] \in TokenRow /\ TokenOK(t)
    BY <1>t DEF Inductive
  <2>2. tokens[t].user \in User
    BY <2>1 DEF TokenRow
  <2> QED BY <1>3, <2>1, <2>2 DEF TokenOK
<1>9. ASSUME NEW c \in Browser PROVE RequestOK(c)'
  <2>1. CASE req'[c] = Null
    BY <2>1 DEF RequestOK
  <2>2. CASE req'[c] # Null
    <3>1. /\ c # b /\ req[c] # Null /\ req'[c].op = req[c].op /\ req'[c].stage = req[c].stage
          /\ req'[c].user = req[c].user /\ req'[c].version = req[c].version
          /\ req'[c].token = req[c].token /\ req'[c].doomed = req[c].doomed
          /\ IF req[c].user = u /\ req[c].op = "login" THEN req'[c].fresh = FALSE
             ELSE req[c].op = "login" => req'[c] = req[c]
      BY <1>1, <2>2
    <3>2. req[c] \in Request /\ RequestOK(c)
      BY <1>t, <3>1, Facts
    <3>3. PICK v \in User, ver \in Nat, f \in BOOLEAN, doomed \in SUBSET Browser :
              /\ v = req[c].user /\ ver = req[c].version /\ f = req[c].fresh
              /\ doomed = req[c].doomed
      BY <3>2 DEF Request
    <3>4. users[v] # Null /\ users'[v] # Null
      BY <1>3, <3>1, <3>2, <3>3 DEF RequestOK
    <3>5. req'[c].op = "login" => VersionOK(v, ver, req[c].fresh)'
      <4> SUFFICES ASSUME req[c].op = "login" PROVE VersionOK(v, ver, req[c].fresh)'
        BY <3>1
      <4>1. VersionOK(v, ver, f)
        BY <3>1, <3>2, <3>3 DEF RequestOK
      <4>2. CASE v = u
        <5>1. VersionOK(v, ver, FALSE)' /\ req'[c].fresh = FALSE
          BY <1>5, <3>1, <3>3, <4>1, <4>2
        <5> QED BY <5>1 DEF VersionOK
      <4>3. CASE v # u
        <5>1. VersionOK(v, ver, f)' /\ req'[c].fresh = f
          BY <1>5, <3>1, <3>3, <4>1, <4>3
        <5> QED BY <5>1 DEF VersionOK
      <4> QED BY <4>2, <4>3
    <3>6. req'[c].op = "change" => session'[c] # Null /\ session'[c].user = v
      <4> SUFFICES ASSUME req[c].op = "change" PROVE session'[c] # Null /\ session'[c].user = v
        BY <3>1
      <4>1. session[c] # Null /\ session[c].user = v
        BY <3>1, <3>2, <3>3 DEF RequestOK
      <4> QED BY <3>1, <4>1 DEF SessionAged
    <3>7. req'[c].op = "reset" => /\ req'[c].token \in Token /\ tokens'[req'[c].token] # Null
                                  /\ tokens'[req'[c].token].lock = c
      BY <3>1, <3>2 DEF RequestOK
    <3>8. SetsPassword(c)' => SetsPassword(c)
      BY <3>1 DEF SetsPassword, Idle
    <3>9. SetsPassword(c) /\ req[c].stage # "start" => users[v].lock = c /\ users'[v].lock = c
      <4>1. SetsPassword(c) /\ req[c].stage # "start" => users[v].lock = c
        BY <3>1, <3>2, <3>3 DEF RequestOK
      <4> QED BY <3>1, <4>1, AccountsAssumption
    <3>10. SetsPassword(c) /\ req[c].stage = "commit" => DoomedOK(v, doomed)'
      <4>1. SetsPassword(c) /\ req[c].stage = "commit" => DoomedOK(v, doomed)
        BY <3>1, <3>2, <3>3 DEF RequestOK
      <4> QED BY <4>1 DEF DoomedOK
    <3>11. /\ req'[c].user = v /\ req'[c].version = ver /\ req'[c].doomed = doomed
      BY <3>1, <3>3
    <3> QED BY <3>1, <3>4, <3>5, <3>6, <3>7, <3>8, <3>9, <3>10, <3>11 DEF RequestOK
  <2> QED BY <2>1, <2>2
<1> QED BY <1>2, <1>6, <1>7, <1>8, <1>9 DEF Inductive

\* The row of u moves to the version after the one that was loaded.
LEMMA OverwritesFacts ==
    ASSUME Inductive, NEW b \in Browser, NEW u \in User, u = req[b].user, Overwrites(b)
    PROVE  /\ overwritten \subseteq overwritten' /\ overwritten' \subseteq User
           /\ u \in overwritten' \/ users[u].version = req[b].version
<1>1. overwritten \subseteq User
  BY Facts
<1> QED BY <1>1 DEF Overwrites

\* toggleActiveUser.
LEMMA ToggleSaveStep ==
    ASSUME Inductive, NEW b \in Browser, ToggleSave(b) PROVE Inductive'
<1>t. /\ users \in [User -> UserRow \cup {Null}] /\ tokens \in [Token -> TokenRow \cup {Null}]
      /\ remember \in [Browser -> RememberRow \cup {Null}]
      /\ req \in [Browser -> Request \cup {Null}] /\ RequestOK(b)
  BY Facts
<1>0. req[b] # Null
  BY DEF ToggleSave, Idle
<1>1. req[b] \in Request /\ users[req[b].user] # Null
  BY <1>t, <1>0 DEF RequestOK
<1>2. PICK u \in User, n \in Nat, a \in BOOLEAN :
          u = req[b].user /\ n = req[b].version + 1 /\ a = ~req[b].active
  <2>1. req[b].user \in User /\ req[b].version \in Nat
    BY <1>1 DEF Request
  <2>2. req[b].version + 1 \in Nat
    BY <2>1
  <2>3. (~req[b].active) \in BOOLEAN
    OBVIOUS
  <2> QED BY <2>1, <2>2, <2>3
<1> DEFINE row == [[users[u] EXCEPT !.active = a] EXCEPT !.version = n]
<1>3. users[u] \in UserRow
  BY <1>t, <1>1, <1>2
<1>4. row \in UserRow /\ row.version = n
  BY <1>3 DEF UserRow
<1>5. row # Null
  BY <1>4, NullAssumption
<1>6. users' = [users EXCEPT ![u] = row]
  BY <1>t, <1>2 DEF ToggleSave
<1>7. /\ users[u].lock = Null /\ UNCHANGED <<tokens, remember>> /\ Overwrites(b)
      /\ session' = AgedSessions(Null, u, session) /\ req' = AgedRequests(b, u, FALSE)
  BY <1>2 DEF ToggleSave, RowFree
<1> HIDE DEF row
<1>8. /\ users' \in [User -> UserRow \cup {Null}] /\ users'[u] = row
      /\ \A v \in User \ {u} : users'[v] = users[v]
  BY <1>t, <1>4, <1>6
<1>9. /\ overwritten \subseteq overwritten' /\ overwritten' \subseteq User
      /\ u \in overwritten' \/ users'[u].version = users[u].version + 1
  BY <1>2, <1>4, <1>7, <1>8, OverwritesFacts
<1>10. RequestsAged(b, u)
  <2>1. FALSE \in BOOLEAN
    OBVIOUS
  <2> QED BY <1>7, <2>1, AgedRequestFacts
<1>11. /\ session' \in [Browser -> Session \cup {Null}]
       /\ \A c \in Browser : SessionAged(session'[c], u, c)
  <2>1. \A c \in Browser : c # Null
    BY AccountsAssumption
  <2> QED BY <1>7, <2>1, AgedSessionFacts
<1>12. SessionOK(b)'
  <2> SUFFICES ASSUME session'[b] # Null PROVE SessionOK(b)'
    BY DEF SessionOK
  <2>1. /\ SessionOK(b) /\ session[b] \in Session \cup {Null}
        /\ IF session[b] # Null /\ session[b].user = u
           THEN /\ session'[b].user = u /\ session'[b].version = session[b].version
                /\ session'[b].fresh = FALSE
           ELSE session'[b] = session[b]
    BY <1>11, Facts DEF SessionAged
  <2>2. session[b] # Null /\ session[b] \in Session
    BY <2>1
  <2>3. PICK v \in User, ver \in Nat, f \in BOOLEAN :
            v = session[b].user /\ ver = session[b].version /\ f = session[b].fresh
    BY <2>2 DEF Session
  <2>4. VersionOK(v, ver, f) /\ users[v] # Null /\ users[u].version \in Nat
    BY <1>3, <2>1, <2>2, <2>3 DEF SessionOK, UserRow
  <2>5. CASE v = u
    <3>1. VersionOK(u, ver, FALSE)'
      BY <1>9, <2>4, <2>5 DEF VersionOK
    <3>2. session'[b].user = u /\ session'[b].version = ver /\ session'[b].fresh = FALSE
      BY <2>1, <2>2, <2>3, <2>5
    <3> QED BY <1>5, <1>8, <3>1, <3>2 DEF SessionOK
  <2>6. CASE v # u
    <3>1. VersionOK(v, ver, f)'
      BY <1>8, <1>9, <2>4, <2>6 DEF VersionOK
    <3>2. session'[b].user = v /\ session'[b].version = ver /\ session'[b].fresh = f
      BY <2>1, <2>2, <2>3, <2>6
    <3> QED BY <1>8, <2>4, <2>6, <3>1, <3>2 DEF SessionOK
  <2> QED BY <2>5, <2>6
<1>13. \A c \in Browser : remember'[c] # Null =>
           /\ remember[c] # Null /\ remember'[c].user = remember[c].user
           /\ remember'[c].late = remember[c].late
           /\ remember'[c].proven \/ remember'[c].late
  BY <1>7, Facts DEF RememberOK
<1> QED BY <1>t, <1>1, <1>2, <1>5, <1>7, <1>8, <1>9, <1>10, <1>11, <1>12, <1>13, ChangeFrame

\* The commit of a password change revokes every session and remember row it must.
LEMMA CommitPasswordStep ==
    ASSUME Inductive, NEW b \in Browser, CommitPassword(b) PROVE Inductive'
<1>t. /\ users \in [User -> UserRow \cup {Null}] /\ tokens \in [Token -> TokenRow \cup {Null}]
      /\ remember \in [Browser -> RememberRow \cup {Null}]
      /\ session \in [Browser -> Session \cup {Null}]
      /\ req \in [Browser -> Request \cup {Null}] /\ RequestOK(b) /\ SessionOK(b)
  BY Facts
<1>0. SetsPassword(b) /\ req[b] # Null /\ req[b].stage = "commit"
  BY DEF CommitPassword, SetsPassword, Idle
<1>1. req[b] \in Request /\ users[req[b].user] # Null
  BY <1>t, <1>0 DEF RequestOK
<1>2. PICK u \in User, n \in Nat, doomed \in SUBSET Browser :
          u = req[b].user /\ n = req[b].version + 1 /\ doomed = req[b].doomed
  <2>1. req[b].user \in User /\ req[b].version \in Nat /\ req[b].doomed \in SUBSET Browser
    BY <1>1 DEF Request
  <2>2. req[b].version + 1 \in Nat
    BY <2>1
  <2> QED BY <2>1, <2>2
<1>a. users[u].lock = b /\ DoomedOK(u, doomed)
  BY <1>t, <1>0, <1>2 DEF RequestOK
<1> DEFINE row == [[users[u] EXCEPT !.version = n] EXCEPT !.lock = Null]
<1>3. users[u] \in UserRow
  BY <1>t, <1>1, <1>2
<1>4. row \in UserRow /\ row.version = n
  BY <1>3 DEF UserRow
<1>5. row # Null
  BY <1>4, NullAssumption
<1>6. users' = [users EXCEPT ![u] = row]
  BY <1>t, <1>2 DEF CommitPassword
<1> DEFINE own == req[b].op = "change"
           x == IF own THEN b ELSE Null
           ss == AgedSessions(x, u, session)
<1>7. /\ Overwrites(b) /\ req' = AgedRequests(b, u, TRUE)
      /\ tokens' = [t \in Token |-> IF t \in LockedBy(b) THEN Null ELSE tokens[t]]
      /\ remember' = [c \in Browser |->
             IF c \in doomed THEN Null
             ELSE IF remember[c] # Null /\ remember[c].user = u
                  THEN [remember[c] EXCEPT !.proven = FALSE]
                  ELSE remember[c]]
  BY <1>2 DEF CommitPassword
<1>8. session' = [ss EXCEPT ![b] = IF own THEN [ss[b] EXCEPT !.version = n, !.fresh = TRUE] ELSE ss[b]]
  <2> DEFINE o == IF req[b].op = "change" THEN {b} ELSE {}
  <2>1. session' = [AgedSessions(IF o = {} THEN Null ELSE b, u, session) EXCEPT
               ![b] = IF o = {} THEN @ ELSE [@ EXCEPT !.version = n, !.fresh = TRUE]]
    BY <1>2 DEF CommitPassword
  <2>2. (o = {}) <=> ~own
    OBVIOUS
  <2> HIDE DEF o, own
  <2>3. CASE own
    BY <2>1, <2>2, <2>3
  <2>4. CASE ~own
    BY <2>1, <2>2, <2>4
  <2> QED BY <2>3, <2>4
<1>9. x \in Browser \cup {Null} /\ (own => x = b) /\ (~own => x = Null) /\ \A c \in Browser : c # Null
  BY AccountsAssumption
<1> HIDE DEF row, x
<1>10. /\ users' \in [User -> UserRow \cup {Null}] /\ users'[u] = row
       /\ \A v \in User \ {u} : users'[v] = users[v]
  BY <1>t, <1>4, <1>6
<1>11. /\ overwritten \subseteq overwritten' /\ overwritten' \subseteq User
       /\ u \in overwritten' \/ users'[u].version = users[u].version + 1
  BY <1>2, <1>4, <1>7, <1>10, OverwritesFacts
<1>12. RequestsAged(b, u)
  <2>1. TRUE \in BOOLEAN
    OBVIOUS
  <2> QED BY <1>7, <2>1, AgedRequestFacts
<1>13. /\ ss \in [Browser -> Session \cup {Null}]
       /\ \A c \in Browser : IF c = x THEN ss[c] = session[c] ELSE SessionAged(ss[c], u, c)
  BY <1>9, AgedSessionFacts
<1> HIDE DEF ss
<1>14. own => session[b] # Null /\ session[b].user = u /\ session[b] \in Session
  BY <1>t, <1>0, <1>2 DEF RequestOK
<1> DEFINE s == IF own THEN [ss[b] EXCEPT !.version = n, !.fresh = TRUE] ELSE ss[b]
<1>15. /\ s \in Session \cup {Null}
       /\ own => s # Null /\ s.user = u /\ s.version = n /\ s.fresh = TRUE
       /\ ~own => SessionAged(s, u, b)
  <2>1. CASE own
    <3>1. ss[b] = session[b]
      BY <1>9, <1>13, <2>1
    <3>2. s = [session[b] EXCEPT !.version = n, !.fresh = TRUE]
      BY <2>1, <3>1
    <3>3. s \in Session /\ s.user = u /\ s.version = n /\ s.fresh = TRUE
      BY <1>14, <2>1, <3>2 DEF Session
    <3>4. s # Null
      BY <3>3, NullAssumption
    <3> QED BY <2>1, <3>3, <3>4
  <2>2. CASE ~own
    <3>1. s = ss[b] /\ x = Null /\ b # Null
      BY <1>9, <2>2
    <3> QED BY <1>13, <2>2, <3>1
  <2> QED BY <2>1, <2>2
<1> HIDE DEF s
<1>16. /\ session' \in [Browser -> Session \cup {Null}] /\ session'[b] = s
       /\ \A c \in Browser \ {b} : SessionAged(session'[c], u, c)
  <2>1. session' = [ss EXCEPT ![b] = s]
    BY <1>8 DEF s
  <2>2. \A c \in Browser \ {b} : session'[c] = ss[c] /\ c # x
    BY <1>9, <1>13, <2>1
  <2>3. session' \in [Browser -> Session \cup {Null}] /\ session'[b] = s
    BY <1>13, <1>15, <2>1
  <2> QED BY <1>13, <2>2, <2>3
<1>17. SessionOK(b)'
  <2>1. CASE own
    <3>1. session'[b].user = u /\ session'[b].version = n /\ session'[b].fresh = TRUE
      BY <1>15, <1>16, <2>1
    <3>2. VersionOK(u, n, TRUE)'
      BY <1>4, <1>10 DEF VersionOK
    <3> QED BY <1>5, <1>10, <3>1, <3>2 DEF SessionOK
  <2>2. CASE ~own
    <3> SUFFICES ASSUME session'[b] # Null PROVE SessionOK(b)'
      BY DEF SessionOK
    <3>1. IF session[b] # Null /\ session[b].user = u
          THEN /\ session'[b].user = u /\ session'[b].version = session[b].version
               /\ session'[b].fresh = FALSE
          ELSE session'[b] = session[b]
      BY <1>15, <1>16, <2>2 DEF SessionAged
    <3>2. session[b] # Null /\ session[b] \in Session
      BY <1>t, <3>1
    <3>3. PICK v \in User, ver \in Nat, f \in BOOLEAN :
              v = session[b].user /\ ver = session[b].version /\ f = session[b].fresh
      BY <3>2 DEF Session
    <3>4. VersionOK(v, ver, f) /\ users[v] # Null /\ users[u].version \in Nat
      BY <1>t, <1>3, <3>2, <3>3 DEF SessionOK, UserRow
    <3>5. CASE v = u
      <4>1. VersionOK(u, ver, FALSE)'
        BY <1>11, <3>4, <3>5 DEF VersionOK
      <4>2. session'[b].user = u /\ session'[b].version = ver /\ session'[b].fresh = FALSE
        BY <3>1, <3>2, <3>3, <3>5
      <4> QED BY <1>5, <1>10, <4>1, <4>2 DEF SessionOK
    <3>6. CASE v # u
      <4>1. VersionOK(v, ver, f)'
        BY <1>10, <1>11, <3>4, <3>6 DEF VersionOK
      <4>2. session'[b].user = v /\ session'[b].version = ver /\ session'[b].fresh = f
        BY <3>1, <3>2, <3>3, <3>6
      <4> QED BY <1>10, <3>4, <3>6, <4>1, <4>2 DEF SessionOK
    <3> QED BY <3>5, <3>6
  <2> QED BY <2>1, <2>2
<1>18. /\ tokens' \in [Token -> TokenRow \cup {Null}]
       /\ \A t \in Token : tokens'[t] # Null => tokens'[t] = tokens[t]
       /\ \A t \in Token, c \in Browser \ {b} :
              tokens[t] # Null /\ tokens[t].lock = c => tokens'[t] = tokens[t]
  BY <1>t, <1>7 DEF LockedBy
<1>19. ASSUME NEW c \in Browser
       PROVE  /\ remember'[c] \in RememberRow \cup {Null}
              /\ remember'[c] # Null =>
                    /\ remember[c] # Null /\ remember'[c].user = remember[c].user
                    /\ remember'[c].late = remember[c].late
                    /\ remember'[c].proven \/ remember'[c].late
  <2>1. CASE remember'[c] = Null
    BY <2>1
  <2>2. CASE c \notin doomed /\ remember[c] # Null /\ remember[c].user = u
    <3>1. remember'[c] = [remember[c] EXCEPT !.proven = FALSE] /\ remember[c] \in RememberRow
      BY <1>t, <1>7, <2>2
    <3>2. /\ remember'[c] \in RememberRow /\ remember'[c].user = remember[c].user
          /\ remember'[c].late = remember[c].late
      BY <3>1 DEF RememberRow
    <3>3. remember[c].late
      BY <1>a, <2>2 DEF DoomedOK
    <3> QED BY <2>2, <3>2, <3>3
  <2>3. CASE c \notin doomed /\ ~(remember[c] # Null /\ remember[c].user = u)
    <3>1. remember'[c] = remember[c]
      BY <1>7, <2>3
    <3> QED BY <1>t, <3>1, Facts DEF RememberOK
  <2>4. CASE c \in doomed
    BY <1>7, <2>4
  <2> QED BY <2>1, <2>2, <2>3, <2>4
<1>20. remember' \in [Browser -> RememberRow \cup {Null}]
  <2>1. remember' = [c \in Browser |-> remember'[c]]
    BY <1>7
  <2> QED BY <1>19, <2>1
<1>21. users[u] # Null /\ users'[u] # Null /\ users[u].lock \in {b, Null}
  BY <1>a, <1>1, <1>2, <1>5, <1>10
<1> QED BY <1>10, <1>11, <1>12, <1>16, <1>17, <1>18, <1>19, <1>20, <1>21, ChangeFrame

-----------------------------------------------------------------------------
(* The theorems *)

\* The seeded accounts, and no cookie yet.
LEMMA InitInductive == Init => Inductive
<1> SUFFICES ASSUME Init PROVE Inductive
  OBVIOUS
<1>1. NewUser \in UserRow
  BY DEF NewUser, UserRow
<1>2. TypeOK
  <2>1. users \in [User -> UserRow \cup {Null}]
    BY <1>1 DEF Init
  <2> QED BY <2>1 DEF Init, TypeOK
<1> QED BY <1>2 DEF Init, Inductive, SessionOK, RequestOK, RememberOK, TokenOK

\* Every step keeps the invariant.
LEMMA NextInductive == Inductive /\ [Next]_vars => Inductive'
<1> SUFFICES ASSUME Inductive, [Next]_vars PROVE Inductive'
  OBVIOUS
<1>1. ASSUME NEW b \in Browser, Step(b) PROVE Inductive'
  BY <1>1, SignInSteps, SaveUserStep, DeleteTokensStep, CommitPasswordStep, ToggleSaveStep,
     LinkSteps, RollbackStep DEF Step, DeadlockVictim
<1>2. ASSUME NEW b \in Browser, Begin(b) PROVE Inductive'
  BY <1>2, ReadSteps, CreateUserStep, ResetLockStep, SignOutSteps DEF Begin, Logout, Reject
<1>3. ASSUME NEW b \in Browser, Abort(b) PROVE Inductive'
  BY <1>3, RollbackStep DEF Abort
<1>4. ASSUME NEW t \in Token, TokenExpires(t) PROVE Inductive'
  BY <1>4, TokenExpiresStep
<1>5. CASE UNCHANGED vars
  <2>1. UNCHANGED <<users, tokens, remember, session, req, overwritten>>
    BY <1>5 DEF vars
  <2>2. TypeOK' /\ \A t \in Token : TokenOK(t)'
    BY <2>1 DEF Inductive, TypeOK, TokenOK
  <2>3. Null \notin Browser
    BY AccountsAssumption
  <2> QED BY <2>1, <2>2, <2>3, Frame
<1> QED BY <1>1, <1>2, <1>3, <1>4, <1>5 DEF Next

\* Accounts, cookies and requests stay within the inductive invariant.
THEOREM InductiveCorrect == Spec => []Inductive
BY InitInductive, NextInductive, PTL DEF Spec

\* Rows, cookies and requests keep their types (users and the token tables).
THEOREM TypeCorrect == Spec => []TypeOK
<1>1. Inductive => TypeOK
  BY DEF Inductive
<1> QED BY <1>1, InductiveCorrect, PTL

\* AuthMiddleware rejects every session that a committed change has left behind,
\* however requests interleave: a version that is compared never comes again, except
\* for a user saved over a version that was not loaded.
THEOREM SessionsCorrect == Spec => []StaleSessionsRejected
<1>1. Inductive => StaleSessionsRejected
  <2> SUFFICES ASSUME Inductive, NEW b \in Browser, Accepted(b),
                      session[b].user \notin overwritten
               PROVE  session[b].fresh
    BY DEF StaleSessionsRejected
  <2>1. session[b] # Null /\ session[b].version = users[session[b].user].version
    BY DEF Accepted
  <2>2. session[b] \in Session /\ SessionOK(b)
    BY <2>1, Facts
  <2>3. session[b].version \in Nat
    BY <2>2 DEF Session
  <2> QED BY <2>1, <2>2, <2>3 DEF SessionOK, VersionOK
<1> QED BY <1>1, InductiveCorrect, PTL

\* The transaction of a password change deletes every remember row of its user that
\* was there at its DELETE; only a sign-in that overlaps it leaves another.
THEOREM RememberCorrect == Spec => []RememberTokensRevoked
<1>1. Inductive => RememberTokensRevoked
  BY DEF Inductive, RememberOK, RememberTokensRevoked
<1> QED BY <1>1, InductiveCorrect, PTL

\* updatePasswordByToken holds its token from the FOR UPDATE to the commit, so it is
\* there at the commit and gone after it.
THEOREM ResetCorrect == Spec => ResetConsumesToken
<1>1. ASSUME Inductive, NEW b \in Browser, CommitPassword(b), req[b].op = "reset"
      PROVE  tokens[req[b].token] # Null /\ tokens'[req[b].token] = Null
  <2>1. req[b] # Null /\ RequestOK(b)
    BY <1>1, Facts DEF CommitPassword, SetsPassword, Idle
  <2>2. PICK t \in Token : t = req[b].token /\ tokens[t] # Null /\ tokens[t].lock = b
    BY <1>1, <2>1 DEF RequestOK
  <2>3. tokens' = [s \in Token |-> IF s \in LockedBy(b) THEN Null ELSE tokens[s]]
    BY <1>1 DEF CommitPassword
  <2>4. t \in LockedBy(b)
    BY <2>2 DEF LockedBy
  <2> QED BY <2>2, <2>3, <2>4
<1>2. Inductive =>
        [\A b \in Browser :
            CommitPassword(b) /\ req[b].op = "reset" =>
                /\ tokens[req[b].token] # Null
                /\ tokens'[req[b].token] = Null]_vars
  BY <1>1
<1> QED BY <1>2, InductiveCorrect, PTL DEF ResetConsumesToken
=============================================================================
