---------------------------- MODULE AccessProofs ----------------------------
(***************************************************************************)
(* Safety of sign-in and user administration for any number of requests,   *)
(* users and roles.  The invariant says what of a request's stale reads    *)
(* still holds when it writes, and why: whoever made them stale has        *)
(* committed since, and is not in "before".                                *)
(***************************************************************************)
EXTENDS Access, TLAPS

AdminKinds == {"deactivate", "patch"}

(* Somebody signed in as t, and had not committed when "before" was noted. *)
LoginSince(before, t) ==
    \E l \in Requests : /\ req[l].committed /\ l \notin before
                        /\ req[l].kind = "login" /\ req[l].user = t

(* Likewise an administrator other than r who set the roles of t. *)
PatchSince(r, before, t) ==
    \E l \in Requests \ {r} : /\ req[l].committed /\ l \notin before
                              /\ req[l].kind = "patch" /\ req[l].target = t

(* What a request knows of the rows it has read, and of itself. *)
Located(q) ==
    /\ q.pc \in {"idle", "read", "owner", "target", "write"} => ~q.committed
    /\ q.kind = "login" /\ q.pc \in {"read", "write"} =>
         /\ q.user \in Users
         /\ q.pc = "write" /\ q.row # NULL => q.row \in User /\ users[q.user] \in User
    /\ q.kind = "refresh" /\ q.pc \in {"owner", "write"} =>
         /\ q.user \in Users /\ q.token \in Sids /\ Exists(q.token)
         /\ q.pc = "write" => q.row # NULL /\ q.row.active
    /\ q.kind = "logout" /\ q.pc = "read" => q.user \in Users
    /\ \A s \in q.todo : Exists(s)
    /\ q.kind \in AdminKinds /\ q.pc = "target" =>
         q.user \in Users /\ q.row \in User /\ q.row.active /\ users[q.user] \in User
    /\ q.kind \in AdminKinds /\ (q.pc = "write" \/ q.committed) =>
         q.target \in Users /\ q.row \in User /\ users[q.target] \in User

(* What is in "before" has committed. *)
Noted(q) == \A l \in q.before : req[l].committed

(* The token was live when it was read, so it has no successor from before. *)
TokenUnspent(q) ==
    q.kind = "refresh" /\ (q.pc \in {"owner", "write"} \/ q.committed) =>
      \A l \in q.before : Exists(l) => sessions[l].from # q.token

(* A session of the user that is live now is one logout has still to       *)
(* revoke, or one of a request that had not committed.                     *)
SessionsKnown(q) ==
    q.kind = "logout" /\ q.pc \in {"revoke", "audit", "done"} =>
      /\ \A s \in Sids : Exists(s) /\ sessions[s].user = q.user /\ ~sessions[s].revoked
                         => s \in q.todo \/ s \in Requests \ q.before
      /\ q.pc = "done" => q.todo = {}

(* The row of t is as it was read, or somebody who had not committed then  *)
(* has changed it.                                                         *)
RowCurrent(r, q, t) ==
    /\ users[t].active /\ ~q.row.active => LoginSince(q.before, t)
    /\ users[t].roles # q.row.roles => LoginSince(q.before, t) \/ PatchSince(r, q.before, t)

(* The same of what an administrator has written. *)
ChangeHolds(r, q) ==
    /\ q.kind = "deactivate" /\ users[q.target].active => LoginSince(q.before, q.target)
    /\ q.kind = "patch" /\ users[q.target].roles # q.roles
       => LoginSince(q.before, q.target) \/ PatchSince(r, q.before, q.target)

RowsKnown(r, q) ==
    q.kind \in AdminKinds =>
      /\ q.pc = "target" => RowCurrent(r, q, q.user)
      /\ q.pc = "write" => RowCurrent(r, q, q.target)
      /\ q.committed => ChangeHolds(r, q)

(* A session that a request made is there since that request committed; if *)
(* it was a refresh, its token is revoked.                                 *)
Backed(s) ==
    /\ req[s].committed /\ req[s].kind \in {"login", "refresh"}
    /\ sessions[s].from # NULL =>
         /\ req[s].kind = "refresh" /\ req[s].token = sessions[s].from
         /\ sessions[s].from \in Sids /\ Exists(sessions[s].from)
         /\ sessions[sessions[s].from].revoked

SessionsBacked == \A s \in Requests : Exists(s) => Backed(s)

Sound(r, q) ==
    Located(q) /\ Noted(q) /\ TokenUnspent(q) /\ SessionsKnown(q) /\ RowsKnown(r, q)

IInv == TypeOK /\ SessionsBacked /\ \A r \in Requests : Sound(r, req[r])
-----------------------------------------------------------------------------
(* What every step leaves as it was: a request that has committed is one   *)
(* of a kind, about a user; a user row stays a row, and what is new in it  *)
(* is the work of a request that commits in this step; a session stays who *)
(* it is of, and a revoked one is never live again.                        *)
KeepsRequests ==
    \A l \in Requests :
      /\ req'[l].kind = req[l].kind
      /\ req[l].committed => /\ req'[l].committed /\ req'[l].user = req[l].user
                             /\ req'[l].target = req[l].target /\ req'[l].token = req[l].token

CommitsNow(l) == ~req[l].committed /\ req'[l].committed

KeepsUsers ==
    \A t \in Users :
      users[t] \in User =>
        /\ users'[t] \in User
        /\ users'[t].active /\ ~users[t].active =>
             \E l \in Requests : CommitsNow(l) /\ req'[l].kind = "login" /\ req'[l].user = t
        /\ users'[t].roles # users[t].roles =>
             \E l \in Requests :
               /\ CommitsNow(l)
               /\ \/ req'[l].kind = "login" /\ req'[l].user = t
                  \/ req'[l].kind = "patch" /\ req'[l].target = t

KeepsSessions ==
    \A s \in Sids :
      /\ Exists(s) => /\ Exists(s)' /\ sessions'[s].user = sessions[s].user
                      /\ sessions'[s].from = sessions[s].from
                      /\ sessions[s].revoked => sessions'[s].revoked
      /\ ~Exists(s) /\ Exists(s)' => s \in Requests /\ ~req[s].committed

Keeps == KeepsRequests /\ KeepsUsers /\ KeepsSessions

\* A request that does not move stays sound, whatever another one does.
LEMMA OthersStaySound ==
    ASSUME IInv, TypeOK', Keeps, NEW s \in Requests, req'[s] = req[s]
    PROVE  Sound(s, req[s])'
<1> DEFINE q == req[s]
<1>1. q \in Request /\ q.before \in SUBSET Requests /\ q.todo \in SUBSET Sids
  BY DEF IInv, TypeOK, Request
<1>2. Sound(s, q)
  BY DEF IInv
<1>3. ASSUME NEW t \in Users, LoginSince(q.before, t) PROVE LoginSince(q.before, t)'
  BY <1>3 DEF LoginSince, Keeps, KeepsRequests
<1>4. ASSUME NEW t \in Users, PatchSince(s, q.before, t) PROVE PatchSince(s, q.before, t)'
  BY <1>4 DEF PatchSince, Keeps, KeepsRequests
<1>5. Located(q)'
  BY <1>1, <1>2 DEF Sound, Located, Keeps, KeepsUsers, KeepsSessions
<1>6. Noted(q)'
  BY <1>1, <1>2 DEF Sound, Noted, Keeps, KeepsRequests
<1>7. TokenUnspent(q)'
  BY <1>1, <1>2 DEF Sound, TokenUnspent, Noted, Keeps, KeepsSessions, Sids
<1>8. SessionsKnown(q)'
  BY <1>1, <1>2 DEF Sound, SessionsKnown, Noted, Keeps, KeepsSessions, Sids
<1>9. ASSUME NEW t \in Users, users[t] \in User, RowCurrent(s, q, t), req'[s] = req[s],
             ~q.committed, q.row \in User
      PROVE  RowCurrent(s, q, t)'
  <2>1. ASSUME users'[t].active, ~q.row.active PROVE LoginSince(q.before, t)'
    <3>1. CASE users[t].active
      BY <1>3, <1>9, <2>1, <3>1 DEF RowCurrent
    <3>2. CASE ~users[t].active
      BY <1>2, <1>9, <2>1, <3>2 DEF LoginSince, Sound, Noted, Keeps, KeepsUsers, CommitsNow
    <3> QED
      BY <3>1, <3>2
  <2>2. ASSUME users'[t].roles # q.row.roles
        PROVE  LoginSince(q.before, t)' \/ PatchSince(s, q.before, t)'
    <3>1. CASE users[t].roles # q.row.roles
      BY <1>3, <1>4, <1>9, <2>2, <3>1 DEF RowCurrent
    <3>2. CASE users[t].roles = q.row.roles
      <4>1. PICK l \in Requests :
              /\ CommitsNow(l)
              /\ \/ req'[l].kind = "login" /\ req'[l].user = t
                 \/ req'[l].kind = "patch" /\ req'[l].target = t
        BY <1>9, <2>2, <3>2 DEF Keeps, KeepsUsers
      <4>2. l \notin q.before /\ l # s
        BY <1>2, <4>1 DEF Sound, Noted, CommitsNow
      <4> QED
        BY <4>1, <4>2 DEF LoginSince, PatchSince, CommitsNow
    <3> QED
      BY <3>1, <3>2
  <2> QED
    BY <2>1, <2>2 DEF RowCurrent
<1>10. ASSUME q.target \in Users, users[q.target] \in User, ChangeHolds(s, q), q.committed
       PROVE  ChangeHolds(s, q)'
  <2>1. ASSUME q.kind = "deactivate", users'[q.target].active PROVE LoginSince(q.before, q.target)'
    <3>1. CASE users[q.target].active
      BY <1>3, <1>10, <2>1, <3>1 DEF ChangeHolds
    <3>2. CASE ~users[q.target].active
      BY <1>2, <1>10, <2>1, <3>2 DEF LoginSince, Sound, Noted, Keeps, KeepsUsers, CommitsNow
    <3> QED
      BY <3>1, <3>2
  <2>2. ASSUME q.kind = "patch", users'[q.target].roles # q.roles
        PROVE  LoginSince(q.before, q.target)' \/ PatchSince(s, q.before, q.target)'
    <3>1. CASE users[q.target].roles # q.roles
      BY <1>3, <1>4, <1>10, <2>2, <3>1 DEF ChangeHolds
    <3>2. CASE users[q.target].roles = q.roles
      <4>1. PICK l \in Requests :
              /\ CommitsNow(l)
              /\ \/ req'[l].kind = "login" /\ req'[l].user = q.target
                 \/ req'[l].kind = "patch" /\ req'[l].target = q.target
        BY <1>10, <2>2, <3>2 DEF Keeps, KeepsUsers
      <4>2. l \notin q.before /\ l # s
        BY <1>2, <1>10, <4>1 DEF Sound, Noted, CommitsNow
      <4> QED
        BY <4>1, <4>2 DEF LoginSince, PatchSince, CommitsNow
    <3> QED
      BY <3>1, <3>2
  <2> QED
    BY <2>1, <2>2 DEF ChangeHolds
<1>11. RowsKnown(s, q)'
  BY <1>2, <1>9, <1>10 DEF Sound, RowsKnown, Located, AdminKinds
<1> QED
  BY <1>5, <1>6, <1>7, <1>8, <1>11 DEF Sound

\* Nor does what a session stands for change.
LEMMA SessionsStayBacked ==
    ASSUME IInv, Keeps, NEW s \in Requests, Exists(s)
    PROVE  Backed(s)'
BY DEF IInv, SessionsBacked, Backed, Exists, Keeps, KeepsRequests, KeepsSessions, Sids

\* A step of one request that has nothing to do with the tables, if that
\* request is sound after it.
LEMMA RequestStep ==
    ASSUME IInv, NEW r \in Requests, NEW p \in Request,
           req' = [req EXCEPT ![r] = p], UNCHANGED <<users, sessions>>,
           audited' = audited \/ \E a \in {"AUTH_FAILED", "LOGIN_SUCCESS", "LOGOUT", "USER_ROLE_UPDATED"} :
                                    audited' = audited \cup {<<a, r>>},
           p.kind = req[r].kind, p.committed = req[r].committed,
           p.committed => p.user = req[r].user /\ p.target = req[r].target /\ p.token = req[r].token,
           Sound(r, p)
    PROVE  IInv'
<1>1. TypeOK'
  BY DEF IInv, TypeOK
<1>2. req'[r] = p /\ \A l \in Requests \ {r} : req'[l] = req[l]
  BY DEF IInv, TypeOK
<1>3. Keeps
  BY <1>2 DEF Keeps, KeepsRequests, KeepsUsers, KeepsSessions, Exists
<1>4. ASSUME NEW s \in Requests PROVE Sound(s, req[s])'
  <2>1. CASE s # r
    BY <1>1, <1>2, <1>3, <2>1, OthersStaySound
  <2>2. CASE s = r
    <3>1. \A b, t : LoginSince(b, t) => LoginSince(b, t)'
      BY <1>3 DEF LoginSince, Keeps, KeepsRequests
    <3>2. \A b, t : PatchSince(r, b, t) => PatchSince(r, b, t)'
      BY <1>3 DEF PatchSince, Keeps, KeepsRequests
    <3>3. Located(p)' /\ Noted(p)' /\ TokenUnspent(p)' /\ SessionsKnown(p)'
      BY <1>2, <1>3 DEF Sound, Located, Noted, TokenUnspent, SessionsKnown, Exists, Keeps, KeepsRequests, Request
    <3>4. RowsKnown(r, p)'
      BY <3>1, <3>2 DEF Sound, RowsKnown, RowCurrent, ChangeHolds
    <3> QED
      BY <1>2, <2>2, <3>3, <3>4 DEF Sound
  <2> QED
    BY <2>1, <2>2
<1>5. SessionsBacked'
  BY <1>3, SessionsStayBacked DEF SessionsBacked, Exists
<1> QED
  BY <1>1, <1>4, <1>5 DEF IInv
-----------------------------------------------------------------------------
\* Sign-in up to its commit: the user is noted, then his row.
LEMMA LoginReads ==
    ASSUME IInv, NEW r \in Requests, SsoCallback(r) \/ ReadSubject(r)
    PROVE  IInv'
<1>1. req[r] \in Request /\ Sound(r, req[r]) /\ Committed \in SUBSET Requests
  BY DEF IInv, TypeOK, Committed
<1>2. CASE SsoCallback(r)
  <2>1. CASE Move(r, "failed")
    <3> DEFINE p == [req[r] EXCEPT !.pc = "failed"]
    <3>1. p \in Request /\ p.kind = "login" /\ ~p.committed
      BY <1>1, <1>2 DEF Request, SsoCallback, Sound, Located
    <3>2. Sound(r, p)
      BY <1>1, <3>1 DEF Request, Sound, Located, Noted, TokenUnspent, SessionsKnown, RowsKnown, AdminKinds
    <3> QED
      BY <1>1, <1>2, <2>1, <3>1, <3>2, RequestStep DEF SsoCallback, Move, Put, Request
  <2>2. ASSUME NEW u \in Users, NEW role \in Roles, UNCHANGED audited,
               Put(r, [req[r] EXCEPT !.pc = "read", !.user = u, !.roles = {role},
                                     !.before = Committed])
        PROVE  IInv'
    <3> DEFINE p == [req[r] EXCEPT !.pc = "read", !.user = u, !.roles = {role},
                                   !.before = Committed]
    <3>1. /\ p \in Request /\ p.kind = "login" /\ ~p.committed /\ p.pc = "read" /\ p.user = u
          /\ p.before = Committed /\ p.todo = req[r].todo
      BY <1>1, <1>2 DEF Request, SsoCallback, Sound, Located
    <3>2. Sound(r, p)
      BY <1>1, <3>1 DEF Sound, Located, Noted, TokenUnspent, SessionsKnown, RowsKnown, AdminKinds, Committed
    <3> QED
      BY <1>1, <1>2, <2>2, <3>1, <3>2, RequestStep DEF SsoCallback, Put, Request, Sound, Located
  <2> QED
    BY <1>2, <2>1, <2>2 DEF SsoCallback
<1>3. CASE ReadSubject(r)
  <2> DEFINE p == [req[r] EXCEPT !.pc = "write", !.row = users[req[r].user], !.before = Committed]
  <2>1. req[r].user \in Users /\ users[req[r].user] \in User \cup {NULL}
    BY <1>1, <1>3 DEF ReadSubject, Sound, Located, IInv, TypeOK
  <2>2. /\ p \in Request /\ p.kind = "login" /\ ~p.committed /\ p.pc = "write"
        /\ p.user = req[r].user /\ p.row = users[req[r].user]
        /\ p.before = Committed /\ p.todo = req[r].todo
    BY <1>1, <1>3, <2>1 DEF Request, ReadSubject, Sound, Located
  <2>3. Sound(r, p)
    BY <1>1, <2>1, <2>2 DEF Sound, Located, Noted, TokenUnspent, SessionsKnown, RowsKnown, AdminKinds, Committed
  <2> QED
    BY <1>1, <1>3, <2>2, <2>3, RequestStep DEF ReadSubject, Put, Request, Sound, Located
<1> QED
  BY <1>2, <1>3

\* A refresh up to its commit.  Every session that was there before the
\* token was read has another token behind it, since this one is live.
LEMMA RefreshReads ==
    ASSUME IInv, NEW r \in Requests, ReadToken(r) \/ ReadOwner(r)
    PROVE  IInv'
<1>1. req[r] \in Request /\ Sound(r, req[r]) /\ Committed \in SUBSET Requests
  BY DEF IInv, TypeOK, Committed
<1>2. CASE ReadToken(r)
  <2>1. PICK s \in Sids :
          /\ Exists(s)
          /\ Put(r, [req[r] EXCEPT !.pc = IF Acceptable(s) THEN "owner" ELSE "failed",
                                   !.token = s, !.user = sessions[s].user,
                                   !.before = Committed])
    BY <1>2 DEF ReadToken
  <2> DEFINE p == [req[r] EXCEPT !.pc = IF Acceptable(s) THEN "owner" ELSE "failed",
                                 !.token = s, !.user = sessions[s].user, !.before = Committed]
  <2>2. sessions[s] \in Session
    BY <2>1 DEF IInv, TypeOK, Exists
  <2>3. /\ p \in Request /\ p.kind = "refresh" /\ ~p.committed /\ p.pc \in {"owner", "failed"}
        /\ p.pc = "owner" => Acceptable(s)
        /\ p.user \in Users /\ p.token = s /\ p.before = Committed /\ p.todo = req[r].todo
    BY <1>1, <1>2, <2>2 DEF Request, ReadToken, Sound, Located, Session
  <2>4. p.pc = "owner" => \A l \in p.before : Exists(l) => sessions[l].from # s
    <3>1. ASSUME NEW l \in Requests, Exists(l), sessions[l].from = s PROVE sessions[s].revoked
      BY <3>1, AccessAssumption DEF IInv, SessionsBacked, Backed, Sids
    <3>2. p.before \in SUBSET Requests
      BY <2>3 DEF Committed
    <3> QED
      BY <2>3, <3>1, <3>2 DEF Acceptable
  <2>5. Sound(r, p)
    BY <1>1, <2>1, <2>3, <2>4 DEF Sound, Located, Noted, TokenUnspent, SessionsKnown, RowsKnown, AdminKinds, Committed
  <2> QED
    BY <1>1, <1>2, <2>1, <2>3, <2>5, RequestStep DEF ReadToken, Put, Request, Sound, Located
<1>3. CASE ReadOwner(r)
  <2> DEFINE p == [req[r] EXCEPT !.pc = IF current_user(req[r].user) THEN "write" ELSE "failed",
                                 !.row = users[req[r].user]]
  <2>1. req[r].user \in Users /\ users[req[r].user] \in User \cup {NULL}
    BY <1>1, <1>3 DEF ReadOwner, Sound, Located, IInv, TypeOK
  <2>2. /\ p \in Request /\ p.kind = "refresh" /\ ~p.committed /\ p.pc \in {"write", "failed"}
        /\ p.pc = "write" => p.row # NULL /\ p.row.active
        /\ p.user = req[r].user /\ p.token = req[r].token /\ p.before = req[r].before
        /\ p.todo = req[r].todo
    BY <1>1, <1>3, <2>1 DEF Request, ReadOwner, Sound, Located, current_user
  <2>3. Sound(r, p)
    BY <1>1, <1>3, <2>2 DEF ReadOwner, Sound, Located, Noted, TokenUnspent, SessionsKnown, RowsKnown, AdminKinds
  <2> QED
    BY <1>1, <1>3, <2>2, <2>3, RequestStep DEF ReadOwner, Put, Request, Sound, Located
<1> QED
  BY <1>2, <1>3

\* The routes of signed-in users: an administrator has his own row, as it is.
LEMMA AuthenticateStep ==
    ASSUME IInv, NEW r \in Requests, Authenticate(r)
    PROVE  IInv'
<1>1. req[r] \in Request /\ Sound(r, req[r]) /\ Committed \in SUBSET Requests
  BY DEF IInv, TypeOK, Committed
<1>2. PICK u \in Users :
        \/ Put(r, [req[r] EXCEPT !.pc = "failed", !.user = u])
        \/ /\ current_user(u) /\ Allowed(req[r], users[u])
           /\ Put(r, [req[r] EXCEPT !.user = u, !.before = Committed,
                                    !.row = IF req[r].kind \in {"deactivate", "patch"}
                                            THEN users[u] ELSE NULL,
                                    !.pc = CASE req[r].kind = "act"    -> "done"
                                             [] req[r].kind = "logout" -> "read"
                                             [] OTHER                  -> "target"])
  BY DEF Authenticate
<1>3. CASE Put(r, [req[r] EXCEPT !.pc = "failed", !.user = u])
  <2> DEFINE p == [req[r] EXCEPT !.pc = "failed", !.user = u]
  <2>1. /\ p \in Request /\ ~p.committed /\ p.kind = req[r].kind /\ p.before = req[r].before
        /\ p.pc = "failed" /\ p.todo = req[r].todo
    BY <1>1 DEF Request, Authenticate, Sound, Located
  <2>2. Sound(r, p)
    BY <1>1, <2>1 DEF Sound, Located, Noted, TokenUnspent, SessionsKnown, RowsKnown
  <2> QED
    BY <1>1, <1>3, <2>1, <2>2, RequestStep DEF Authenticate, Put, Request, Sound, Located
<1>4. CASE /\ current_user(u)
           /\ Put(r, [req[r] EXCEPT !.user = u, !.before = Committed,
                                    !.row = IF req[r].kind \in {"deactivate", "patch"}
                                            THEN users[u] ELSE NULL,
                                    !.pc = CASE req[r].kind = "act"    -> "done"
                                             [] req[r].kind = "logout" -> "read"
                                             [] OTHER                  -> "target"])
  <2> DEFINE p == [req[r] EXCEPT !.user = u, !.before = Committed,
                                 !.row = IF req[r].kind \in {"deactivate", "patch"}
                                         THEN users[u] ELSE NULL,
                                 !.pc = CASE req[r].kind = "act"    -> "done"
                                          [] req[r].kind = "logout" -> "read"
                                          [] OTHER                  -> "target"]
  <2>1. users[u] \in User /\ users[u].active
    BY <1>4 DEF current_user, IInv, TypeOK
  <2>2. /\ p \in Request /\ ~p.committed /\ p.kind = req[r].kind /\ p.before = Committed
        /\ \/ p.kind = "act" /\ p.pc = "done"
           \/ p.kind = "logout" /\ p.pc = "read"
           \/ p.kind \in AdminKinds /\ p.pc = "target" /\ p.row = users[u]
        /\ p.user = u /\ p.todo = req[r].todo
    BY <1>1, <2>1 DEF Request, Authenticate, Sound, Located, AdminKinds
  <2>3. Sound(r, p)
    BY <1>1, <2>1, <2>2
       DEF Sound, Located, Noted, TokenUnspent, SessionsKnown, RowsKnown, RowCurrent, AdminKinds, Committed
  <2> QED
    BY <1>1, <1>4, <2>2, <2>3, RequestStep DEF Authenticate, Put, Request, Sound, Located
<1> QED
  BY <1>2, <1>3, <1>4

\* Logout notes every live session of the user.
LEMMA ReadSessionsStep ==
    ASSUME IInv, NEW r \in Requests, ReadSessions(r)
    PROVE  IInv'
<1>1. req[r] \in Request /\ Sound(r, req[r]) /\ Committed \in SUBSET Requests
  BY DEF IInv, TypeOK, Committed
<1> DEFINE todo == Unrevoked(req[r].user)
           p == [req[r] EXCEPT !.pc = IF todo = {} THEN "done" ELSE "revoke",
                               !.todo = todo, !.before = Committed]
<1>2. todo \in SUBSET Sids
  BY DEF Unrevoked
<1>3. /\ p \in Request /\ ~p.committed /\ p.kind = "logout" /\ p.before = Committed
      /\ \/ p.pc = "done" /\ p.todo = {}
         \/ p.pc = "revoke"
      /\ p.user = req[r].user /\ p.todo = todo
  BY <1>1, <1>2 DEF Request, ReadSessions, Sound, Located
<1>4. Sound(r, p)
  BY <1>1, <1>3
     DEF Sound, Located, Noted, TokenUnspent, SessionsKnown, RowsKnown, AdminKinds, Committed, Unrevoked
<1> QED
  BY <1>1, <1>3, <1>4, RequestStep DEF ReadSessions, Put, Request, Sound, Located

\* The target's row is read, or the administrator's own is still at hand.
LEMMA ReadTargetStep ==
    ASSUME IInv, NEW r \in Requests, ReadTarget(r)
    PROVE  IInv'
<1>1. req[r] \in Request /\ Sound(r, req[r]) /\ Committed \in SUBSET Requests
  BY DEF IInv, TypeOK, Committed
<1>2. /\ req[r].kind \in AdminKinds /\ req[r].pc = "target" /\ ~req[r].committed
      /\ req[r].row \in User /\ req[r].row.active /\ RowCurrent(r, req[r], req[r].user)
  BY <1>1 DEF ReadTarget, Sound, Located, RowsKnown, AdminKinds
<1>3. PICK t \in Users, roles \in SUBSET Roles :
        IF users[t] = NULL
        THEN Put(r, [req[r] EXCEPT !.pc = "failed", !.target = t])
        ELSE Put(r, [req[r] EXCEPT !.pc = "write", !.target = t, !.roles = roles,
                                   !.row = IF t = req[r].user THEN @ ELSE users[t],
                                   !.before = IF t = req[r].user THEN @ ELSE Committed])
  BY DEF ReadTarget
<1>4. UNCHANGED <<users, sessions, audited>>
  BY DEF ReadTarget
<1>5. CASE users[t] = NULL
  <2> DEFINE p == [req[r] EXCEPT !.pc = "failed", !.target = t]
  <2>1. /\ p \in Request /\ ~p.committed /\ p.kind = req[r].kind /\ p.before = req[r].before
        /\ p.pc = "failed" /\ p.todo = req[r].todo
    BY <1>1, <1>2 DEF Request
  <2>2. Sound(r, p)
    BY <1>1, <2>1 DEF Sound, Located, Noted, TokenUnspent, SessionsKnown, RowsKnown
  <2>3. req' = [req EXCEPT ![r] = p]
    BY <1>3, <1>5 DEF Put
  <2> QED
    BY <1>1, <1>2, <1>4, <2>1, <2>2, <2>3, RequestStep DEF Request
<1>6. CASE users[t] # NULL
  <2> DEFINE p == [req[r] EXCEPT !.pc = "write", !.target = t, !.roles = roles,
                                 !.row = IF t = req[r].user THEN @ ELSE users[t],
                                 !.before = IF t = req[r].user THEN @ ELSE Committed]
  <2>1. users[t] \in User
    BY <1>6 DEF IInv, TypeOK
  <2>2. /\ p \in Request /\ ~p.committed /\ p.kind = req[r].kind /\ p.pc = "write"
        /\ p.target = t /\ p.todo = req[r].todo /\ p.row \in User
        /\ \/ t = req[r].user /\ p.row = req[r].row /\ p.before = req[r].before
           \/ p.row = users[t] /\ p.before = Committed
    BY <1>1, <1>2, <2>1 DEF Request
  <2>3. RowCurrent(r, p, t)
    BY <1>2, <2>2 DEF RowCurrent
  <2>4. Sound(r, p)
    BY <1>1, <1>2, <2>1, <2>2, <2>3
       DEF Sound, Located, Noted, TokenUnspent, SessionsKnown, RowsKnown, AdminKinds, Committed
  <2>5. req' = [req EXCEPT ![r] = p]
    BY <1>3, <1>6 DEF Put
  <2> QED
    BY <1>1, <1>2, <1>4, <2>2, <2>4, <2>5, RequestStep DEF Request
<1> QED
  BY <1>5, <1>6

\* The audit row, and the end of a request that fails.
LEMMA EndStep ==
    ASSUME IInv, NEW r \in Requests, Audit(r) \/ Fail(r)
    PROVE  IInv'
<1>1. req[r] \in Request /\ Sound(r, req[r])
  BY DEF IInv, TypeOK
<1>2. PICK pc \in {"done", "revoke", "failed"} :
        /\ Move(r, pc)
        /\ \/ pc = "failed"
           \/ req[r].pc = "audit" /\ (pc = "done" <=> req[r].todo = {})
  <2>1. CASE Audit(r) /\ req[r].todo = {}
    <3>1. Move(r, "done")
      BY <2>1 DEF Audit
    <3> QED
      BY <2>1, <3>1 DEF Audit
  <2>2. CASE Audit(r) /\ req[r].todo # {}
    <3>1. Move(r, "revoke")
      BY <2>2 DEF Audit
    <3> QED
      BY <2>2, <3>1 DEF Audit
  <2>3. CASE Fail(r)
    BY <2>3 DEF Fail
  <2> QED
    BY <2>1, <2>2, <2>3
<1> DEFINE p == [req[r] EXCEPT !.pc = pc]
<1>3. /\ p \in Request /\ p.kind = req[r].kind /\ p.committed = req[r].committed
      /\ p.pc = pc /\ p.user = req[r].user /\ p.target = req[r].target /\ p.token = req[r].token
      /\ p.row = req[r].row /\ p.roles = req[r].roles
      /\ p.before = req[r].before /\ p.todo = req[r].todo
  BY <1>1 DEF Request
<1>4. Sound(r, p)
  <2>1. Located(p) /\ Noted(p) /\ TokenUnspent(p) /\ SessionsKnown(p)
    BY <1>1, <1>2, <1>3 DEF Sound, Located, Noted, TokenUnspent, SessionsKnown
  <2>2. RowsKnown(r, p)
    BY <1>1, <1>2, <1>3 DEF Sound, RowsKnown, RowCurrent, ChangeHolds
  <2> QED
    BY <2>1, <2>2 DEF Sound
<1>5. audited' = audited \/ \E a \in {"AUTH_FAILED", "LOGIN_SUCCESS", "LOGOUT", "USER_ROLE_UPDATED"} :
                               audited' = audited \cup {<<a, r>>}
  BY DEF Audit, Fail, AuditAction
<1> QED
  BY <1>2, <1>3, <1>4, <1>5, RequestStep DEF Audit, Fail, Move, Put
-----------------------------------------------------------------------------
\* A step that writes to the tables, of a request that is sound after it.
LEMMA CommitStep ==
    ASSUME IInv, NEW r \in Requests, NEW p \in Request, req' = [req EXCEPT ![r] = p],
           TypeOK', Keeps, Sound(r, p)', SessionsBacked'
    PROVE  IInv'
<1>1. req'[r] = p /\ \A l \in Requests \ {r} : req'[l] = req[l]
  BY DEF IInv, TypeOK
<1>2. ASSUME NEW s \in Requests PROVE Sound(s, req[s])'
  BY <1>1, OthersStaySound
<1> QED
  BY <1>2 DEF IInv

\* What an UPDATE leaves is a row.
LEMMA MergeType ==
    ASSUME NEW now \in User, NEW old \in User, NEW new \in User
    PROVE  Merge(now, old, new) \in User
<1>1. /\ (IF new.active = old.active THEN now.active ELSE new.active) \in BOOLEAN
      /\ (IF new.roles = old.roles THEN now.roles ELSE new.roles) \in SUBSET Roles
  BY DEF User
<1> QED
  BY <1>1 DEF Merge, User

\* The user row, the session and the commit of a login.
LEMMA CommitLoginStep ==
    ASSUME IInv, NEW r \in Requests, CommitLogin(r)
    PROVE  IInv'
<1>1. PICK q \in Request :
      /\ req[r] = q /\ Sound(r, q) /\ TypeOK
      /\ q.kind = "login" /\ q.pc = "write" /\ ~q.committed /\ q.user \in Users
      /\ q.row # NULL => q.row \in User /\ users[q.user] \in User
  BY DEF IInv, TypeOK, CommitLogin, Sound, Located
<1>2. PICK p \in Request :
      /\ p = [q EXCEPT !.pc = "audit", !.committed = TRUE] /\ p.kind = "login" /\ p.pc = "audit" /\ p.committed
      /\ p.user = q.user /\ p.before = q.before /\ p.todo = q.todo
  <2> DEFINE new == [q EXCEPT !.pc = "audit", !.committed = TRUE]
  <2>1. /\ new \in Request /\ new.kind = "login" /\ new.pc = "audit" /\ new.committed
        /\ new.user = q.user /\ new.before = q.before /\ new.todo = q.todo
    BY <1>1 DEF Request
  <2> QED
    BY <2>1
<1>3. /\ req' = [req EXCEPT ![r] = p] /\ audited' = audited
      /\ sessions' = [sessions EXCEPT ![r] = create(q.user, NULL)]
  BY <1>1, <1>2 DEF CommitLogin, Put
<1>4. PICK u \in User :
        /\ users' = [users EXCEPT ![q.user] = u]
        /\ q.row = NULL => users[q.user] = NULL
  <2> DEFINE new == IF q.row = NULL THEN Wanted(q) ELSE Merge(users[q.user], q.row, Wanted(q))
  <2>1. Wanted(q) = [active |-> TRUE, roles |-> q.roles] /\ q.roles \in SUBSET Roles
    BY <1>1 DEF Wanted, Request
  <2>2. new \in User
    <3>1. CASE q.row = NULL
      BY <2>1, <3>1 DEF User
    <3>2. CASE q.row # NULL
      <4>1. /\ users[q.user] \in User /\ q.row \in User
            /\ new = Merge(users[q.user], q.row, Wanted(q))
        BY <1>1, <3>2
      <4>2. Wanted(q) \in User
        BY <2>1 DEF User
      <4> QED
        BY <4>1, <4>2, MergeType
    <3> QED
      BY <3>1, <3>2
  <2>3. users' = [users EXCEPT ![q.user] = new] /\ (q.row = NULL => users[q.user] = NULL)
    BY <1>1 DEF CommitLogin
  <2> QED
    BY <2>2, <2>3
<1>5. ~Exists(r) /\ r \in Sids /\ create(q.user, NULL) \in Session /\ create(q.user, NULL) # NULL
  <2>1. ~Exists(r) /\ r \in Sids
    BY <1>1 DEF IInv, SessionsBacked, Backed, Sids
  <2>2. create(q.user, NULL) \in Session
    BY <1>1 DEF create, Session
  <2> QED
    BY <2>1, <2>2, AbsentAssumption
<1>6. TypeOK'
  BY <1>1, <1>2, <1>3, <1>4, <1>5 DEF TypeOK
<1>7. Keeps
  <2>1. KeepsRequests
    BY <1>1, <1>2, <1>3 DEF KeepsRequests, TypeOK
  <2>2. KeepsUsers
    BY <1>1, <1>2, <1>3, <1>4 DEF KeepsUsers, TypeOK, CommitsNow
  <2>3. KeepsSessions
    BY <1>1, <1>3, <1>5 DEF KeepsSessions, TypeOK, Exists
  <2> QED
    BY <2>1, <2>2, <2>3 DEF Keeps
<1>8. Sound(r, p)'
  BY <1>1, <1>2, <1>7
     DEF Sound, Located, Noted, TokenUnspent, SessionsKnown, RowsKnown, AdminKinds,
         Keeps, KeepsRequests, KeepsSessions, Request
<1>9. SessionsBacked'
  <2>1. ASSUME NEW s \in Requests, s # r, Exists(s)'
        PROVE  Exists(s)
    BY <1>1, <1>3, <1>5, <2>1 DEF TypeOK, Exists
  <2>2. sessions'[r].from = NULL /\ req'[r].committed /\ req'[r].kind = "login"
    BY <1>1, <1>2, <1>3, <1>5 DEF TypeOK, create
  <2>3. ASSUME NEW s \in Requests, s # r, Exists(s)
        PROVE  Backed(s)'
    BY <1>7, <2>3, SessionsStayBacked
  <2> QED
    BY <2>1, <2>2, <2>3 DEF SessionsBacked, Backed
<1> QED
  BY <1>2, <1>3, <1>6, <1>7, <1>8, <1>9, CommitStep

\* The two session rows and the commit of a refresh: the token is not the
\* session the request is about to make.
LEMMA CommitRefreshStep ==
    ASSUME IInv, NEW r \in Requests, CommitRefresh(r)
    PROVE  IInv'
<1>1. PICK q \in Request :
      /\ req[r] = q /\ Sound(r, q) /\ TypeOK
      /\ q.kind = "refresh" /\ q.pc = "write" /\ ~q.committed /\ q.user \in Users
      /\ q.token \in Sids /\ Exists(q.token)
  BY DEF IInv, TypeOK, CommitRefresh, Sound, Located
<1>2. PICK p \in Request :
      /\ p = [q EXCEPT !.pc = "audit", !.committed = TRUE] /\ p.kind = "refresh" /\ p.pc = "audit" /\ p.committed
      /\ p.token = q.token /\ p.before = q.before /\ p.todo = q.todo
  <2> DEFINE new == [q EXCEPT !.pc = "audit", !.committed = TRUE]
  <2>1. /\ new \in Request /\ new.kind = "refresh" /\ new.pc = "audit" /\ new.committed
        /\ new.token = q.token /\ new.before = q.before /\ new.todo = q.todo
    BY <1>1 DEF Request
  <2> QED
    BY <2>1
<1>3. /\ req' = [req EXCEPT ![r] = p] /\ UNCHANGED <<users, audited>>
      /\ sessions' = [sessions EXCEPT ![q.token].revoked = TRUE, ![r] = create(q.user, q.token)]
  BY <1>1, <1>2 DEF CommitRefresh, Put
<1>4. /\ ~Exists(r) /\ r \in Sids /\ q.token # r
      /\ create(q.user, q.token) \in Session /\ create(q.user, q.token) # NULL
  <2>1. ~Exists(r) /\ r \in Sids
    BY <1>1 DEF IInv, SessionsBacked, Backed, Sids
  <2>2. create(q.user, q.token) \in Session
    BY <1>1 DEF create, Session
  <2> QED
    BY <1>1, <2>1, <2>2, AbsentAssumption
<1>5. /\ sessions[q.token] \in Session
      /\ [sessions[q.token] EXCEPT !.revoked = TRUE] \in Session
      /\ sessions' = [sessions EXCEPT ![q.token] = [sessions[q.token] EXCEPT !.revoked = TRUE],
                                      ![r] = create(q.user, q.token)]
  BY <1>1, <1>3 DEF TypeOK, Exists, Session
<1>6. TypeOK'
  BY <1>1, <1>2, <1>3, <1>4, <1>5 DEF TypeOK
<1>7. /\ Exists(r)' /\ sessions'[r] = create(q.user, q.token)
      /\ Exists(q.token)' /\ sessions'[q.token].revoked
      /\ sessions'[q.token].user = sessions[q.token].user
      /\ sessions'[q.token].from = sessions[q.token].from
      /\ \A s \in Sids \ {r, q.token} : sessions'[s] = sessions[s]
  <2>1. /\ sessions'[r] = create(q.user, q.token)
        /\ sessions'[q.token] = [sessions[q.token] EXCEPT !.revoked = TRUE]
        /\ \A s \in Sids \ {r, q.token} : sessions'[s] = sessions[s]
    BY <1>1, <1>4, <1>5 DEF TypeOK
  <2>2. /\ sessions'[q.token].revoked
        /\ sessions'[q.token].user = sessions[q.token].user
        /\ sessions'[q.token].from = sessions[q.token].from
    BY <1>5, <2>1 DEF Session
  <2> QED
    BY <1>4, <1>5, <2>1, <2>2, AbsentAssumption DEF Exists
<1>8. Keeps
  <2>1. KeepsRequests
    BY <1>1, <1>2, <1>3 DEF KeepsRequests, TypeOK, Request
  <2>2. KeepsUsers
    BY <1>3 DEF KeepsUsers
  <2>3. KeepsSessions
    BY <1>1, <1>4, <1>7 DEF KeepsSessions, Exists
  <2> QED
    BY <2>1, <2>2, <2>3 DEF Keeps
<1>9. Sound(r, p)'
  <2>1. TokenUnspent(p)'
    BY <1>1, <1>2, <1>7, <1>8 DEF Sound, Noted, TokenUnspent, Exists, Sids, Request
  <2> QED
    BY <1>1, <1>2, <1>8, <2>1
       DEF Sound, Located, Noted, SessionsKnown, RowsKnown, AdminKinds,
           Keeps, KeepsRequests, KeepsSessions, Request
<1>10. SessionsBacked'
  <2>1. ASSUME NEW s \in Requests, s # r, Exists(s)'
        PROVE  Exists(s)
    BY <1>1, <1>7, <2>1 DEF Exists, Sids
  <2>2. /\ sessions'[r].from = q.token /\ req'[r].committed
        /\ req'[r].kind = "refresh" /\ req'[r].token = q.token
    <3>1. req'[r] = p
      BY <1>1, <1>3 DEF TypeOK
    <3>2. create(q.user, q.token).from = q.token
      BY DEF create
    <3> QED
      BY <1>2, <1>7, <3>1, <3>2
  <2>3. ASSUME NEW s \in Requests, s # r, Exists(s)
        PROVE  Backed(s)'
    BY <1>8, <2>3, SessionsStayBacked
  <2> QED
    <3>1. Backed(r)'
      BY <1>1, <1>7, <2>2 DEF Backed, Exists
    <3> QED
      BY <2>1, <2>3, <3>1 DEF SessionsBacked
<1> QED
  BY <1>2, <1>3, <1>6, <1>8, <1>9, <1>10, CommitStep

\* The row an administrator writes: a column he does not set keeps what it
\* has by now, and he knows who has changed it since he read it.
LEMMA CommitChangeStep ==
    ASSUME IInv, NEW r \in Requests, CommitChange(r)
    PROVE  IInv'
<1>1. PICK q \in Request :
      /\ req[r] = q /\ Sound(r, q) /\ TypeOK
      /\ q.kind \in AdminKinds /\ q.pc = "write" /\ ~q.committed
      /\ q.target \in Users /\ q.row \in User /\ users[q.target] \in User
      /\ RowCurrent(r, q, q.target)
  BY DEF IInv, TypeOK, CommitChange, Sound, Located, RowsKnown, AdminKinds
<1>2. PICK p \in Request :
      /\ p = [q EXCEPT !.pc = "audit", !.committed = TRUE]
      /\ p.kind = q.kind /\ p.pc = "audit" /\ p.committed /\ p.target = q.target
      /\ p.row = q.row /\ p.roles = q.roles /\ p.before = q.before /\ p.todo = q.todo
  <2> DEFINE new == [q EXCEPT !.pc = "audit", !.committed = TRUE]
  <2>1. /\ new \in Request /\ new.kind = q.kind /\ new.pc = "audit" /\ new.committed
        /\ new.target = q.target /\ new.row = q.row /\ new.roles = q.roles
        /\ new.before = q.before /\ new.todo = q.todo
    BY <1>1 DEF Request
  <2> QED
    BY <2>1
<1>3. /\ req' = [req EXCEPT ![r] = p] /\ UNCHANGED <<sessions, audited>>
      /\ users' = [users EXCEPT ![q.target] = Merge(users[q.target], q.row, Wanted(q))]
  BY <1>1, <1>2 DEF CommitChange, Put
<1>4. Wanted(q) \in User
  BY <1>1 DEF Wanted, AdminKinds, User, Request
<1>5. Merge(users[q.target], q.row, Wanted(q)) \in User
  BY <1>1, <1>4, MergeType
<1>6. TypeOK'
  BY <1>1, <1>2, <1>3, <1>5 DEF TypeOK
<1>7. users'[q.target] = Merge(users[q.target], q.row, Wanted(q)) /\ req'[r] = p
  BY <1>1, <1>3 DEF TypeOK
<1>8. ASSUME q.kind = "deactivate" PROVE Keeps /\ ChangeHolds(r, p)'
  <2>1. Wanted(q).active = FALSE /\ Wanted(q).roles = q.row.roles
    BY <1>1, <1>8 DEF Wanted, User
  <2>2. users'[q.target].active => users[q.target].active /\ ~q.row.active
    BY <1>1, <1>7, <2>1 DEF Merge, User
  <2>3. users'[q.target].roles = users[q.target].roles
    BY <1>7, <2>1 DEF Merge
  <2>4. Keeps
    BY <1>1, <1>2, <1>3, <1>5, <1>7, <2>2, <2>3
       DEF Keeps, KeepsRequests, KeepsUsers, KeepsSessions, Exists, TypeOK, Request
  <2>5. users'[q.target].active => LoginSince(q.before, q.target)'
    BY <1>1, <2>2, <2>4 DEF RowCurrent, LoginSince, Keeps, KeepsRequests
  <2>6. ChangeHolds(r, p)'
    BY <1>2, <1>8, <2>5 DEF ChangeHolds
  <2> QED
    BY <2>4, <2>6
<1>9. ASSUME q.kind = "patch" PROVE Keeps /\ ChangeHolds(r, p)'
  <2>1. Wanted(q).active = q.row.active /\ Wanted(q).roles = q.roles
    BY <1>1, <1>9 DEF Wanted, User
  <2>2. users'[q.target].active = users[q.target].active
    BY <1>7, <2>1 DEF Merge
  <2>3. users'[q.target].roles # q.roles
        => users[q.target].roles # q.row.roles
    BY <1>7, <2>1 DEF Merge
  <2>4. Keeps
    BY <1>1, <1>2, <1>3, <1>5, <1>7, <1>9, <2>2
       DEF Keeps, KeepsRequests, KeepsUsers, KeepsSessions, CommitsNow, Exists, TypeOK, Request
  <2>5. users'[q.target].roles # q.roles
        => LoginSince(q.before, q.target)' \/ PatchSince(r, q.before, q.target)'
    BY <1>1, <2>3, <2>4 DEF RowCurrent, LoginSince, PatchSince, Keeps, KeepsRequests
  <2>6. ChangeHolds(r, p)'
    BY <1>2, <1>9, <2>5 DEF ChangeHolds
  <2> QED
    BY <2>4, <2>6
<1>10. Keeps /\ ChangeHolds(r, p)'
  BY <1>1, <1>8, <1>9 DEF AdminKinds
<1>11. Sound(r, p)'
  BY <1>1, <1>2, <1>5, <1>7, <1>10
     DEF Sound, Located, Noted, TokenUnspent, SessionsKnown, RowsKnown, AdminKinds,
         Keeps, KeepsRequests, KeepsSessions, Request
<1>12. SessionsBacked'
  BY <1>3, <1>10, SessionsStayBacked DEF SessionsBacked, Exists
<1> QED
  BY <1>2, <1>3, <1>6, <1>10, <1>11, <1>12, CommitStep

\* Logout revokes one of the sessions it noted.
LEMMA RevokeStep ==
    ASSUME IInv, NEW r \in Requests, Revoke(r)
    PROVE  IInv'
<1>1. PICK q \in Request :
      /\ req[r] = q /\ Sound(r, q) /\ TypeOK
      /\ q.kind = "logout" /\ q.pc = "revoke" /\ q.todo \in SUBSET Sids
  BY DEF IInv, TypeOK, Revoke, Request
<1>2. PICK s \in q.todo :
        /\ sessions' = [sessions EXCEPT ![s].revoked = TRUE]
        /\ req' = [req EXCEPT ![r] = [q EXCEPT !.todo = q.todo \ {s}, !.pc = "audit",
                                               !.committed = TRUE]]
        /\ UNCHANGED <<users, audited>>
  BY <1>1 DEF Revoke, Put
<1>3. PICK p \in Request :
      /\ p = [q EXCEPT !.todo = q.todo \ {s}, !.pc = "audit", !.committed = TRUE]
      /\ p.kind = "logout" /\ p.pc = "audit" /\ p.committed /\ p.user = q.user
      /\ p.target = q.target /\ p.token = q.token
      /\ p.before = q.before /\ p.todo = q.todo \ {s}
  <2> DEFINE new == [q EXCEPT !.todo = q.todo \ {s}, !.pc = "audit", !.committed = TRUE]
  <2>1. /\ new \in Request /\ new.kind = "logout" /\ new.pc = "audit" /\ new.committed
        /\ new.user = q.user /\ new.target = q.target /\ new.token = q.token
        /\ new.before = q.before /\ new.todo = q.todo \ {s}
    BY <1>1 DEF Request
  <2> QED
    BY <2>1
<1>4. /\ s \in Sids /\ Exists(s) /\ sessions[s] \in Session
      /\ [sessions[s] EXCEPT !.revoked = TRUE] \in Session
      /\ sessions' = [sessions EXCEPT ![s] = [sessions[s] EXCEPT !.revoked = TRUE]]
  BY <1>1, <1>2 DEF TypeOK, Exists, Sound, Located, Session
<1>5. TypeOK'
  BY <1>1, <1>2, <1>3, <1>4 DEF TypeOK
<1>6. /\ Exists(s)' /\ sessions'[s].revoked /\ sessions'[s].user = sessions[s].user
      /\ sessions'[s].from = sessions[s].from
      /\ \A x \in Sids \ {s} : sessions'[x] = sessions[x]
  <2>1. /\ sessions'[s] = [sessions[s] EXCEPT !.revoked = TRUE]
        /\ \A x \in Sids \ {s} : sessions'[x] = sessions[x]
    BY <1>1, <1>4 DEF TypeOK
  <2> QED
    BY <1>4, <2>1, AbsentAssumption DEF Exists, Session
<1>7. Keeps
  <2>1. KeepsRequests
    BY <1>1, <1>2, <1>3 DEF KeepsRequests, TypeOK
  <2>2. KeepsUsers
    BY <1>2 DEF KeepsUsers
  <2>3. KeepsSessions
    BY <1>4, <1>6 DEF KeepsSessions, Exists
  <2> QED
    BY <2>1, <2>2, <2>3 DEF Keeps
<1>8. Sound(r, p)'
  <2>1. SessionsKnown(p)'
    BY <1>1, <1>3, <1>6 DEF Sound, SessionsKnown, Exists
  <2> QED
    BY <1>1, <1>3, <1>7, <2>1
       DEF Sound, Located, Noted, TokenUnspent, RowsKnown, AdminKinds,
           Keeps, KeepsRequests, KeepsSessions, Request
<1>9. \A x \in Sids : Exists(x)' => Exists(x)
  BY <1>4, <1>6 DEF Exists
<1>10. SessionsBacked'
  BY <1>7, <1>9, SessionsStayBacked DEF SessionsBacked, Sids
<1> QED
  BY <1>2, <1>3, <1>5, <1>7, <1>8, <1>10, CommitStep

\* Nobody has noted whether a session is expired.
LEMMA ExpireStep ==
    ASSUME IInv, NEW s \in Sids, Expire(s)
    PROVE  IInv'
<1>1. /\ Exists(s) /\ sessions[s] \in Session /\ UNCHANGED <<users, audited, req>> /\ TypeOK
      /\ [sessions[s] EXCEPT !.expired = TRUE] \in Session
      /\ sessions' = [sessions EXCEPT ![s] = [sessions[s] EXCEPT !.expired = TRUE]]
  BY DEF IInv, TypeOK, Expire, Exists, Session
<1>2. TypeOK'
  BY <1>1 DEF TypeOK
<1>3. /\ Exists(s)' /\ sessions'[s].revoked = sessions[s].revoked
      /\ sessions'[s].user = sessions[s].user /\ sessions'[s].from = sessions[s].from
      /\ \A x \in Sids \ {s} : sessions'[x] = sessions[x]
  <2>1. /\ sessions'[s] = [sessions[s] EXCEPT !.expired = TRUE]
        /\ \A x \in Sids \ {s} : sessions'[x] = sessions[x]
    BY <1>1 DEF TypeOK
  <2> QED
    BY <1>1, <2>1, AbsentAssumption DEF Exists, Session
<1>4. Keeps
  BY <1>1, <1>3 DEF Keeps, KeepsRequests, KeepsUsers, KeepsSessions, Exists
<1>5. \A r \in Requests : Sound(r, req[r])'
  BY <1>1, <1>2, <1>4, OthersStaySound
<1>6. \A x \in Sids : Exists(x)' => Exists(x)
  BY <1>1, <1>3 DEF Exists
<1>7. SessionsBacked'
  BY <1>4, <1>6, SessionsStayBacked DEF SessionsBacked, Sids
<1> QED
  BY <1>2, <1>5, <1>7 DEF IInv
-----------------------------------------------------------------------------
\* At the start a user who has a row has one session, of no request's making.
LEMMA InitIInv == Init => IInv
<1> SUFFICES ASSUME Init PROVE IInv
  OBVIOUS
<1>1. \A r \in Requests : \E k \in Kinds : req[r] = Idle(k)
  BY DEF Init
<1>2. \A k \in Kinds : Idle(k) \in Request
  BY DEF Idle, Request
<1>3. \A s \in Sids : sessions[s] \in Session \cup {NULL}
  BY DEF Init, create, Session, Sids
<1>4. TypeOK
  <2>1. users \in [Users -> User \cup {NULL}] /\ audited = {}
    BY DEF Init
  <2>2. sessions \in [Sids -> Session \cup {NULL}]
    BY <1>3 DEF Init
  <2>3. req \in [Requests -> Request]
    BY <1>1, <1>2 DEF Init
  <2> QED
    BY <2>1, <2>2, <2>3 DEF TypeOK
<1>5. SessionsBacked
  BY AccessAssumption DEF Init, SessionsBacked, Exists, Sids
<1>6. ASSUME NEW r \in Requests PROVE Sound(r, req[r])
  <2>1. req[r].pc = "idle" /\ ~req[r].committed /\ req[r].todo = {} /\ req[r].before = {}
    <3>1. PICK k \in Kinds : req[r] = Idle(k)
      BY <1>1
    <3> QED
      BY <3>1 DEF Idle
  <2> QED
    BY <2>1 DEF Sound, Located, Noted, TokenUnspent, SessionsKnown, RowsKnown
<1> QED
  BY <1>4, <1>5, <1>6 DEF IInv

LEMMA NextIInv == IInv /\ [Next]_vars => IInv'
<1> SUFFICES ASSUME IInv, [Next]_vars PROVE IInv'
  OBVIOUS
<1>1. ASSUME NEW r \in Requests,
             \/ SsoCallback(r) \/ ReadSubject(r) \/ CommitLogin(r)
             \/ ReadToken(r) \/ ReadOwner(r) \/ CommitRefresh(r)
             \/ Authenticate(r)
             \/ ReadSessions(r) \/ Revoke(r)
             \/ ReadTarget(r) \/ CommitChange(r)
             \/ Audit(r) \/ Fail(r)
      PROVE  IInv'
  BY <1>1, LoginReads, CommitLoginStep, RefreshReads, CommitRefreshStep, AuthenticateStep,
     ReadSessionsStep, RevokeStep, ReadTargetStep, CommitChangeStep, EndStep
<1>2. ASSUME NEW s \in Sids, Expire(s) PROVE IInv'
  BY <1>2, ExpireStep
<1>3. CASE UNCHANGED vars
  BY <1>3 DEF vars, IInv, TypeOK, SessionsBacked, Backed, Exists, Sound, Located, Noted, TokenUnspent,
              SessionsKnown, RowsKnown, RowCurrent, ChangeHolds, LoginSince, PatchSince
<1> QED
  BY <1>1, <1>2, <1>3 DEF Next

LEMMA Invariance == Spec => []IInv
  BY InitIInv, NextIInv, PTL DEF Spec
-----------------------------------------------------------------------------
\* Typing (core/security, domain/users): a row stays a row, a session one of
\* a user, whatever the interleaving of requests.
THEOREM TypeCorrect == Spec => []TypeOK
<1>1. IInv => TypeOK
  BY DEF IInv
<1> QED
  BY <1>1, Invariance, PTL

\* sessions.py, refresh: two sessions minted from one token come from
\* refreshes neither of which began after the other had committed.
THEOREM TokensExchangedOnce == Spec => []TokenExchangedOnce
<1>1. ASSUME IInv, NEW r \in Requests, NEW s \in Requests, Exists(r), Exists(s),
             sessions[r].from # NULL, sessions[r].from = sessions[s].from
      PROVE  r \notin req[s].before
  BY <1>1 DEF IInv, SessionsBacked, Backed, Sound, TokenUnspent
<1>2. IInv => TokenExchangedOnce
  BY <1>1 DEF TokenExchangedOnce
<1> QED
  BY <1>2, Invariance, PTL

\* The logout route: after one that ran to its end no session of the user is
\* live but those of logins and refreshes that it could not have seen.
THEOREM LogoutsEndSessions == Spec => []LogoutEndsEarlierSessions
<1>1. IInv => LogoutEndsEarlierSessions
  BY DEF IInv, Sound, SessionsKnown, LogoutEndsEarlierSessions
<1> QED
  BY <1>1, Invariance, PTL

\* deactivate_user and patch_user: what an administrator changed is undone by
\* a later login or patch of that user, and by nothing else.
THEOREM AdministrationStands == Spec => []AdministrationHolds
<1>1. ASSUME IInv, NEW r \in Committed
      PROVE  LET q == req[r]
                 later == {req[l] : l \in Committed \ (q.before \cup {r})}
                 logins == {l \in later : l.kind = "login" /\ l.user = q.target}
             IN  /\ q.kind = "deactivate" /\ users[q.target].active => logins # {}
                 /\ q.kind = "patch" /\ users[q.target].roles # q.roles
                    => logins # {} \/ \E l \in later : l.kind = "patch" /\ l.target = q.target
  <2> DEFINE q == req[r]
             later == {req[l] : l \in Committed \ (q.before \cup {r})}
             logins == {l \in later : l.kind = "login" /\ l.user = q.target}
  <2>1. r \in Requests /\ q.committed /\ (q.kind \in AdminKinds => ChangeHolds(r, q))
    BY <1>1 DEF Committed, IInv, Sound, RowsKnown
  <2>2. ASSUME LoginSince(q.before, q.target), q.kind \in AdminKinds PROVE logins # {}
    <3>1. PICK l \in Requests : /\ req[l].committed /\ l \notin q.before
                                /\ req[l].kind = "login" /\ req[l].user = q.target
      BY <2>2 DEF LoginSince
    <3>2. l # r
      BY <2>2, <3>1 DEF AdminKinds
    <3>3. req[l] \in later
      BY <3>1, <3>2 DEF Committed
    <3> QED
      BY <3>1, <3>3
  <2>3. ASSUME PatchSince(r, q.before, q.target)
        PROVE  \E l \in later : l.kind = "patch" /\ l.target = q.target
    <3>1. PICK l \in Requests \ {r} : /\ req[l].committed /\ l \notin q.before
                                      /\ req[l].kind = "patch" /\ req[l].target = q.target
      BY <2>3 DEF PatchSince
    <3>2. req[l] \in later
      BY <3>1 DEF Committed
    <3> QED
      BY <3>1, <3>2
  <2> QED
    BY <2>1, <2>2, <2>3 DEF ChangeHolds, AdminKinds
<1>2. IInv => AdministrationHolds
  BY <1>1 DEF AdministrationHolds
<1> QED
  BY <1>2, Invariance, PTL

\* create and refresh of sessions.py: a session is minted only for a user who
\* is active, or was when his row was read.
THEOREM InactiveGetNoSession == Spec => NoSessionForInactive
<1> DEFINE Minting ==
      \A r \in Requests :
        sessions[r] = NULL /\ sessions'[r] # NULL /\ ~users'[sessions'[r].user].active
        => req[r].row # NULL /\ req[r].row.active
<1>1. ASSUME IInv, Next PROVE Minting
  <2> SUFFICES ASSUME NEW r \in Requests, sessions[r] = NULL, sessions'[r] # NULL,
                      ~users'[sessions'[r].user].active
               PROVE  req[r].row # NULL /\ req[r].row.active
    OBVIOUS
  <2>1. TypeOK /\ r \in Sids
    BY <1>1 DEF IInv, Sids
  <2>2. ASSUME NEW s \in Requests, CommitLogin(s)
        PROVE  req[r].row # NULL /\ req[r].row.active
    <3>1. s = r /\ sessions'[r].user = req[r].user
      BY <2>1, <2>2 DEF CommitLogin, TypeOK, create
    <3>2. /\ req[r].kind = "login" /\ req[r].pc = "write" /\ req[r].user \in Users
          /\ req[r].row # NULL => req[r].row \in User /\ users[req[r].user] \in User
      BY <1>1, <2>2, <3>1 DEF CommitLogin, IInv, Sound, Located
    <3>3. Wanted(req[r]) = [active |-> TRUE, roles |-> req[r].roles]
      BY <3>2 DEF Wanted
    <3>4. users'[req[r].user] = IF req[r].row = NULL THEN Wanted(req[r])
                                ELSE Merge(users[req[r].user], req[r].row, Wanted(req[r]))
      BY <2>1, <2>2, <3>1, <3>2 DEF CommitLogin, TypeOK
    <3>5. CASE req[r].row = NULL
      BY <3>1, <3>3, <3>4, <3>5
    <3>6. CASE req[r].row # NULL
      <4>1. /\ users'[req[r].user] = Merge(users[req[r].user], req[r].row, Wanted(req[r]))
            /\ Wanted(req[r]).active = TRUE
        BY <3>3, <3>4, <3>6
      <4>2. Wanted(req[r]).active # req[r].row.active => users'[req[r].user].active
        BY <4>1 DEF Merge
      <4> QED
        BY <3>1, <3>2, <3>6, <4>1, <4>2 DEF User
    <3> QED
      BY <3>5, <3>6
  <2>3. ASSUME NEW s \in Requests, CommitRefresh(s)
        PROVE  req[r].row # NULL /\ req[r].row.active
    <3>1. /\ req[s].kind = "refresh" /\ req[s].pc = "write"
          /\ sessions' = [sessions EXCEPT ![req[s].token].revoked = TRUE,
                                          ![s] = create(req[s].user, req[s].token)]
      BY <2>3 DEF CommitRefresh
    <3>2. Exists(req[s].token) /\ req[s].row # NULL /\ req[s].row.active
      BY <1>1, <3>1 DEF IInv, Sound, Located
    <3>3. r = s
      BY <2>1, <3>1, <3>2 DEF Exists, TypeOK
    <3> QED
      BY <3>2, <3>3
  <2>4. ASSUME NEW s \in Requests, Revoke(s) PROVE FALSE
    BY <1>1, <2>1, <2>4 DEF Revoke, IInv, Sound, Located, TypeOK, Exists
  <2>5. ASSUME NEW s \in Sids, Expire(s) PROVE FALSE
    BY <2>1, <2>5 DEF Expire, TypeOK, Exists
  <2>6. ASSUME NEW s \in Requests,
               \/ SsoCallback(s) \/ ReadSubject(s) \/ ReadToken(s) \/ ReadOwner(s)
               \/ Authenticate(s) \/ ReadSessions(s) \/ ReadTarget(s) \/ CommitChange(s)
               \/ Audit(s) \/ Fail(s)
        PROVE  sessions' = sessions
    BY <2>6 DEF SsoCallback, ReadSubject, ReadToken, ReadOwner, Authenticate, ReadSessions,
                ReadTarget, CommitChange, Audit, Fail
  <2> QED
    BY <1>1, <2>2, <2>3, <2>4, <2>5, <2>6 DEF Next
<1>2. ASSUME IInv, UNCHANGED vars PROVE Minting
  BY <1>2 DEF vars
<1>3. IInv /\ [Next]_vars => [Minting]_vars
  BY <1>1, <1>2
<1> QED
  BY <1>3, Invariance, PTL DEF Spec, NoSessionForInactive
=============================================================================
