------------------------------- MODULE Access -------------------------------
(***************************************************************************)
(* Users, sign-in and the administration of users: auth_service.py,        *)
(* sessions.py, rbac.py and api/v1/admin/users.py.  Every request is a     *)
(* database session of its own at READ COMMITTED: what it has read, it     *)
(* keeps (expire_on_commit is off), and the ORM writes the columns it has  *)
(* changed and no others.  Audit rows go through a side session, after     *)
(* the commit they tell of.                                                *)
(*                                                                         *)
(* A refresh token, its row in sessions and the access token minted with   *)
(* it are named by the request that made them; a user who already has a    *)
(* row has one older session, named by the user.                           *)
(***************************************************************************)
EXTENDS Naturals, FiniteSets

CONSTANTS
    Requests,    \* HTTP requests, each with a database session
    Users,       \* subjects the identity provider knows
    Roles,       \* core/security/roles.py, those told apart
    Admin,       \* SystemAdmin
    NULL

ASSUME AccessAssumption ==
    /\ Admin \in Roles
    /\ Requests \cap Users = {}
    /\ NULL \notin Requests \cup Users

VARIABLES
    users,       \* the users table
    sessions,    \* the sessions table
    audited,     \* audit rows of this component, as <<action, request>>
    req          \* the requests

vars == <<users, sessions, audited, req>>
-----------------------------------------------------------------------------
Kinds == {"login", "refresh", "logout", "act", "deactivate", "patch"}

User == [active: BOOLEAN, roles: SUBSET Roles]

Sids == Requests \cup Users

Session == [user: Users, revoked: BOOLEAN, expired: BOOLEAN, from: Sids \cup {NULL}]

(* That a row is absent can be told from any row. *)
ASSUME AbsentAssumption == NULL \notin User \cup Session

Request ==
    [kind: Kinds,
     pc: {"idle", "read", "owner", "target", "write", "revoke", "audit", "done", "failed"},
     user: Users \cup {NULL},           \* who signs in, or acts
     target: Users \cup {NULL},         \* whom an administrator changes
     token: Sids \cup {NULL},           \* the refresh token sent
     row: User \cup {NULL},             \* the user row as it was read
     roles: SUBSET Roles,               \* the roles to write
     todo: SUBSET Sids,                 \* sessions logout has still to revoke
     before: SUBSET Requests,           \* history: who had committed when it first read
     committed: BOOLEAN]                \* history: it has committed a change

Idle(kind) ==
    [kind |-> kind, pc |-> "idle", user |-> NULL, target |-> NULL, token |-> NULL,
     row |-> NULL, roles |-> {}, todo |-> {}, before |-> {}, committed |-> FALSE]

Committed == {r \in Requests : req[r].committed}
Exists(s) == sessions[s] # NULL
Put(r, q) == req' = [req EXCEPT ![r] = q]
Move(r, pc) == Put(r, [req[r] EXCEPT !.pc = pc])
-----------------------------------------------------------------------------
(* SessionStore.create: a new row; its expiry is counted from now, whoever *)
(* the predecessor was.                                                    *)
create(u, from) == [user |-> u, revoked |-> FALSE, expired |-> FALSE, from |-> from]

(* (mutant: the whole row is written back, as it was read.) *)
WholeRow(now, old, new) == new

(* What an UPDATE leaves of a row now, when the request has read "old" and *)
(* wants "new": a column it did not change is not in the statement.        *)
Merge(now, old, new) ==
    [active |-> IF new.active = old.active THEN now.active ELSE new.active,
     roles  |-> IF new.roles = old.roles THEN now.roles ELSE new.roles]

(* (mutant: names that are no role are not filtered out.) *)
WantedUnfiltered(q) ==
    CASE q.kind = "login"      -> [active |-> TRUE, roles |-> q.roles]
      [] q.kind = "deactivate" -> [q.row EXCEPT !.active = FALSE]
      [] q.kind = "patch"      -> [q.row EXCEPT !.roles = q.roles \cup {NULL}]

(* The row that _upsert_user, deactivate_user and patch_user want. *)
Wanted(q) ==
    CASE q.kind = "login"      -> [active |-> TRUE, roles |-> q.roles]
      [] q.kind = "deactivate" -> [q.row EXCEPT !.active = FALSE]
      [] q.kind = "patch"      -> [q.row EXCEPT !.roles = q.roles]

(* An access token of u is in some browser: one was minted with every      *)
(* session, and current_user never looks at the session row.               *)
HasToken(u) == \E s \in Sids : Exists(s) /\ sessions[s].user = u

(* current_user: the row of the token's subject, which has to be active. *)
current_user(u) == users[u] # NULL /\ users[u].active
-----------------------------------------------------------------------------
(* handle_sso_callback up to the mapping of groups to a role: the provider *)
(* fails or the payload is unusable; or no group maps to a role, which     *)
(* leaves an audit row and no user; or there is a role.                    *)
SsoCallback(r) ==
    /\ req[r].kind = "login" /\ req[r].pc = "idle"
    /\ UNCHANGED <<users, sessions>>
    /\ \/ Move(r, "failed") /\ UNCHANGED audited
       \/ /\ audited' = audited \cup {<<"AUTH_FAILED", r>>}
          /\ Move(r, "failed")
       \/ \E u \in Users, role \in Roles :
            /\ Put(r, [req[r] EXCEPT !.pc = "read", !.user = u, !.roles = {role},
                                     !.before = Committed])
            /\ UNCHANGED audited

(* _upsert_user: SELECT by the hash of the subject. *)
ReadSubject(r) ==
    /\ req[r].kind = "login" /\ req[r].pc = "read"
    /\ Put(r, [req[r] EXCEPT !.pc = "write", !.row = users[req[r].user],
                             !.before = Committed])
    /\ UNCHANGED <<users, sessions, audited>>

(* handle_sso_callback: the user row, the session row, the commit.  The    *)
(* second INSERT of one subject violates the unique hash.                  *)
CommitLogin(r) ==
    LET q == req[r] IN
    /\ q.kind = "login" /\ q.pc = "write"
    /\ q.row = NULL => users[q.user] = NULL
    /\ users' = [users EXCEPT ![q.user] =
                   IF q.row = NULL THEN Wanted(q) ELSE Merge(@, q.row, Wanted(q))]
    /\ sessions' = [sessions EXCEPT ![r] = create(q.user, NULL)]
    /\ Put(r, [q EXCEPT !.pc = "audit", !.committed = TRUE])
    /\ UNCHANGED audited
-----------------------------------------------------------------------------
(* (mutant: the check of revoked_at is lost.) *)
NotExpired(s) == Exists(s) /\ ~sessions[s].expired

(* SessionStore.refresh: the row of the token, if it is live. *)
Acceptable(s) == Exists(s) /\ ~sessions[s].revoked /\ ~sessions[s].expired

ReadToken(r) ==
    /\ req[r].kind = "refresh" /\ req[r].pc = "idle"
    /\ \E s \in Sids :
         /\ Exists(s)
         /\ Put(r, [req[r] EXCEPT !.pc = IF Acceptable(s) THEN "owner" ELSE "failed",
                                  !.token = s, !.user = sessions[s].user,
                                  !.before = Committed])
    /\ UNCHANGED <<users, sessions, audited>>

(* (mutant: the owner's is_active is not asked for.) *)
ReadAnyOwner(r) ==
    /\ req[r].kind = "refresh" /\ req[r].pc = "owner"
    /\ Put(r, [req[r] EXCEPT !.pc = IF users[req[r].user] # NULL THEN "write" ELSE "failed",
                             !.row = users[req[r].user]])
    /\ UNCHANGED <<users, sessions, audited>>

(* SessionStore.refresh: the owner of the row, who has to be active. *)
ReadOwner(r) ==
    /\ req[r].kind = "refresh" /\ req[r].pc = "owner"
    /\ Put(r, [req[r] EXCEPT !.pc = IF current_user(req[r].user) THEN "write" ELSE "failed",
                             !.row = users[req[r].user]])
    /\ UNCHANGED <<users, sessions, audited>>

(* refresh_session: the old row revoked, a new one inserted, the commit. *)
CommitRefresh(r) ==
    LET q == req[r] IN
    /\ q.kind = "refresh" /\ q.pc = "write"
    /\ sessions' = [sessions EXCEPT ![q.token].revoked = TRUE, ![r] = create(q.user, q.token)]
    /\ Put(r, [q EXCEPT !.pc = "audit", !.committed = TRUE])
    /\ UNCHANGED <<users, audited>>
-----------------------------------------------------------------------------
(* The routes that need a signed-in user: current_user, then the roles     *)
(* require_role asks for.  A token may have expired, which logout answers  *)
(* by clearing the cookies and no more.                                    *)
Allowed(q, row) == q.kind \in {"deactivate", "patch"} => Admin \in row.roles

Authenticate(r) ==
    LET q == req[r] IN
    /\ q.kind \in {"logout", "act", "deactivate", "patch"} /\ q.pc = "idle"
    /\ UNCHANGED <<users, sessions, audited>>
    /\ \E u \in Users :
         /\ HasToken(u)
         /\ \/ Put(r, [q EXCEPT !.pc = "failed", !.user = u])
            \/ /\ current_user(u) /\ Allowed(q, users[u])
               /\ Put(r, [q EXCEPT !.user = u, !.before = Committed,
                                   !.row = IF q.kind \in {"deactivate", "patch"}
                                           THEN users[u] ELSE NULL,
                                   !.pc = CASE q.kind = "act"    -> "done"
                                            [] q.kind = "logout" -> "read"
                                            [] OTHER             -> "target"])

(* (mutant: sessions that a refresh made are not among them.) *)
UnrevokedLogins(u) ==
    {s \in Sids : Exists(s) /\ sessions[s].user = u /\ ~sessions[s].revoked
                  /\ sessions[s].from = NULL}

(* logout: SELECT the unrevoked sessions of the user. *)
Unrevoked(u) == {s \in Sids : Exists(s) /\ sessions[s].user = u /\ ~sessions[s].revoked}

ReadSessions(r) ==
    LET todo == Unrevoked(req[r].user) IN
    /\ req[r].kind = "logout" /\ req[r].pc = "read"
    /\ Put(r, [req[r] EXCEPT !.pc = IF todo = {} THEN "done" ELSE "revoke",
                             !.todo = todo, !.before = Committed])
    /\ UNCHANGED <<users, sessions, audited>>

(* AuthService.logout of one of them: revoke, commit. *)
Revoke(r) ==
    /\ req[r].kind = "logout" /\ req[r].pc = "revoke"
    /\ \E s \in req[r].todo :
         /\ sessions' = [sessions EXCEPT ![s].revoked = TRUE]
         /\ Put(r, [req[r] EXCEPT !.todo = @ \ {s}, !.pc = "audit", !.committed = TRUE])
    /\ UNCHANGED <<users, audited>>
-----------------------------------------------------------------------------
(* deactivate_user and patch_user: db.get of the target.  Who changes      *)
(* himself has his row in the identity map since he was authenticated.     *)
ReadTarget(r) ==
    LET q == req[r] IN
    /\ q.kind \in {"deactivate", "patch"} /\ q.pc = "target"
    /\ \E t \in Users, roles \in SUBSET Roles :
         /\ q.kind = "deactivate" => roles = {}
         /\ IF users[t] = NULL
            THEN Put(r, [q EXCEPT !.pc = "failed", !.target = t])
            ELSE Put(r, [q EXCEPT !.pc = "write", !.target = t, !.roles = roles,
                                  !.row = IF t = q.user THEN @ ELSE users[t],
                                  !.before = IF t = q.user THEN @ ELSE Committed])
    /\ UNCHANGED <<users, sessions, audited>>

CommitChange(r) ==
    LET q == req[r] IN
    /\ q.kind \in {"deactivate", "patch"} /\ q.pc = "write"
    /\ users' = [users EXCEPT ![q.target] = Merge(@, q.row, Wanted(q))]
    /\ Put(r, [q EXCEPT !.pc = "audit", !.committed = TRUE])
    /\ UNCHANGED <<sessions, audited>>
-----------------------------------------------------------------------------
AuditAction(q) ==
    CASE q.kind \in {"login", "refresh"} -> "LOGIN_SUCCESS"
      [] q.kind = "logout"               -> "LOGOUT"
      [] OTHER                           -> "USER_ROLE_UPDATED"

(* The side session: its row, its commit; logout goes on to its next row. *)
Audit(r) ==
    LET q == req[r] IN
    /\ q.pc = "audit"
    /\ audited' = audited \cup {<<AuditAction(q), r>>}
    /\ Move(r, IF q.todo = {} THEN "done" ELSE "revoke")
    /\ UNCHANGED <<users, sessions>>

(* A statement or a commit fails: the request ends, what it has committed  *)
(* stays.                                                                  *)
Fail(r) ==
    /\ req[r].pc \notin {"idle", "done", "failed"}
    /\ Move(r, "failed")
    /\ UNCHANGED <<users, sessions, audited>>

(* Time passes a session's absolute_expires_at. *)
Expire(s) ==
    /\ Exists(s) /\ ~sessions[s].expired
    /\ sessions' = [sessions EXCEPT ![s].expired = TRUE]
    /\ UNCHANGED <<users, audited, req>>

Init ==
    /\ users \in [Users -> User \cup {NULL}]
    /\ sessions = [s \in Sids |-> IF s \in Users /\ users[s] # NULL THEN create(s, NULL) ELSE NULL]
    /\ audited = {}
    /\ req \in [Requests -> {Idle(k) : k \in Kinds}]

Next ==
    \/ \E r \in Requests :
         \/ SsoCallback(r) \/ ReadSubject(r) \/ CommitLogin(r)
         \/ ReadToken(r) \/ ReadOwner(r) \/ CommitRefresh(r)
         \/ Authenticate(r)
         \/ ReadSessions(r) \/ Revoke(r)
         \/ ReadTarget(r) \/ CommitChange(r)
         \/ Audit(r) \/ Fail(r)
    \/ \E s \in Sids : Expire(s)

Spec == Init /\ [][Next]_vars
-----------------------------------------------------------------------------
TypeOK ==
    /\ users \in [Users -> User \cup {NULL}]
    /\ sessions \in [Sids -> Session \cup {NULL}]
    /\ audited \subseteq {"AUTH_FAILED", "LOGIN_SUCCESS", "LOGOUT", "USER_ROLE_UPDATED"} \X Requests
    /\ req \in [Requests -> Request]

(* A refresh token is exchanged once: two sessions minted from the same    *)
(* token come from refreshes neither of which began after the other had    *)
(* committed.  Nothing in sessions.py locks the row between the check of   *)
(* revoked_at and the UPDATE, so overlapping ones do both succeed.         *)
TokenExchangedOnce ==
    \A r, s \in Requests :
      (/\ r # s /\ Exists(r) /\ Exists(s)
       /\ sessions[r].from # NULL /\ sessions[r].from = sessions[s].from)
      => r \notin req[s].before /\ s \notin req[r].before

(* After a logout that ran to its end no session of the user is live but   *)
(* those whose login or refresh had not committed when the logout selected *)
(* its rows.                                                               *)
LogoutEndsEarlierSessions ==
    \A r \in Requests :
      req[r].kind = "logout" /\ req[r].pc = "done"
      => \A s \in Sids :
           Exists(s) /\ sessions[s].user = req[r].user /\ ~sessions[s].revoked
           => s \in Requests \ req[r].before

(* What an administrator changed holds: a deactivation is undone by a      *)
(* login of that user and by nothing else, one that committed after        *)
(* deactivate_user had read the row; the roles of a patch hold until a     *)
(* login or another patch of that user, one that committed after           *)
(* patch_user had read it.                                                 *)
AdministrationHolds ==
    \A r \in Committed :
      LET q == req[r]
          later == {req[l] : l \in Committed \ (q.before \cup {r})}
          logins == {l \in later : l.kind = "login" /\ l.user = q.target}
      IN  /\ q.kind = "deactivate" /\ users[q.target].active => logins # {}
          /\ q.kind = "patch" /\ users[q.target].roles # q.roles
             => logins # {} \/ \E l \in later : l.kind = "patch" /\ l.target = q.target

(* A session is minted for an inactive user only if the deactivation fell  *)
(* between the check of is_active and the commit: a login activates who it *)
(* finds inactive, a refresh refuses him.                                  *)
NoSessionForInactive ==
    [][\A r \in Requests :
         sessions[r] = NULL /\ sessions'[r] # NULL /\ ~users'[sessions'[r].user].active
         => req[r].row # NULL /\ req[r].row.active]_vars
=============================================================================
