---------------------------- MODULE PortalUsers -----------------------------
(* Accounts and sessions of the portal: /api/auth and /api/users.           *)
(*                                                                          *)
(* A request reads the caller's row when the auth dependency runs, reads    *)
(* its target later, and writes when it commits; other requests commit in   *)
(* between.  Role changes, disabling and deletion hold one advisory lock    *)
(* from the target's read to the commit; the rest take no lock.  The ORM    *)
(* writes only the columns whose value differs from the one it loaded.      *)
(* Every reading of the clock is a new tick; SecondTicks ticks are the      *)
(* second to which a token's iat is cut.                                    *)
EXTENDS Naturals, FiniteSets

CONSTANTS Users,        \* account ids, used once
          Slots,        \* requests being served at the same time
          NoSlot,       \* nobody holds the advisory lock
          Accounts,     \* the roles a behaviour may start from
          SecondTicks

Roles == {"admin", "auditor", "viewer"}

ASSUME PortalUsersAssumption == /\ IsFiniteSet(Users)
                                /\ Accounts \subseteq [Users -> Roles \cup {"none"}]
                                /\ \A a \in Accounts : \E u \in Users : a[u] = "admin"
                                /\ NoSlot \notin Slots
                                /\ SecondTicks \in Nat \ {0}

VARIABLES users,        \* rows of auth.users
          tokens,       \* session cookies handed out
          revoked,      \* rows of auth.revoked_sessions
          clock,
          lock,         \* holder of pg_advisory_xact_lock
          req,          \* the request in each slot
          closed        \* history: cookies a stamp has closed

usersVars == <<users, tokens, revoked, clock, lock, req, closed>>

\* "none": never created; "gone": deleted.
User == [role : Roles \cup {"none", "gone"}, off : BOOLEAN, mcp : BOOLEAN, stamp : Nat]
Plain(r) == [role |-> r, off |-> FALSE, mcp |-> FALSE, stamp |-> 0]
Exists(u) == users[u].role \in Roles
Token == [user : Users, issued : Nat]

LockedOps == {"update", "disable", "delete"}
AdminOps == LockedOps \cup {"create", "enable", "reset"}
OwnOps == {"logout", "password"}
Idle == [phase |-> "idle"]
Request == [phase : {"ready", "commit", "issue"}, op : AdminOps \cup OwnOps \cup {"login"},
            by : Token, tgt : Users, role : Roles, old : User, new : User]

EnabledAdmins == {u \in Users : users[u].role = "admin" /\ ~users[u].off}

\* Accounts that have changed their first password and are logged in.
UsersInit ==
    /\ \E a \in Accounts : users = [u \in Users |-> Plain(a[u])]
    /\ tokens = {[user |-> u, issued |-> 0] : u \in {v \in Users : Exists(v)}}
    /\ revoked = {} /\ closed = {}
    /\ clock = 0
    /\ lock = NoSlot
    /\ req = [s \in Slots |-> Idle]

-----------------------------------------------------------------------------
(* The auth dependencies.                                                   *)

\* encode_token and decode_token: iat is int(now.timestamp()).
Iat(t) == t.issued - (t.issued % SecondTicks)

\* The comparison in current_user against sessions_invalid_before.
Predates(t) == Iat(t) < users[t.user].stamp

CurrentUser(t) ==
    /\ t \notin revoked
    /\ Exists(t.user)
    /\ ~Predates(t)
    /\ ~users[t.user].off

\* forbid_must_change_password, then require_admin or require_writer.
Rotated(t) == CurrentUser(t) /\ ~users[t.user].mcp
RequireAdmin(t) == Rotated(t) /\ users[t.user].role = "admin"
RequireWriter(t) == Rotated(t) /\ users[t.user].role \in {"admin", "auditor"}

-----------------------------------------------------------------------------
(* Requests arriving.  A refused one changes nothing and is not a step.     *)

Enter(s, phase, op, t, u, role) ==
    /\ req[s] = Idle
    /\ req' = [req EXCEPT ![s] = [phase |-> phase, op |-> op, by |-> t, tgt |-> u, role |-> role,
                                  old |-> users[t.user], new |-> users[t.user]]]
    /\ UNCHANGED <<users, tokens, revoked, clock, lock, closed>>

\* login: the row is read and accepted; the token is made afterwards.
AskLogin(s, u) ==
    /\ Exists(u) /\ ~users[u].off
    /\ Enter(s, "issue", "login", [user |-> u, issued |-> 0], u, "viewer")

AskOwn(s, op, t) ==
    /\ CurrentUser(t)
    /\ Enter(s, "ready", op, t, t.user, "viewer")

\* The router asks for an administrator; nobody changes or deletes himself.
AskAdmin(s, op, t, u, role) ==
    /\ RequireAdmin(t)
    /\ op = "create" <=> users[u].role = "none"
    /\ op \in {"update", "delete"} => u # t.user
    /\ op \notin {"create", "update"} => role = "viewer"
    /\ Enter(s, "ready", op, t, u, role)

-----------------------------------------------------------------------------
(* Handlers up to their commit.                                             *)

\* session.get: the caller's own row is already in the session and is not
\* read again.
Loaded(s) == IF req[s].tgt = req[s].by.user THEN req[s].old ELSE users[req[s].tgt]

At(s, phase, op) == req[s].phase = phase /\ req[s].op = op

Refuse(s) ==
    /\ req' = [req EXCEPT ![s] = Idle]
    /\ UNCHANGED <<users, tokens, revoked, clock, lock, closed>>

Stage(s, old, new) ==
    /\ req' = [req EXCEPT ![s].phase = "commit", ![s].old = old, ![s].new = new]
    /\ UNCHANGED <<users, tokens, revoked, closed>>

NoAdvisoryLock == TRUE      \* mutant

\* _lock_admin_count waits until no other transaction holds the lock.
LockFree == lock = NoSlot

\* _count_admins(session) <= 1, asked when the loaded row is an administrator
LastAdmin(row) == row.role = "admin" /\ Cardinality(EnabledAdmins) <= 1

\* A role equal to the present one writes only updated_at.
UpdateUser(s) ==
    LET row == Loaded(s)
        role == req[s].role
        refused == \/ row.role \notin Roles \/ role = row.role
                   \/ role # "admin" /\ LastAdmin(row)
    IN  /\ At(s, "ready", "update") /\ LockFree
        /\ \/ refused /\ Refuse(s)
           \/ /\ ~refused /\ lock' = s
              /\ clock' = clock + 1
              /\ Stage(s, row, [row EXCEPT !.role = role, !.stamp = clock + 1])

DisableUser(s) ==
    LET row == Loaded(s)
        refused == row.role \notin Roles \/ row.off \/ LastAdmin(row)
    IN  /\ At(s, "ready", "disable") /\ LockFree
        /\ \/ refused /\ Refuse(s)
           \/ /\ ~refused /\ lock' = s
              /\ clock' = clock + 1
              /\ Stage(s, row, [row EXCEPT !.off = TRUE, !.stamp = clock + 1])

DeleteUser(s) ==
    LET row == Loaded(s)
        refused == row.role \notin Roles \/ LastAdmin(row)
    IN  /\ At(s, "ready", "delete") /\ LockFree
        /\ \/ refused /\ Refuse(s)
           \/ /\ ~refused /\ lock' = s
              /\ UNCHANGED clock
              /\ Stage(s, row, Plain("gone"))

EnableForgetsStamp(row) == [row EXCEPT !.off = FALSE, !.stamp = 0]      \* mutant

\* sessions_invalid_before is left alone: the user logs in again.
Enabled(row) == [row EXCEPT !.off = FALSE]

EnableUser(s) ==
    LET row == Loaded(s)
        refused == row.role \notin Roles \/ ~row.off
    IN  /\ At(s, "ready", "enable")
        /\ \/ refused /\ Refuse(s)
           \/ ~refused /\ UNCHANGED <<clock, lock>> /\ Stage(s, row, Enabled(row))

ResetPassword(s) ==
    LET row == Loaded(s)
        refused == row.role \notin Roles
    IN  /\ At(s, "ready", "reset")
        /\ \/ refused /\ Refuse(s)
           \/ /\ ~refused /\ clock' = clock + 1 /\ UNCHANGED lock
              /\ Stage(s, row, [row EXCEPT !.mcp = TRUE, !.stamp = clock + 1])

-----------------------------------------------------------------------------
(* Commits.                                                                 *)

\* The UPDATE names only the columns that differ from the loaded row.
Merge(old, new, now) ==
    [role |-> IF new.role = old.role THEN now.role ELSE new.role,
     off |-> IF new.off = old.off THEN now.off ELSE new.off,
     mcp |-> IF new.mcp = old.mcp THEN now.mcp ELSE new.mcp,
     stamp |-> IF new.stamp = old.stamp THEN now.stamp ELSE new.stamp]

Unlock(s) == lock' = IF lock = s THEN NoSlot ELSE lock

\* Cookies of u issued before a stamp are closed by it.  When two writers
\* overlap, the one that read the clock first may commit last and set the
\* stamp back; the cookies in between are then open again.
Closing(u, stamp) ==
    IF stamp < users[u].stamp
    THEN {t \in closed : t.user # u \/ t.issued < stamp}
    ELSE closed \cup {t \in tokens : t.user = u /\ t.issued < stamp}

\* A row deleted meanwhile matches no UPDATE and the request fails.
CommitUpdate(s) ==
    LET r == req[s] IN
    /\ r.phase = "commit" /\ r.op \in {"update", "disable", "enable", "reset"}
    /\ users' = IF Exists(r.tgt)
                THEN [users EXCEPT ![r.tgt] = Merge(r.old, r.new, users[r.tgt])] ELSE users
    /\ closed' = IF Exists(r.tgt) /\ r.op # "enable" THEN Closing(r.tgt, r.new.stamp) ELSE closed
    /\ Unlock(s)
    /\ req' = [req EXCEPT ![s] = Idle]
    /\ UNCHANGED <<tokens, revoked, clock>>

\* Password history and revoked sessions go with the row; an annotation
\* whose reviewer this is (ON DELETE RESTRICT) makes the DELETE fail.
CommitDelete(s, referenced) ==
    LET u == req[s].tgt IN
    /\ At(s, "commit", "delete")
    /\ \/ referenced /\ UNCHANGED <<users, revoked>>
       \/ /\ ~referenced
          /\ users' = [users EXCEPT ![u] = Plain("gone")]
          /\ revoked' = {t \in revoked : t.user # u}
    /\ Unlock(s)
    /\ req' = [req EXCEPT ![s] = Idle]
    /\ UNCHANGED <<tokens, clock, closed>>

\* The name may have been taken since the request arrived.
CreateUser(s) ==
    LET u == req[s].tgt
        refused == users[u].role # "none"
    IN  /\ At(s, "ready", "create")
        /\ \/ refused /\ Refuse(s)
           \/ /\ ~refused
              /\ users' = [users EXCEPT ![u] = [role |-> req[s].role, off |-> FALSE, mcp |-> TRUE, stamp |-> 0]]
              /\ req' = [req EXCEPT ![s] = Idle]
              /\ UNCHANGED <<tokens, revoked, clock, lock, closed>>

\* The jti is unique and its user must exist, else the INSERT fails.
Revocable(s) == req[s].by \notin revoked /\ Exists(req[s].tgt)

Logout(s) ==
    /\ At(s, "ready", "logout")
    /\ \/ ~Revocable(s) /\ Refuse(s)
       \/ /\ Revocable(s)
          /\ revoked' = revoked \cup {req[s].by}
          /\ req' = [req EXCEPT ![s] = Idle]
          /\ UNCHANGED <<users, tokens, clock, lock, closed>>

\* One transaction: must_change_password and this jti.  The stamp
\* is not touched.  The new cookie is made after the commit.
ChangePassword(s) ==
    LET u == req[s].tgt
        row == req[s].old
    IN  /\ At(s, "ready", "password")
        /\ \/ ~Revocable(s) /\ Refuse(s)
           \/ /\ Revocable(s)
              /\ users' = [users EXCEPT ![u] = Merge(row, [row EXCEPT !.mcp = FALSE], users[u])]
              /\ revoked' = revoked \cup {req[s].by}
              /\ clock' = clock + 1
              /\ req' = [req EXCEPT ![s].phase = "issue"]
              /\ UNCHANGED <<tokens, lock, closed>>

\* encode_token and the Set-Cookie of login and change_password.
Issue(s) ==
    /\ req[s].phase = "issue"
    /\ clock' = clock + 1
    /\ tokens' = tokens \cup {[user |-> req[s].tgt, issued |-> clock + 1]}
    /\ req' = [req EXCEPT ![s] = Idle]
    /\ UNCHANGED <<users, revoked, lock, closed>>

-----------------------------------------------------------------------------
UsersArrive(s) ==
    \/ \E u \in Users : AskLogin(s, u)
    \/ \E op \in OwnOps, t \in tokens : AskOwn(s, op, t)
    \/ \E op \in AdminOps, t \in tokens, u \in Users, role \in Roles : AskAdmin(s, op, t, u, role)

Serve(s) ==
    \/ UpdateUser(s) \/ DisableUser(s) \/ DeleteUser(s) \/ EnableUser(s) \/ ResetPassword(s)
    \/ CommitUpdate(s) \/ CreateUser(s) \/ Logout(s) \/ ChangePassword(s) \/ Issue(s)

UsersNext == \E s \in Slots : UsersArrive(s) \/ Serve(s) \/ \E b \in BOOLEAN : CommitDelete(s, b)

UsersSpec == UsersInit /\ [][UsersNext]_usersVars

-----------------------------------------------------------------------------
UsersTypeOK ==
    /\ users \in [Users -> User]
    /\ tokens \subseteq Token /\ revoked \subseteq Token /\ closed \subseteq Token
    /\ clock \in Nat
    /\ lock \in Slots \cup {NoSlot}
    /\ req \in [Slots -> Request \cup {Idle}]

\* "Two concurrent demotions cannot race the system into zero admins": in
\* every interleaving of role changes, disabling, deletion and the unlocked
\* handlers there is an administrator who is not disabled.
AdminRemains == EnabledAdmins # {}

\* A cookie that a role change, a password reset or a disabling has closed is
\* not accepted again, through enabling, password changes and whole-second
\* iat, unless a stamp read earlier was committed over it.
SessionsClosed == \A t \in closed : ~CurrentUser(t)

=============================================================================
