---------------------------- MODULE PortalProofs ----------------------------
(* What the portal keeps for any number of accounts, findings, runs and     *)
(* requests served at the same time: an administrator who can act, closed   *)
(* sessions, annotations that agree with their history and their runs, and  *)
(* metrics that count what the lists show.                                  *)
EXTENDS Portal, FiniteSetTheorems, TLAPS

Running(s, phase, ops) == req[s].phase = phase /\ req[s].op \in ops

\* An administrator's request carries the row that let him in, and nobody
\* asks for a role or a deletion of his own account: _count_admins is asked
\* about the row of an administrator even when that row is an old one.
Asked(s) ==
    Running(s, "ready", AdminOps) =>
        /\ req[s].old.role = "admin"
        /\ req[s].op \in {"update", "delete"} => req[s].tgt # req[s].by.user

\* What the handlers may have changed in the row they are about to write.
Shaped(s) ==
    /\ Running(s, "commit", {"update", "reset"}) => req[s].new.off = req[s].old.off
    /\ Running(s, "commit", {"enable", "reset"}) => req[s].new.role = req[s].old.role
    /\ Running(s, "commit", {"enable"}) => ~req[s].new.off

\* A staged removal is harmless: it makes an administrator, its target is
\* none, or there is another one.
Harmless(s) ==
    \/ req[s].op = "update" /\ req[s].new.role = "admin"
    \/ users[req[s].tgt].role \in Roles \ {"admin"}
    \/ \E v \in EnabledAdmins : v # req[s].tgt

\* Who has staged one holds the lock.
Staged(s) == Running(s, "commit", LockedOps) => lock = s /\ Harmless(s)

SlotInv(s) == Asked(s) /\ Shaped(s) /\ Staged(s)

AdminInv == UsersTypeOK /\ AdminRemains /\ \A s \in Slots : SlotInv(s)

-----------------------------------------------------------------------------
(* Rows and requests.                                                       *)

\* The ORM's UPDATE writes a row of the table's type.
LEMMA MergeTyped ==
    ASSUME NEW a \in User, NEW b \in User, NEW c \in User
    PROVE  Merge(a, b, c) \in User
  BY DEF Merge, User

\* The rows the handlers make of the one they loaded.
LEMMA RowEdits ==
    ASSUME NEW row \in User, NEW c \in Nat
    PROVE  /\ \A role \in Roles : LET new == [row EXCEPT !.role = role, !.stamp = c]
                                  IN  new \in User /\ new.off = row.off /\ new.role = role
           /\ [row EXCEPT !.off = TRUE, !.stamp = c] \in User
           /\ LET new == [row EXCEPT !.mcp = TRUE, !.stamp = c]
              IN  new \in User /\ new.off = row.off /\ new.role = row.role
           /\ LET new == [row EXCEPT !.mcp = FALSE]
              IN  new \in User /\ new.off = row.off /\ new.role = row.role
  BY Zenon DEF User

\* When _count_admins(session) > 1, there is an administrator besides any
\* given account.
LEMMA SecondAdmin ==
    ASSUME NEW u, ~(Cardinality(EnabledAdmins) <= 1)
    PROVE  \E v \in EnabledAdmins : v # u
  <1>1. SUFFICES ASSUME \A v \in EnabledAdmins : v = u PROVE Cardinality(EnabledAdmins) <= 1
    OBVIOUS
  <1>2. EnabledAdmins \subseteq {u}
    BY <1>1
  <1>3. IsFiniteSet({u}) /\ Cardinality({u}) = 1
    BY FS_Singleton
  <1>4. IsFiniteSet(EnabledAdmins) /\ Cardinality(EnabledAdmins) <= Cardinality({u})
    BY <1>2, <1>3, FS_Subset
  <1> QED
    BY <1>3, <1>4

\* A request in a slot that is not idle has the fields of a request.
LEMMA RequestTyped ==
    ASSUME UsersTypeOK, NEW s \in Slots, req[s].phase # "idle"
    PROVE  /\ req[s] \in Request
           /\ req[s].tgt \in Users /\ req[s].by \in Token /\ req[s].by.user \in Users
           /\ req[s].role \in Roles /\ req[s].old \in User /\ req[s].new \in User
           /\ Loaded(s) \in User /\ users[req[s].tgt] \in User
  <1>1. req[s] \in Request
    BY DEF UsersTypeOK, Idle
  <1>2. /\ req[s].tgt \in Users /\ req[s].by \in Token
        /\ req[s].role \in Roles /\ req[s].old \in User /\ req[s].new \in User
    BY <1>1 DEF Request
  <1>3. req[s].by.user \in Users
    BY <1>2 DEF Token
  <1>4. users[req[s].tgt] \in User
    BY <1>2 DEF UsersTypeOK
  <1> QED
    BY <1>1, <1>2, <1>3, <1>4 DEF Loaded

\* A handler that stages a row leaves its request typed and every other one
\* as it was.
LEMMA StageTyped ==
    ASSUME UsersTypeOK, NEW s \in Slots, req[s].phase = "ready",
           NEW old \in User, NEW new \in User, Stage(s, old, new)
    PROVE  /\ req' \in [Slots -> Request \cup {Idle}]
           /\ \A q \in Slots : q # s => req'[q] = req[q]
           /\ req'[s].phase = "commit" /\ req'[s].old = old /\ req'[s].new = new
           /\ req'[s].op = req[s].op /\ req'[s].tgt = req[s].tgt
  <1> DEFINE r == [req[s] EXCEPT !.phase = "commit", !.old = old, !.new = new]
  <1>1. req[s] \in Request
    BY RequestTyped
  <1>2. r \in Request
    BY <1>1 DEF Request
  <1>3. req' = [req EXCEPT ![s] = r]
    BY <1>1 DEF Stage, UsersTypeOK
  <1> QED
    BY <1>1, <1>2, <1>3 DEF UsersTypeOK, Request

-----------------------------------------------------------------------------
(* Which steps keep the invariant.                                          *)

\* Nothing is asked of a slot whose request is answered.
LEMMA AnsweredInv ==
    ASSUME NEW s \in Slots, req'[s].phase \notin {"ready", "commit"}
    PROVE  SlotInv(s)'
  BY DEF SlotInv, Asked, Shaped, Staged, Running

\* A step of slot s that takes no administrator away and changes the role of
\* no account that has one keeps what the other slots rely on.
LEMMA GentleStep ==
    ASSUME AdminInv, UsersTypeOK', NEW s \in Slots, SlotInv(s)',
           EnabledAdmins \subseteq EnabledAdmins',
           \A u \in Users : users[u].role \in Roles => users'[u].role = users[u].role,
           \A q \in Slots : q # s => req'[q] = req[q] /\ (lock = q => lock' = q)
    PROVE  AdminInv'
  <1>1. AdminRemains'
    BY DEF AdminInv, AdminRemains
  <1>2. ASSUME NEW q \in Slots, q # s
        PROVE  SlotInv(q)'
    <2>1. SlotInv(q) /\ req'[q] = req[q] /\ (lock = q => lock' = q)
      BY <1>2 DEF AdminInv
    <2>2. Asked(q)' /\ Shaped(q)'
      BY <2>1 DEF SlotInv, Asked, Shaped, Running
    <2>3. ASSUME Running(q, "commit", LockedOps)'
          PROVE  lock' = q /\ Harmless(q)'
      <3>1. Running(q, "commit", LockedOps)
        BY <2>1, <2>3 DEF Running
      <3>2. lock = q /\ Harmless(q)
        BY <2>1, <3>1 DEF SlotInv, Staged
      <3>3. req[q].tgt \in Users
        BY <3>1, RequestTyped DEF Running, AdminInv
      <3>4. Harmless(q)'
        BY <2>1, <3>2, <3>3 DEF Harmless
      <3> QED
        BY <2>1, <3>2, <3>4
    <2> QED
      BY <2>2, <2>3 DEF SlotInv, Staged
  <1> QED
    BY <1>1, <1>2 DEF AdminInv

\* While slot s holds the lock nobody else has staged a removal.
LEMMA LockedStep ==
    ASSUME AdminInv, UsersTypeOK', NEW s \in Slots, SlotInv(s)', lock = s, AdminRemains',
           \A q \in Slots : q # s => req'[q] = req[q]
    PROVE  AdminInv'
  <1>1. ASSUME NEW q \in Slots, q # s
        PROVE  SlotInv(q)'
    <2>1. SlotInv(q) /\ req'[q] = req[q]
      BY <1>1 DEF AdminInv
    <2>2. ~Running(q, "commit", LockedOps)
      BY <1>1, <2>1 DEF SlotInv, Staged
    <2> QED
      BY <2>1, <2>2 DEF SlotInv, Asked, Shaped, Staged, Running
  <1> QED
    BY <1>1 DEF AdminInv

\* A step that touches neither the accounts nor anybody else's request.
LEMMA OwnStep ==
    ASSUME AdminInv, UsersTypeOK', NEW s \in Slots, SlotInv(s)', users' = users,
           \A q \in Slots : q # s => req'[q] = req[q] /\ (lock = q => lock' = q)
    PROVE  AdminInv'
  <1>1. EnabledAdmins' = EnabledAdmins
    BY DEF EnabledAdmins
  <1> QED
    BY <1>1, GentleStep

-----------------------------------------------------------------------------
(* Requests arriving.                                                       *)

\* What Enter leaves behind.
LEMMA EnterTyped ==
    ASSUME UsersTypeOK, NEW s \in Slots, NEW phase \in {"ready", "issue"},
           NEW op \in AdminOps \cup OwnOps \cup {"login"}, NEW t \in Token,
           NEW u \in Users, NEW role \in Roles, Enter(s, phase, op, t, u, role)
    PROVE  /\ UsersTypeOK'
           /\ \A q \in Slots : q # s => req'[q] = req[q]
           /\ req'[s].phase = phase /\ req'[s].op = op /\ req'[s].by = t
           /\ req'[s].tgt = u /\ req'[s].old = users[t.user] /\ req'[s].new = users[t.user]
  <1> DEFINE r == [phase |-> phase, op |-> op, by |-> t, tgt |-> u, role |-> role,
                   old |-> users[t.user], new |-> users[t.user]]
  <1>1. t.user \in Users
    BY DEF Token
  <1>2. users[t.user] \in User
    BY <1>1 DEF UsersTypeOK
  <1>3. r \in Request
    BY <1>2 DEF Request
  <1>4. req' = [req EXCEPT ![s] = r]
    BY DEF Enter
  <1>5. req' \in [Slots -> Request \cup {Idle}]
    BY <1>3, <1>4 DEF UsersTypeOK
  <1>6. UsersTypeOK'
    BY <1>5 DEF UsersTypeOK, Enter
  <1> HIDE DEF r
  <1>7. req'[s] = r /\ \A q \in Slots : q # s => req'[q] = req[q]
    BY <1>4 DEF UsersTypeOK
  <1> QED
    BY <1>6, <1>7 DEF r

\* A request that passes the auth dependency keeps the invariant.
LEMMA ArriveKeeps ==
    ASSUME AdminInv, NEW s \in Slots, UsersArrive(s)
    PROVE  AdminInv'
  <1> USE DEF AdminInv
  <1>1. CASE \E u \in Users : AskLogin(s, u)
    <2>1. PICK u \in Users : AskLogin(s, u)
      BY <1>1
    <2> DEFINE t == [user |-> u, issued |-> 0]
    <2>2. t \in Token /\ "viewer" \in Roles
      BY DEF Token, Roles
    <2>3. Enter(s, "issue", "login", t, u, "viewer")
      BY <2>1 DEF AskLogin
    <2> HIDE DEF t
    <2>4. /\ UsersTypeOK' /\ \A q \in Slots : q # s => req'[q] = req[q]
          /\ req'[s].phase = "issue"
      BY <2>2, <2>3, EnterTyped
    <2>5. SlotInv(s)'
      BY <2>4, AnsweredInv
    <2> QED
      BY <2>3, <2>4, <2>5, OwnStep DEF Enter
  <1>2. CASE \E op \in OwnOps, t \in tokens : AskOwn(s, op, t)
    <2>1. PICK op \in OwnOps, t \in tokens : AskOwn(s, op, t)
      BY <1>2
    <2>2. t \in Token /\ t.user \in Users /\ "viewer" \in Roles
      BY DEF Token, Roles, UsersTypeOK
    <2>3. Enter(s, "ready", op, t, t.user, "viewer")
      BY <2>1 DEF AskOwn
    <2>4. /\ UsersTypeOK' /\ \A q \in Slots : q # s => req'[q] = req[q]
          /\ req'[s].phase = "ready" /\ req'[s].op = op
      BY <2>2, <2>3, EnterTyped
    <2>5. op \notin AdminOps
      BY DEF OwnOps, AdminOps, LockedOps
    <2>6. SlotInv(s)'
      BY <2>4, <2>5 DEF SlotInv, Asked, Shaped, Staged, Running
    <2> QED
      BY <2>3, <2>4, <2>6, OwnStep DEF Enter
  <1>3. CASE \E op \in AdminOps, t \in tokens, u \in Users, role \in Roles :
                 AskAdmin(s, op, t, u, role)
    <2>1. PICK op \in AdminOps, t \in tokens, u \in Users, role \in Roles :
              AskAdmin(s, op, t, u, role)
      BY <1>3
    <2>2. t \in Token
      BY DEF UsersTypeOK
    <2>3. Enter(s, "ready", op, t, u, role)
      BY <2>1 DEF AskAdmin
    <2>4. /\ UsersTypeOK' /\ \A q \in Slots : q # s => req'[q] = req[q]
          /\ req'[s].phase = "ready" /\ req'[s].op = op /\ req'[s].by = t
          /\ req'[s].tgt = u /\ req'[s].old = users[t.user]
      BY <2>2, <2>3, EnterTyped
    <2>5. users[t.user].role = "admin" /\ (op \in {"update", "delete"} => u # t.user)
      BY <2>1 DEF AskAdmin, RequireAdmin
    <2>6. SlotInv(s)'
      BY <2>4, <2>5 DEF SlotInv, Asked, Shaped, Staged, Running
    <2> QED
      BY <2>3, <2>4, <2>6, OwnStep DEF Enter
  <1> QED
    BY <1>1, <1>2, <1>3 DEF UsersArrive

-----------------------------------------------------------------------------
(* Handlers up to their commit.                                             *)

\* A refused request leaves everything but its slot alone.
LEMMA RefuseKeeps ==
    ASSUME AdminInv, NEW s \in Slots, Refuse(s)
    PROVE  AdminInv'
  <1>1. req' = [req EXCEPT ![s] = Idle] /\ req \in [Slots -> Request \cup {Idle}]
    BY DEF Refuse, AdminInv, UsersTypeOK
  <1>2. req' \in [Slots -> Request \cup {Idle}]
    BY <1>1
  <1>3. req'[s] = Idle /\ \A q \in Slots : q # s => req'[q] = req[q]
    BY <1>1
  <1>4. SlotInv(s)'
    BY <1>3, AnsweredInv DEF Idle
  <1>5. UsersTypeOK'
    BY <1>2 DEF Refuse, AdminInv, UsersTypeOK
  <1> QED
    BY <1>3, <1>4, <1>5, OwnStep DEF Refuse

\* A handler that stages a row under the lock keeps the invariant when what
\* it stages is harmless.
LEMMA StageLockedKeeps ==
    ASSUME AdminInv, NEW s \in Slots, req[s].phase = "ready", req[s].op \in LockedOps,
           LockFree, lock' = s, clock' \in Nat,
           NEW old \in User, NEW new \in User, Stage(s, old, new),
           req[s].op = "update" => new.off = old.off,
           \/ req[s].op = "update" /\ new.role = "admin"
           \/ users[req[s].tgt].role \in Roles \ {"admin"}
           \/ \E v \in EnabledAdmins : v # req[s].tgt
    PROVE  AdminInv'
  <1>1. /\ req' \in [Slots -> Request \cup {Idle}]
        /\ \A q \in Slots : q # s => req'[q] = req[q]
        /\ req'[s].phase = "commit" /\ req'[s].old = old /\ req'[s].new = new
        /\ req'[s].op = req[s].op /\ req'[s].tgt = req[s].tgt
    BY StageTyped DEF AdminInv
  <1>2. users' = users /\ EnabledAdmins' = EnabledAdmins
    BY DEF Stage, EnabledAdmins
  <1>3. UsersTypeOK'
    BY <1>1 DEF AdminInv, UsersTypeOK, Stage
  <1>4. Harmless(s)'
    BY <1>1, <1>2 DEF Harmless
  <1>5. SlotInv(s)'
    BY <1>1, <1>4 DEF SlotInv, Asked, Shaped, Staged, Running, LockedOps
  <1>6. \A q \in Slots : lock # q
    BY PortalUsersAssumption DEF LockFree
  <1> QED
    BY <1>1, <1>2, <1>3, <1>5, <1>6, OwnStep

\* The three handlers that take the lock.
LEMMA LockedHandlersKeep ==
    ASSUME AdminInv, NEW s \in Slots, UpdateUser(s) \/ DisableUser(s) \/ DeleteUser(s)
    PROVE  AdminInv'
  <1> DEFINE row == Loaded(s)
  <1>1. CASE Refuse(s)
    BY <1>1, RefuseKeeps
  <1>2. CASE ~Refuse(s)
    <2>1. req[s].phase = "ready" /\ req[s].op \in LockedOps /\ LockFree
      BY DEF UpdateUser, DisableUser, DeleteUser, At, LockedOps
    <2>2. /\ row \in User /\ req[s].role \in Roles /\ req[s].tgt \in Users
          /\ users[req[s].tgt] \in User /\ clock \in Nat /\ clock + 1 \in Nat
      BY <2>1, RequestTyped DEF AdminInv, UsersTypeOK
    <2>3. /\ req[s].old.role = "admin"
          /\ req[s].op \in {"update", "delete"} => req[s].tgt # req[s].by.user
      BY <2>1 DEF AdminInv, SlotInv, Asked, Running, AdminOps
    <2>4. row.role # "admin" => row = users[req[s].tgt]
      BY <2>3 DEF Loaded
    <2>5. /\ row.role \in Roles /\ lock' = s /\ clock' \in Nat
          /\ ~LastAdmin(row) \/ (req[s].op = "update" /\ req[s].role = "admin")
      BY <1>2, <2>2 DEF UpdateUser, DisableUser, DeleteUser, At
    <2>6. \/ req[s].op = "update" /\ req[s].role = "admin"
          \/ users[req[s].tgt].role \in Roles \ {"admin"}
          \/ \E v \in EnabledAdmins : v # req[s].tgt
      <3>1. CASE row.role = "admin" /\ ~LastAdmin(row)
        BY <3>1, SecondAdmin DEF LastAdmin
      <3>2. CASE row.role # "admin"
        BY <2>4, <2>5, <3>2
      <3> QED
        BY <2>5, <3>1, <3>2
    <2> HIDE DEF row
    <2>7. CASE UpdateUser(s)
      <3> DEFINE new == [row EXCEPT !.role = req[s].role, !.stamp = clock + 1]
      <3>0. \A role \in Roles : LET edit == [row EXCEPT !.role = role, !.stamp = clock + 1]
                             IN  edit \in User /\ edit.off = row.off /\ edit.role = role
        BY <2>2, RowEdits, Zenon
      <3>1. new \in User /\ new.off = row.off /\ new.role = req[s].role
        BY <2>2, <3>0, Zenon
      <3>2. Stage(s, row, new)
        BY <1>2, <2>7 DEF UpdateUser, row
      <3> HIDE DEF new
      <3> QED
        BY <2>1, <2>2, <2>5, <2>6, <3>1, <3>2, StageLockedKeeps
    <2>8. CASE DisableUser(s)
      <3> DEFINE new == [row EXCEPT !.off = TRUE, !.stamp = clock + 1]
      <3>0. req[s].op = "disable"
        BY <2>8 DEF DisableUser, At
      <3>1. new \in User
        BY <2>2, RowEdits, Zenon
      <3>2. Stage(s, row, new)
        BY <1>2, <2>8 DEF DisableUser, row
      <3> HIDE DEF new
      <3> QED
        BY <3>0, <2>1, <2>2, <2>5, <2>6, <3>1, <3>2, StageLockedKeeps
    <2>9. CASE DeleteUser(s)
      <3>1. Plain("gone") \in User /\ req[s].op = "delete"
        BY <2>9 DEF User, Plain, DeleteUser, At
      <3>2. Stage(s, row, Plain("gone"))
        BY <1>2, <2>9 DEF DeleteUser, row
      <3> QED
        BY <2>1, <2>2, <2>5, <2>6, <3>1, <3>2, StageLockedKeeps
    <2> QED
      BY <2>7, <2>8, <2>9
  <1> QED
    BY <1>1, <1>2

\* Enabling and the password reset stage without the lock.
LEMMA UnlockedHandlersKeep ==
    ASSUME AdminInv, NEW s \in Slots, EnableUser(s) \/ ResetPassword(s)
    PROVE  AdminInv'
  <1> DEFINE row == Loaded(s)
  <1>1. CASE Refuse(s)
    BY <1>1, RefuseKeeps
  <1>2. CASE ~Refuse(s)
    <2>1. req[s].phase = "ready" /\ req[s].op \in {"enable", "reset"}
      BY DEF EnableUser, ResetPassword, At
    <2>2. row \in User /\ clock + 1 \in Nat /\ lock' = lock /\ clock' \in Nat
      BY <1>2, <2>1, RequestTyped DEF AdminInv, UsersTypeOK, EnableUser, ResetPassword
    <2> HIDE DEF row
    <2>3. PICK new \in User :
              /\ Stage(s, row, new) /\ new.role = row.role
              /\ req[s].op = "enable" => ~new.off
              /\ req[s].op = "reset" => new.off = row.off
      <3>1. CASE EnableUser(s)
        <4>1. Enabled(row) \in User /\ Enabled(row).role = row.role /\ ~Enabled(row).off
          BY <2>2 DEF User, Enabled
        <4>2. Stage(s, row, Enabled(row)) /\ req[s].op = "enable"
          BY <1>2, <3>1 DEF EnableUser, At, row
        <4> QED
          BY <4>1, <4>2
      <3>2. CASE ResetPassword(s)
        <4> DEFINE new == [row EXCEPT !.mcp = TRUE, !.stamp = clock + 1]
        <4>1. new \in User /\ new.role = row.role /\ new.off = row.off
          BY <2>2, RowEdits, Zenon
        <4>2. Stage(s, row, new) /\ req[s].op = "reset"
          BY <1>2, <3>2 DEF ResetPassword, At, row
        <4> HIDE DEF new
        <4> QED
          BY <4>1, <4>2
      <3> QED
        BY <3>1, <3>2
    <2>4. /\ req' \in [Slots -> Request \cup {Idle}]
          /\ \A q \in Slots : q # s => req'[q] = req[q]
          /\ req'[s].phase = "commit" /\ req'[s].old = row /\ req'[s].new = new
          /\ req'[s].op = req[s].op
      BY <2>1, <2>2, <2>3, StageTyped DEF AdminInv
    <2>5. UsersTypeOK'
      BY <2>2, <2>3, <2>4 DEF AdminInv, UsersTypeOK, Stage
    <2>6. SlotInv(s)'
      BY <2>1, <2>3, <2>4 DEF SlotInv, Asked, Shaped, Staged, Running, LockedOps
    <2> QED
      BY <2>2, <2>3, <2>4, <2>5, <2>6, OwnStep DEF Stage
  <1> QED
    BY <1>1, <1>2

-----------------------------------------------------------------------------
(* Commits.                                                                 *)

\* A request that is answered leaves the others as they were.
LEMMA Answered ==
    ASSUME UsersTypeOK, NEW s \in Slots, req' = [req EXCEPT ![s] = Idle]
    PROVE  /\ req' \in [Slots -> Request \cup {Idle}]
           /\ \A q \in Slots : q # s => req'[q] = req[q]
           /\ req'[s].phase = "idle" /\ SlotInv(s)'
  <1>1. req \in [Slots -> Request \cup {Idle}]
    BY DEF UsersTypeOK
  <1>2. /\ req' \in [Slots -> Request \cup {Idle}]
        /\ req'[s] = Idle /\ \A q \in Slots : q # s => req'[q] = req[q]
    BY <1>1
  <1> QED
    BY <1>2, AnsweredInv DEF Idle

\* The commit gives the lock back and takes nobody else's.
LEMMA UnlockTyped ==
    ASSUME UsersTypeOK, NEW s \in Slots, Unlock(s)
    PROVE  /\ lock' \in Slots \cup {NoSlot}
           /\ \A q \in Slots : q # s /\ lock = q => lock' = q
  BY DEF Unlock, UsersTypeOK

\* Writing one row over an account touches nobody else.
LEMMA OneRow ==
    ASSUME UsersTypeOK, NEW u \in Users, NEW row \in User, users' = [users EXCEPT ![u] = row]
    PROVE  /\ users' \in [Users -> User]
           /\ users'[u] = row
           /\ \A v \in Users : v # u => users'[v] = users[v]
           /\ \A v \in EnabledAdmins : v # u => v \in EnabledAdmins'
  <1>1. users \in [Users -> User]
    BY DEF UsersTypeOK
  <1>2. /\ users' \in [Users -> User] /\ users'[u] = row
        /\ \A v \in Users : v # u => users'[v] = users[v]
    BY <1>1
  <1> QED
    BY <1>2 DEF EnabledAdmins

\* What Merge does to role and off.
LEMMA MergeColumns ==
    ASSUME NEW old \in User, NEW new \in User, NEW now \in User
    PROVE  /\ Merge(old, new, now) \in User
           /\ new.role = old.role => Merge(old, new, now).role = now.role
           /\ now.role = new.role => Merge(old, new, now).role = now.role
           /\ new.off = old.off => Merge(old, new, now).off = now.off
           /\ ~new.off /\ ~now.off => ~Merge(old, new, now).off
  <1>1. /\ Merge(old, new, now).role = IF new.role = old.role THEN now.role ELSE new.role
        /\ Merge(old, new, now).off = IF new.off = old.off THEN now.off ELSE new.off
    BY DEF Merge
  <1> QED
    BY <1>1, MergeTyped, Zenon

\* Every UPDATE that a handler commits keeps the invariant.
LEMMA CommitUpdateKeeps ==
    ASSUME AdminInv, NEW s \in Slots, CommitUpdate(s)
    PROVE  AdminInv'
  <1> DEFINE r == req[s]
             u == r.tgt
             row == Merge(r.old, r.new, users[u])
  <1>1. r.phase = "commit" /\ r.op \in {"update", "disable", "enable", "reset"}
    BY DEF CommitUpdate
  <1>2. UsersTypeOK /\ SlotInv(s)
    BY DEF AdminInv
  <1>3. u \in Users /\ r.old \in User /\ r.new \in User /\ users[u] \in User
    BY <1>1, <1>2, RequestTyped
  <1>4. /\ row \in User
        /\ r.new.role = r.old.role => row.role = users[u].role
        /\ users[u].role = r.new.role => row.role = users[u].role
        /\ r.new.off = r.old.off => row.off = users[u].off
        /\ ~r.new.off /\ ~users[u].off => ~row.off
    BY <1>3, MergeColumns
  <1>5. /\ req' \in [Slots -> Request \cup {Idle}]
        /\ \A q \in Slots : q # s => req'[q] = req[q]
        /\ SlotInv(s)'
    BY <1>2, Answered DEF CommitUpdate
  <1>6. lock' \in Slots \cup {NoSlot} /\ \A q \in Slots : q # s /\ lock = q => lock' = q
    BY <1>2, UnlockTyped DEF CommitUpdate
  <1>7. closed' \subseteq Token
    BY <1>2 DEF CommitUpdate, Closing, UsersTypeOK
  <1>8. users' = users \/ users' = [users EXCEPT ![u] = row]
    BY DEF CommitUpdate
  <1>9. users' \in [Users -> User]
    BY <1>2, <1>3, <1>4, <1>8, OneRow DEF UsersTypeOK
  <1>10. UsersTypeOK'
    BY <1>2, <1>5, <1>6, <1>7, <1>9 DEF UsersTypeOK, CommitUpdate
  <1>11. CASE users' = users
    BY <1>5, <1>6, <1>10, <1>11, OwnStep
  <1>12. CASE users' = [users EXCEPT ![u] = row]
    <2>1. /\ users'[u] = row
          /\ \A v \in Users : v # u => users'[v] = users[v]
          /\ \A v \in EnabledAdmins : v # u => v \in EnabledAdmins'
      BY <1>2, <1>3, <1>4, <1>12, OneRow
    <2>2. CASE r.op \in {"enable", "reset"}
      <3>1. r.new.role = r.old.role /\ (r.new.off = r.old.off \/ ~r.new.off)
        BY <1>1, <1>2, <2>2 DEF SlotInv, Shaped, Running
      <3>2. row.role = users[u].role /\ (~users[u].off => ~row.off)
        BY <1>4, <3>1, Zenon
      <3>3. EnabledAdmins \subseteq EnabledAdmins'
        BY <2>1, <3>2 DEF EnabledAdmins
      <3> QED
        BY <1>5, <1>6, <1>10, <2>1, <3>2, <3>3, GentleStep
    <2>3. CASE r.op \in {"update", "disable"}
      <3>1. lock = s /\ Harmless(s) /\ (r.op = "update" => r.new.off = r.old.off)
        BY <1>1, <1>2, <2>3 DEF SlotInv, Staged, Shaped, Running, LockedOps
      <3>2. PICK w \in EnabledAdmins : TRUE
        BY DEF AdminInv, AdminRemains
      <3>3. CASE r.op = "update" /\ r.new.role = "admin"
        <4>1. users[u].role = "admin" => row.role = "admin"
          BY <1>4, <3>3
        <4>2. row.off = users[u].off
          BY <1>4, <3>1, <3>3
        <4>3. w \in EnabledAdmins'
          BY <2>1, <3>2, <4>1, <4>2 DEF EnabledAdmins
        <4> QED
          BY <4>3, <1>5, <1>10, <3>1, LockedStep DEF AdminRemains
      <3>4. CASE users[u].role \in Roles \ {"admin"}
        <4>1. w # u
          BY <3>2, <3>4 DEF EnabledAdmins
        <4> QED
          BY <4>1, <2>1, <3>2, <1>5, <1>10, <3>1, LockedStep DEF AdminRemains
      <3>5. CASE \E v \in EnabledAdmins : v # u
        BY <3>5, <2>1, <1>5, <1>10, <3>1, LockedStep DEF AdminRemains
      <3> QED
        BY <3>1, <3>3, <3>4, <3>5 DEF Harmless
    <2> QED
      BY <1>1, <2>2, <2>3
  <1> QED
    BY <1>8, <1>11, <1>12

\* A deletion, refused by the database or not, keeps the invariant.
LEMMA CommitDeleteKeeps ==
    ASSUME AdminInv, NEW s \in Slots, NEW b \in BOOLEAN, CommitDelete(s, b)
    PROVE  AdminInv'
  <1> DEFINE u == req[s].tgt
  <1>1. req[s].phase = "commit" /\ req[s].op = "delete"
    BY DEF CommitDelete, At
  <1>2. UsersTypeOK /\ SlotInv(s)
    BY DEF AdminInv
  <1>3. u \in Users /\ Plain("gone") \in User
    BY <1>1, <1>2, RequestTyped DEF Plain, User
  <1>4. /\ req' \in [Slots -> Request \cup {Idle}]
        /\ \A q \in Slots : q # s => req'[q] = req[q]
        /\ SlotInv(s)'
    BY <1>2, Answered DEF CommitDelete
  <1>5. lock' \in Slots \cup {NoSlot} /\ \A q \in Slots : q # s /\ lock = q => lock' = q
    BY <1>2, UnlockTyped DEF CommitDelete
  <1>6. /\ users' = users \/ users' = [users EXCEPT ![u] = Plain("gone")]
        /\ revoked' \subseteq revoked
    BY DEF CommitDelete
  <1>7. users' \in [Users -> User]
    BY <1>2, <1>3, <1>6, OneRow DEF UsersTypeOK
  <1>8. UsersTypeOK'
    BY <1>2, <1>4, <1>5, <1>6, <1>7 DEF UsersTypeOK, CommitDelete
  <1>9. CASE users' = users
    BY <1>4, <1>5, <1>8, <1>9, OwnStep
  <1>10. CASE users' = [users EXCEPT ![u] = Plain("gone")]
    <2>1. lock = s /\ Harmless(s)
      BY <1>1, <1>2 DEF SlotInv, Staged, Running, LockedOps
    <2>2. \A v \in EnabledAdmins : v # u => v \in EnabledAdmins'
      BY <1>2, <1>3, <1>10, OneRow
    <2>3. \E v \in EnabledAdmins : v # u
      BY <1>1, <2>1 DEF Harmless, AdminInv, AdminRemains, EnabledAdmins
    <2> QED
      BY <1>4, <1>8, <2>1, <2>2, <2>3, LockedStep DEF AdminRemains
  <1> QED
    BY <1>6, <1>9, <1>10

\* Creating an account, logging out, changing one's password and issuing a
\* cookie keep the invariant.
LEMMA OthersKeep ==
    ASSUME AdminInv, NEW s \in Slots, CreateUser(s) \/ Logout(s) \/ ChangePassword(s) \/ Issue(s)
    PROVE  AdminInv'
  <1> DEFINE u == req[s].tgt
  <1>1. UsersTypeOK /\ clock + 1 \in Nat
    BY DEF AdminInv, UsersTypeOK
  <1>2. req[s].phase # "idle"
    BY DEF CreateUser, Logout, ChangePassword, Issue, At
  <1>3. /\ req[s] \in Request /\ u \in Users /\ req[s].by \in Token /\ req[s].role \in Roles
        /\ req[s].old \in User /\ users[u] \in User
    BY <1>1, <1>2, RequestTyped
  <1>4. CASE Refuse(s)
    BY <1>4, RefuseKeeps
  <1>5. CASE CreateUser(s) /\ ~Refuse(s)
    <2> DEFINE row == [role |-> req[s].role, off |-> FALSE, mcp |-> TRUE, stamp |-> 0]
    <2>1. row \in User /\ users[u].role = "none" /\ users' = [users EXCEPT ![u] = row]
      BY <1>3, <1>5 DEF CreateUser, User
    <2> HIDE DEF row
    <2>2. /\ users' \in [Users -> User]
          /\ \A v \in Users : v # u => users'[v] = users[v]
          /\ \A v \in EnabledAdmins : v # u => v \in EnabledAdmins'
      BY <1>1, <1>3, <2>1, OneRow
    <2>3. /\ req' \in [Slots -> Request \cup {Idle}]
          /\ \A q \in Slots : q # s => req'[q] = req[q]
          /\ SlotInv(s)' /\ lock' = lock
      BY <1>1, <1>5, Answered DEF CreateUser
    <2>4. UsersTypeOK'
      BY <1>1, <1>5, <2>2, <2>3 DEF UsersTypeOK, CreateUser
    <2>5. u \notin EnabledAdmins /\ users[u].role \notin Roles
      BY <2>1 DEF EnabledAdmins, Roles
    <2>6. EnabledAdmins \subseteq EnabledAdmins'
      BY <2>2, <2>5
    <2> QED
      BY <2>2, <2>3, <2>4, <2>5, <2>6, GentleStep
  <1>6. CASE Logout(s) /\ ~Refuse(s)
    <2>1. /\ req' = [req EXCEPT ![s] = Idle] /\ revoked' = revoked \cup {req[s].by}
          /\ UNCHANGED <<users, tokens, clock, lock, closed>>
      BY <1>6 DEF Logout
    <2>2. /\ req' \in [Slots -> Request \cup {Idle}]
          /\ \A q \in Slots : q # s => req'[q] = req[q]
          /\ SlotInv(s)'
      BY <1>1, <2>1, Answered
    <2>3. UsersTypeOK'
      BY <1>1, <1>3, <2>1, <2>2 DEF UsersTypeOK
    <2> QED
      BY <2>1, <2>2, <2>3, OwnStep
  <1>7. CASE Issue(s)
    <2>1. /\ req' = [req EXCEPT ![s] = Idle]
          /\ tokens' = tokens \cup {[user |-> u, issued |-> clock + 1]} /\ clock' = clock + 1
          /\ UNCHANGED <<users, revoked, lock, closed>>
      BY <1>7 DEF Issue
    <2>2. /\ req' \in [Slots -> Request \cup {Idle}]
          /\ \A q \in Slots : q # s => req'[q] = req[q]
          /\ SlotInv(s)'
      BY <1>1, <2>1, Answered
    <2>3. [user |-> u, issued |-> clock + 1] \in Token
      BY <1>1, <1>3 DEF Token
    <2>4. UsersTypeOK'
      BY <1>1, <2>1, <2>2, <2>3 DEF UsersTypeOK
    <2> QED
      BY <2>1, <2>2, <2>4, OwnStep
  <1>8. CASE ChangePassword(s) /\ ~Refuse(s)
    <2> DEFINE new == [req[s].old EXCEPT !.mcp = FALSE]
               row == Merge(req[s].old, new, users[u])
               answer == [req[s] EXCEPT !.phase = "issue"]
    <2>1. /\ users' = [users EXCEPT ![u] = row]
          /\ revoked' = revoked \cup {req[s].by} /\ clock' = clock + 1
          /\ req' = [req EXCEPT ![s].phase = "issue"] /\ UNCHANGED <<tokens, lock, closed>>
      BY <1>8 DEF ChangePassword
    <2>2. new \in User /\ new.off = req[s].old.off /\ new.role = req[s].old.role
      BY <1>1, <1>3, RowEdits, Zenon
    <2> HIDE DEF new
    <2>3. row \in User /\ row.role = users[u].role /\ row.off = users[u].off
      BY <1>3, <2>2, MergeColumns, Zenon
    <2> HIDE DEF row
    <2>4. /\ users' \in [Users -> User] /\ users'[u] = row
          /\ \A v \in Users : v # u => users'[v] = users[v]
          /\ \A v \in EnabledAdmins : v # u => v \in EnabledAdmins'
      BY <1>1, <1>3, <2>1, <2>3, OneRow
    <2>5. answer \in Request /\ answer.phase = "issue"
      BY <1>3 DEF Request
    <2>6. req' = [req EXCEPT ![s] = answer] /\ req \in [Slots -> Request \cup {Idle}]
      BY <1>1, <2>1 DEF UsersTypeOK
    <2> HIDE DEF answer
    <2>7. /\ req' \in [Slots -> Request \cup {Idle}] /\ req'[s].phase = "issue"
          /\ \A q \in Slots : q # s => req'[q] = req[q]
      BY <2>5, <2>6
    <2>8. SlotInv(s)'
      BY <2>7, AnsweredInv
    <2>9. UsersTypeOK'
      BY <1>1, <1>3, <2>1, <2>4, <2>7 DEF UsersTypeOK
    <2>10. EnabledAdmins \subseteq EnabledAdmins'
      BY <2>3, <2>4 DEF EnabledAdmins
    <2> QED
      BY <2>1, <2>3, <2>4, <2>7, <2>8, <2>9, <2>10, GentleStep
  <1> QED
    BY <1>4, <1>5, <1>6, <1>7, <1>8

-----------------------------------------------------------------------------
\* For every number of accounts and of requests served at once, every state
\* the /api/auth and /api/users handlers reach is typed and satisfies the
\* invariant: who has staged a removal holds the advisory lock, and the
\* removal leaves an administrator.
THEOREM AdminInvariant == UsersSpec => []AdminInv
  <1>1. UsersInit => AdminInv
    <2> SUFFICES ASSUME UsersInit PROVE AdminInv
      OBVIOUS
    <2>1. PICK a \in Accounts : users = [u \in Users |-> Plain(a[u])]
      BY DEF UsersInit
    <2>2. a \in [Users -> Roles \cup {"none"}]
      BY PortalUsersAssumption
    <2>3. PICK w \in Users : a[w] = "admin"
      BY PortalUsersAssumption
    <2>4. \A u \in Users : Plain(a[u]) \in User
      BY <2>2 DEF Plain, User
    <2>5. users \in [Users -> User]
      BY <2>1, <2>4
    <2>6. w \in EnabledAdmins
      BY <2>1, <2>3 DEF EnabledAdmins, Plain
    <2>7. tokens \subseteq Token
      BY DEF UsersInit, Token
    <2>8. UsersTypeOK
      BY <2>5, <2>7 DEF UsersTypeOK, UsersInit
    <2>9. ASSUME NEW s \in Slots PROVE SlotInv(s)
      BY DEF UsersInit, SlotInv, Asked, Shaped, Staged, Running, Idle
    <2> QED
      BY <2>6, <2>8, <2>9 DEF AdminInv, AdminRemains
  <1>2. AdminInv /\ [UsersNext]_usersVars => AdminInv'
    <2> SUFFICES ASSUME AdminInv, [UsersNext]_usersVars PROVE AdminInv'
      OBVIOUS
    <2>1. CASE UsersNext
      <3>1. PICK s \in Slots :
                UsersArrive(s) \/ Serve(s) \/ \E b \in BOOLEAN : CommitDelete(s, b)
        BY <2>1 DEF UsersNext
      <3>2. CASE UsersArrive(s)
        BY <3>2, ArriveKeeps
      <3>3. CASE Serve(s)
        BY <3>3, LockedHandlersKeep, UnlockedHandlersKeep, CommitUpdateKeeps, OthersKeep DEF Serve
      <3>4. CASE \E b \in BOOLEAN : CommitDelete(s, b)
        BY <3>4, CommitDeleteKeeps
      <3> QED
        BY <3>1, <3>2, <3>3, <3>4
    <2>2. CASE UNCHANGED usersVars
      BY <2>2 DEF usersVars, AdminInv, UsersTypeOK, AdminRemains, EnabledAdmins,
                  SlotInv, Asked, Shaped, Staged, Running, Harmless
    <2> QED
      BY <2>1, <2>2
  <1> QED
    BY <1>1, <1>2, PTL DEF UsersSpec

-----------------------------------------------------------------------------
(* Sessions.  A stamp is a reading of the clock, and a handler that writes  *)
(* one read the clock after it loaded the row, so the UPDATE names it.      *)

Writers == {"update", "disable", "reset"}

Timely(s) ==
    req[s].phase # "idle" =>
        /\ req[s].old.stamp <= clock /\ req[s].new.stamp <= clock
        /\ Running(s, "commit", Writers \cup {"enable"}) => req[s].new.role \in Roles
        /\ Running(s, "commit", Writers) => req[s].new.stamp # req[s].old.stamp
        /\ Running(s, "commit", {"enable"}) => req[s].new.stamp = req[s].old.stamp

\* A closed cookie is older than the stamp of its account, which keeps its row
\* or is gone for good.
Shut(t) ==
    \/ users[t.user].role = "gone"
    \/ Exists(t.user) /\ t.issued < users[t.user].stamp

SessionInv ==
    /\ \A u \in Users : users[u].stamp <= clock
    /\ \A s \in Slots : Timely(s)
    /\ \A t \in closed : Shut(t)

\* The stamps and roles of the rows the handlers make.
LEMMA RowStamps ==
    ASSUME NEW row \in User, NEW c \in Nat
    PROVE  /\ \A role \in Roles :
                LET new == [row EXCEPT !.role = role, !.stamp = c]
                IN  new \in User /\ new.role = role /\ new.stamp = c
           /\ LET new == [row EXCEPT !.off = TRUE, !.stamp = c]
              IN  new \in User /\ new.role = row.role /\ new.stamp = c
           /\ LET new == [row EXCEPT !.mcp = TRUE, !.stamp = c]
              IN  new \in User /\ new.role = row.role /\ new.stamp = c
           /\ LET new == [row EXCEPT !.mcp = FALSE]
              IN  new \in User /\ new.role = row.role /\ new.stamp = row.stamp
           /\ Enabled(row) \in User /\ Enabled(row).role = row.role
           /\ Enabled(row).stamp = row.stamp
  BY DEF User, Enabled

\* A step of slot s that leaves the accounts alone.
LEMMA SessionOwnStep ==
    ASSUME UsersTypeOK, SessionInv, NEW s \in Slots, UNCHANGED <<users, closed>>,
           clock' \in Nat, clock <= clock', Timely(s)',
           \A q \in Slots : q # s => req'[q] = req[q]
    PROVE  SessionInv'
  <1>1. clock \in Nat /\ users \in [Users -> User]
    BY DEF UsersTypeOK
  <1>2. ASSUME NEW u \in Users PROVE users[u].stamp \in Nat /\ users[u].stamp <= clock'
    BY <1>1 DEF User, SessionInv
  <1>3. ASSUME NEW q \in Slots, q # s PROVE Timely(q)'
    <2>1. req'[q] = req[q] /\ Timely(q)
      BY <1>3 DEF SessionInv
    <2>2. req[q].phase # "idle" => req[q].old.stamp \in Nat /\ req[q].new.stamp \in Nat
      BY RequestTyped DEF User
    <2> QED
      BY <1>1, <2>1, <2>2 DEF Timely, Running
  <1>4. \A t \in closed' : Shut(t)'
    BY DEF SessionInv, Shut, Exists
  <1> QED
    BY <1>2, <1>3, <1>4 DEF SessionInv

\* A step of slot s that writes one row and answers the request or goes on to
\* the new cookie.
LEMMA SessionRowStep ==
    ASSUME UsersTypeOK, SessionInv, NEW s \in Slots, NEW u \in Users, NEW row \in User,
           users' = [users EXCEPT ![u] = row], row.stamp <= clock,
           clock' \in Nat, clock <= clock', Timely(s)',
           \A q \in Slots : q # s => req'[q] = req[q],
           closed' \subseteq Token,
           \A t \in closed' : \/ t.user # u /\ t \in closed
                              \/ t.user = u /\ row.role = "gone"
                              \/ t.user = u /\ row.role \in Roles /\ t.issued < row.stamp
    PROVE  SessionInv'
  <1>1. clock \in Nat /\ users \in [Users -> User] /\ row.stamp \in Nat
    BY DEF UsersTypeOK, User
  <1>2. users'[u] = row /\ \A v \in Users : v # u => users'[v] = users[v]
    BY <1>1
  <1>3. ASSUME NEW v \in Users PROVE users'[v].stamp <= clock'
    <2>1. users[v].stamp \in Nat /\ users[v].stamp <= clock
      BY <1>1 DEF User, SessionInv
    <2> QED
      BY <1>1, <1>2, <2>1
  <1>4. ASSUME NEW q \in Slots, q # s PROVE Timely(q)'
    <2>1. req'[q] = req[q] /\ Timely(q)
      BY <1>4 DEF SessionInv
    <2>2. req[q].phase # "idle" => req[q].old.stamp \in Nat /\ req[q].new.stamp \in Nat
      BY RequestTyped DEF User
    <2> QED
      BY <1>1, <2>1, <2>2 DEF Timely, Running
  <1>5. ASSUME NEW t \in closed' PROVE Shut(t)'
    <2>1. t.user \in Users
      BY DEF Token
    <2>2. CASE t.user # u /\ t \in closed
      BY <1>2, <2>1, <2>2 DEF SessionInv, Shut, Exists
    <2>3. CASE t.user = u
      BY <1>2, <2>3 DEF Shut, Exists
    <2> QED
      BY <2>2, <2>3
  <1> QED
    BY <1>3, <1>4, <1>5 DEF SessionInv

LEMMA SessionArrive ==
    ASSUME AdminInv, SessionInv, NEW s \in Slots, UsersArrive(s)
    PROVE  SessionInv'
  <1>0. UsersTypeOK
    BY DEF AdminInv
  <1>1. PICK phase \in {"ready", "issue"}, op \in AdminOps \cup OwnOps \cup {"login"},
             t \in Token, u \in Users, role \in Roles : Enter(s, phase, op, t, u, role)
    <2>0. "viewer" \in Roles
      BY DEF Roles
    <2>1. ASSUME NEW u \in Users PROVE [user |-> u, issued |-> 0] \in Token
      BY DEF Token
    <2>2. ASSUME NEW t \in tokens PROVE t \in Token /\ t.user \in Users
      BY <1>0 DEF UsersTypeOK, Token
    <2> QED
      BY <2>0, <2>1, <2>2 DEF UsersArrive, AskLogin, AskOwn, AskAdmin
  <1>2. t.user \in Users
    BY DEF Token
  <1>3. /\ \A q \in Slots : q # s => req'[q] = req[q]
        /\ req'[s].phase = phase /\ req'[s].old = users[t.user] /\ req'[s].new = users[t.user]
    BY <1>0, <1>1, EnterTyped
  <1>4. UNCHANGED <<users, closed, clock>> /\ clock \in Nat /\ clock <= clock'
    BY <1>0, <1>1 DEF Enter, UsersTypeOK
  <1>5. Timely(s)'
    BY <1>2, <1>3, <1>4 DEF Timely, Running, SessionInv
  <1> QED
    BY <1>0, <1>3, <1>4, <1>5, SessionOwnStep

LEMMA AnsweredTimely ==
    ASSUME NEW s \in Slots, req'[s].phase = "idle" PROVE Timely(s)'
  BY DEF Timely

LEMMA SessionRefuse ==
    ASSUME AdminInv, SessionInv, NEW s \in Slots, Refuse(s)
    PROVE  SessionInv'
  <1>1. UsersTypeOK /\ clock \in Nat
    BY DEF AdminInv, UsersTypeOK
  <1>2. \A q \in Slots : q # s => req'[q] = req[q]
    BY <1>1, Answered DEF Refuse
  <1>3. Timely(s)'
    BY <1>1, Answered, AnsweredTimely DEF Refuse
  <1>4. UNCHANGED <<users, closed, clock>> /\ clock <= clock'
    BY <1>1 DEF Refuse
  <1> QED
    BY <1>1, <1>2, <1>3, <1>4, SessionOwnStep

\* A handler that stages a row.
LEMMA SessionHandlers ==
    ASSUME AdminInv, SessionInv, NEW s \in Slots,
           \/ UpdateUser(s) \/ DisableUser(s) \/ DeleteUser(s)
           \/ EnableUser(s) \/ ResetPassword(s)
    PROVE  SessionInv'
  <1> DEFINE row == Loaded(s)
             c == clock + 1
  <1>1. CASE Refuse(s)
    BY <1>1, SessionRefuse
  <1>2. CASE ~Refuse(s)
    <2>1. req[s].phase = "ready" /\ UsersTypeOK /\ clock \in Nat /\ c \in Nat
      BY DEF UpdateUser, DisableUser, DeleteUser, EnableUser, ResetPassword, At, AdminInv,
             UsersTypeOK
    <2>2. row \in User /\ req[s].role \in Roles
      BY <2>1, RequestTyped
    <2>3. row.stamp \in Nat /\ row.stamp <= clock
      <3>1. row.stamp \in Nat
        BY <2>2 DEF User
      <3>2. req[s].old.stamp <= clock /\ users[req[s].tgt].stamp <= clock
        BY <2>1, RequestTyped DEF SessionInv, Timely
      <3> QED
        BY <3>1, <3>2 DEF Loaded
    <2> HIDE DEF row
    <2>4. PICK new \in User :
              /\ Stage(s, row, new) /\ new.stamp <= clock' /\ clock' \in {clock, c}
              /\ req[s].op \in Writers \cup {"enable"} => new.role \in Roles
              /\ req[s].op \in Writers => new.stamp # row.stamp
              /\ req[s].op = "enable" => new.stamp = row.stamp
      <3>1. CASE UpdateUser(s)
        <4> DEFINE new == [row EXCEPT !.role = req[s].role, !.stamp = c]
        <4>0. \A role \in Roles :
                LET edit == [row EXCEPT !.role = role, !.stamp = c]
                IN  edit \in User /\ edit.role = role /\ edit.stamp = c
          BY <2>1, <2>2, RowStamps, Zenon
        <4>1. new \in User /\ new.role \in Roles /\ new.stamp = c
          BY <2>2, <4>0, Zenon
        <4>2. Stage(s, row, new) /\ clock' = c /\ req[s].op = "update"
          BY <1>2, <3>1 DEF UpdateUser, At, row
        <4> HIDE DEF new
        <4> QED
          BY <2>1, <2>3, <4>1, <4>2
      <3>2. CASE DisableUser(s)
        <4> DEFINE new == [row EXCEPT !.off = TRUE, !.stamp = c]
        <4>1. new \in User /\ new.role = row.role /\ new.stamp = c
          BY <2>1, <2>2, RowStamps
        <4>2. Stage(s, row, new) /\ clock' = c /\ req[s].op = "disable" /\ row.role \in Roles
          BY <1>2, <3>2 DEF DisableUser, At, row
        <4> HIDE DEF new
        <4> QED
          BY <2>1, <2>3, <4>1, <4>2
      <3>3. CASE ResetPassword(s)
        <4> DEFINE new == [row EXCEPT !.mcp = TRUE, !.stamp = c]
        <4>1. new \in User /\ new.role = row.role /\ new.stamp = c
          BY <2>1, <2>2, RowStamps
        <4>2. Stage(s, row, new) /\ clock' = c /\ req[s].op = "reset" /\ row.role \in Roles
          BY <1>2, <3>3 DEF ResetPassword, At, row
        <4> HIDE DEF new
        <4> QED
          BY <2>1, <2>3, <4>1, <4>2
      <3>4. CASE EnableUser(s)
        <4>1. Enabled(row) \in User /\ Enabled(row).role = row.role
              /\ Enabled(row).stamp = row.stamp
          BY <2>2, RowStamps
        <4>2. Stage(s, row, Enabled(row)) /\ clock' = clock /\ req[s].op = "enable"
              /\ row.role \in Roles
          BY <1>2, <3>4 DEF EnableUser, At, row
        <4> QED
          BY <2>1, <2>3, <4>1, <4>2 DEF Writers
      <3>5. CASE DeleteUser(s)
        <4>1. Plain("gone") \in User /\ Plain("gone").stamp = 0
          BY DEF Plain, User
        <4>2. Stage(s, row, Plain("gone")) /\ clock' = clock /\ req[s].op = "delete"
          BY <1>2, <3>5 DEF DeleteUser, At, row
        <4> QED
          BY <2>1, <4>1, <4>2 DEF Writers
      <3> QED
        BY <3>1, <3>2, <3>3, <3>4, <3>5
    <2>5. /\ \A q \in Slots : q # s => req'[q] = req[q]
          /\ req'[s].old = row /\ req'[s].new = new /\ req'[s].op = req[s].op
      BY <2>1, <2>2, <2>4, StageTyped
    <2>6. UNCHANGED <<users, closed>> /\ clock' \in Nat /\ clock <= clock'
      BY <2>1, <2>4 DEF Stage
    <2>7. row.stamp <= clock'
      BY <2>1, <2>3, <2>6
    <2>8. Timely(s)'
      BY <2>4, <2>5, <2>7 DEF Timely, Running
    <2> QED
      BY <2>1, <2>5, <2>6, <2>8, SessionOwnStep
  <1> QED
    BY <1>1, <1>2

\* What Merge does to role and stamp.
LEMMA MergeStamps ==
    ASSUME NEW old \in User, NEW new \in User, NEW now \in User
    PROVE  /\ Merge(old, new, now) \in User
           /\ Merge(old, new, now).role = IF new.role = old.role THEN now.role ELSE new.role
           /\ Merge(old, new, now).stamp = IF new.stamp = old.stamp THEN now.stamp ELSE new.stamp
  BY MergeTyped DEF Merge

\* The commit of a role change, a disabling, an enabling or a reset.
LEMMA SessionCommit ==
    ASSUME AdminInv, SessionInv, NEW s \in Slots, CommitUpdate(s)
    PROVE  SessionInv'
  <1> DEFINE r == req[s]
             u == r.tgt
             row == Merge(r.old, r.new, users[u])
  <1>1. r.phase = "commit" /\ r.op \in Writers \cup {"enable"} /\ UsersTypeOK
        /\ clock \in Nat /\ clock' = clock
    BY DEF CommitUpdate, Writers, AdminInv, UsersTypeOK
  <1>2. u \in Users /\ r.old \in User /\ r.new \in User /\ users[u] \in User
    BY <1>1, RequestTyped
  <1>3. \A q \in Slots : q # s => req'[q] = req[q]
    BY <1>1, Answered DEF CommitUpdate
  <1>4. Timely(s)'
    BY <1>1, Answered, AnsweredTimely DEF CommitUpdate
  <1>5. CASE ~Exists(u)
    <2>1. UNCHANGED <<users, closed>>
      BY <1>5 DEF CommitUpdate
    <2> QED
      BY <1>1, <1>3, <1>4, <2>1, SessionOwnStep
  <1>6. CASE Exists(u)
    <2>1. users' = [users EXCEPT ![u] = row]
      BY <1>6 DEF CommitUpdate
    <2>2. /\ row \in User
          /\ row.role = IF r.new.role = r.old.role THEN users[u].role ELSE r.new.role
          /\ row.stamp = IF r.new.stamp = r.old.stamp THEN users[u].stamp ELSE r.new.stamp
      BY <1>2, MergeStamps
    <2>3. /\ r.new.role \in Roles /\ r.new.stamp <= clock
          /\ r.op \in Writers => r.new.stamp # r.old.stamp
          /\ r.op = "enable" => r.new.stamp = r.old.stamp
      BY <1>1 DEF SessionInv, Timely, Running
    <2>4. users[u].stamp <= clock /\ users[u].stamp \in Nat /\ r.new.stamp \in Nat
          /\ users[u].role \in Roles
      BY <1>2, <1>6 DEF SessionInv, User, Exists
    <2>5. row.role \in Roles /\ row.stamp <= clock /\ row.stamp \in Nat
      BY <2>2, <2>3, <2>4
    <2>6. \A t \in closed : t \in Token /\ t.issued \in Nat
                            /\ (t.user = u => t.issued < users[u].stamp)
      <3>1. users[u].role # "gone"
        BY <2>4 DEF Roles
      <3> QED
        BY <1>1, <3>1 DEF SessionInv, Shut, UsersTypeOK, Token
    <2>7. closed' \subseteq Token
          /\ \A t \in closed' : \/ t.user # u /\ t \in closed
                                \/ t.user = u /\ t.issued < row.stamp
      <3>1. CASE r.op = "enable"
        <4>1. closed' = closed /\ row.stamp = users[u].stamp
          BY <2>2, <2>3, <3>1 DEF CommitUpdate
        <4> QED
          BY <2>6, <4>1
      <3>2. CASE r.op \in Writers
        <4>1. closed' = Closing(u, r.new.stamp) /\ row.stamp = r.new.stamp
          BY <1>6, <2>2, <2>3, <3>2 DEF CommitUpdate, Writers
        <4>2. CASE r.new.stamp < users[u].stamp
          <5>1. closed' = {t \in closed : t.user # u \/ t.issued < r.new.stamp}
            BY <4>1, <4>2 DEF Closing
          <5> QED
            BY <2>6, <4>1, <5>1
        <4>3. CASE ~(r.new.stamp < users[u].stamp)
          <5>1. closed' = closed \cup {t \in tokens : t.user = u /\ t.issued < r.new.stamp}
            BY <4>1, <4>3 DEF Closing
          <5>2. tokens \subseteq Token
            BY <1>1 DEF UsersTypeOK
          <5>3. \A t \in closed : t.user = u => t.issued < r.new.stamp
            BY <2>4, <2>6, <4>3
          <5> QED
            BY <2>6, <4>1, <5>1, <5>2, <5>3
        <4> QED
          BY <4>2, <4>3
      <3> QED
        BY <1>1, <3>1, <3>2
    <2>8. clock' \in Nat /\ clock <= clock'
      BY <1>1
    <2>9. \A t \in closed' : \/ t.user # u /\ t \in closed
                             \/ t.user = u /\ row.role = "gone"
                             \/ t.user = u /\ row.role \in Roles /\ t.issued < row.stamp
      BY <2>5, <2>7
    <2> HIDE DEF row, u, r
    <2> QED
      BY <1>1, <1>2, <1>3, <1>4, <2>1, <2>2, <2>5, <2>7, <2>8, <2>9, SessionRowStep
  <1> QED
    BY <1>5, <1>6

LEMMA SessionDelete ==
    ASSUME AdminInv, SessionInv, NEW s \in Slots, NEW b \in BOOLEAN, CommitDelete(s, b)
    PROVE  SessionInv'
  <1>1. UsersTypeOK /\ clock \in Nat /\ clock' = clock /\ closed' = closed
        /\ req[s].phase = "commit"
    BY DEF CommitDelete, At, AdminInv, UsersTypeOK
  <1>2. req[s].tgt \in Users
    BY <1>1, RequestTyped
  <1>3. \A q \in Slots : q # s => req'[q] = req[q]
    BY <1>1, Answered DEF CommitDelete
  <1>4. Timely(s)'
    BY <1>1, Answered, AnsweredTimely DEF CommitDelete
  <1>5. CASE users' = users
    BY <1>1, <1>3, <1>4, <1>5, SessionOwnStep
  <1>6. CASE users' = [users EXCEPT ![req[s].tgt] = Plain("gone")]
    <2>1. Plain("gone") \in User /\ Plain("gone").stamp <= clock /\ Plain("gone").role = "gone"
      BY <1>1 DEF Plain, User
    <2>2. closed' \subseteq Token
      BY <1>1 DEF UsersTypeOK
    <2>3. clock' \in Nat /\ clock <= clock'
      BY <1>1
    <2> DEFINE u == req[s].tgt
               row == Plain("gone")
    <2>4. \A t \in closed' : \/ t.user # u /\ t \in closed
                             \/ t.user = u /\ row.role = "gone"
                             \/ t.user = u /\ row.role \in Roles /\ t.issued < row.stamp
      BY <1>1, <2>1
    <2>5. row \in User /\ row.stamp <= clock /\ u \in Users /\ users' = [users EXCEPT ![u] = row]
      BY <1>2, <1>6, <2>1
    <2> HIDE DEF row, u
    <2> QED
      BY <1>1, <1>3, <1>4, <2>2, <2>3, <2>4, <2>5, SessionRowStep
  <1> QED
    BY <1>5, <1>6 DEF CommitDelete

LEMMA SessionOthers ==
    ASSUME AdminInv, SessionInv, NEW s \in Slots,
           CreateUser(s) \/ Logout(s) \/ ChangePassword(s) \/ Issue(s)
    PROVE  SessionInv'
  <1> DEFINE u == req[s].tgt
  <1>1. UsersTypeOK /\ clock \in Nat /\ closed \subseteq Token
    BY DEF AdminInv, UsersTypeOK
  <1>2. req[s].phase # "idle"
    BY DEF CreateUser, Logout, ChangePassword, Issue, At
  <1>3. req[s] \in Request /\ u \in Users /\ req[s].role \in Roles /\ req[s].old \in User
        /\ users[u] \in User
    BY <1>1, <1>2, RequestTyped
  <1>4. CASE Refuse(s)
    BY <1>4, SessionRefuse
  <1>5. CASE (Logout(s) /\ ~Refuse(s)) \/ Issue(s)
    <2>1. req' = [req EXCEPT ![s] = Idle] /\ UNCHANGED <<users, closed>>
          /\ clock' \in {clock, clock + 1}
      BY <1>5 DEF Logout, Issue
    <2>2. clock' \in Nat /\ clock <= clock'
      BY <1>1, <2>1
    <2>3. (\A q \in Slots : q # s => req'[q] = req[q]) /\ Timely(s)'
      BY <1>1, <2>1, Answered, AnsweredTimely
    <2> QED
      BY <1>1, <2>1, <2>2, <2>3, SessionOwnStep
  <1>6. CASE CreateUser(s) /\ ~Refuse(s)
    <2> DEFINE row == [role |-> req[s].role, off |-> FALSE, mcp |-> TRUE, stamp |-> 0]
    <2>1. row \in User /\ row.stamp = 0
      BY <1>3 DEF User
    <2>2. /\ users[u].role = "none" /\ users' = [users EXCEPT ![u] = row]
          /\ req' = [req EXCEPT ![s] = Idle] /\ UNCHANGED <<clock, closed>>
      BY <1>6 DEF CreateUser
    <2> HIDE DEF row
    <2>3. (\A q \in Slots : q # s => req'[q] = req[q]) /\ Timely(s)'
      BY <1>1, <2>2, Answered, AnsweredTimely
    <2>4. \A t \in closed : t.user # u
      BY <2>2 DEF SessionInv, Shut, Exists, Roles
    <2> QED
      <3>1. clock' \in Nat /\ clock <= clock' /\ row.stamp <= clock
        BY <1>1, <2>1, <2>2
      <3>2. \A t \in closed' : \/ t.user # u /\ t \in closed
                               \/ t.user = u /\ row.role = "gone"
                               \/ t.user = u /\ row.role \in Roles /\ t.issued < row.stamp
        BY <2>2, <2>4
      <3>3. closed' \subseteq Token
        BY <1>1, <2>2
      <3> HIDE DEF u
      <3> QED
        BY <1>1, <1>3, <2>1, <2>2, <2>3, <3>1, <3>2, <3>3, SessionRowStep
  <1>7. CASE ChangePassword(s) /\ ~Refuse(s)
    <2> DEFINE new == [req[s].old EXCEPT !.mcp = FALSE]
               row == Merge(req[s].old, new, users[u])
               answer == [req[s] EXCEPT !.phase = "issue"]
    <2>1. /\ users' = [users EXCEPT ![u] = row] /\ Exists(u)
          /\ clock' = clock + 1 /\ closed' = closed
          /\ req' = [req EXCEPT ![s].phase = "issue"]
      BY <1>7 DEF ChangePassword, Revocable
    <2>2. new \in User /\ new.stamp = req[s].old.stamp /\ new.role = req[s].old.role
      BY <1>1, <1>3, RowStamps
    <2> HIDE DEF new
    <2>3. row \in User /\ row.role = users[u].role /\ row.stamp = users[u].stamp
      BY <1>3, <2>2, MergeStamps
    <2> HIDE DEF row
    <2>4. /\ answer.phase = "issue" /\ answer.old = req[s].old /\ answer.new = req[s].new
          /\ req[s].old.stamp \in Nat /\ req[s].new.stamp \in Nat
      BY <1>3 DEF Request, User
    <2>5. req' = [req EXCEPT ![s] = answer] /\ req \in [Slots -> Request \cup {Idle}]
      BY <1>1, <2>1 DEF UsersTypeOK
    <2> HIDE DEF answer
    <2>6. /\ req'[s] = answer /\ \A q \in Slots : q # s => req'[q] = req[q]
      BY <2>5
    <2>7. Timely(s)'
      <3>1. req[s].old.stamp <= clock /\ req[s].new.stamp <= clock
        BY <1>2 DEF SessionInv, Timely
      <3> QED
        BY <1>1, <2>1, <2>4, <2>6, <3>1 DEF Timely, Running
    <2>8. row.stamp <= clock /\ clock' \in Nat /\ clock <= clock'
      BY <1>1, <1>3, <2>1, <2>3 DEF SessionInv
    <2>9. \A t \in closed : t.user = u => row.role \in Roles /\ t.issued < row.stamp
      BY <2>1, <2>3 DEF SessionInv, Shut, Exists, Roles
    <2> QED
      BY <1>1, <1>3, <2>1, <2>3, <2>6, <2>7, <2>8, <2>9, SessionRowStep
  <1> QED
    BY <1>4, <1>5, <1>6, <1>7

\* In every interleaving of the account handlers a closed cookie stays older
\* than the stamp of its account, or the account is gone.
LEMMA SessionInvariant == UsersSpec => []SessionInv
  <1>1. UsersInit => SessionInv
    <2> SUFFICES ASSUME UsersInit PROVE SessionInv
      OBVIOUS
    <2>1. PICK a \in Accounts : users = [u \in Users |-> Plain(a[u])]
      BY DEF UsersInit
    <2>2. \A u \in Users : users[u].stamp <= 0
      BY <2>1 DEF Plain
    <2> QED
      BY <2>2 DEF UsersInit, SessionInv, Timely, Idle
  <1>2. AdminInv /\ SessionInv /\ [UsersNext]_usersVars => SessionInv'
    <2> SUFFICES ASSUME AdminInv, SessionInv, [UsersNext]_usersVars PROVE SessionInv'
      OBVIOUS
    <2>1. CASE UsersNext
      <3>1. PICK s \in Slots :
                UsersArrive(s) \/ Serve(s) \/ \E b \in BOOLEAN : CommitDelete(s, b)
        BY <2>1 DEF UsersNext
      <3>2. CASE Serve(s)
        BY <3>2, SessionHandlers, SessionCommit, SessionOthers DEF Serve
      <3> QED
        BY <3>1, <3>2, SessionArrive, SessionDelete
    <2>2. CASE UNCHANGED usersVars
      BY <2>2 DEF usersVars, SessionInv, Timely, Shut, Exists, Running
    <2> QED
      BY <2>1, <2>2
  <1> QED
    BY <1>1, <1>2, AdminInvariant, PTL DEF UsersSpec

\* The portal with feedback and run overrides behaves towards accounts and
\* sessions as /api/auth and /api/users alone: the other handlers only read
\* the accounts, and a reviewer's annotation only makes a deletion fail.
THEOREM PortalImplementsUsers == Spec => UsersSpec
  <1>1. Init => UsersInit
    BY DEF Init
  <1>2. [Next]_vars => [UsersNext]_usersVars
    <2> SUFFICES ASSUME [Next]_vars PROVE UsersNext \/ UNCHANGED usersVars
      OBVIOUS
    <2>1. ASSUME NEW s \in Slots, AskedBy(s)
          PROVE  UsersArrive(s) \/ UNCHANGED usersVars
      BY <2>1 DEF AskedBy, UsersArrive
    <2>2. ASSUME NEW s \in Slots, CommitDelete(s, req[s] # Idle /\ Referenced(s))
          PROVE  \E b \in BOOLEAN : CommitDelete(s, b)
      BY <2>2, (req[s] # Idle /\ Referenced(s)) \in BOOLEAN
    <2>3. CASE Next
      BY <2>1, <2>2, <2>3 DEF Next, UsersNext
    <2>4. CASE UNCHANGED vars
      BY <2>4 DEF vars
    <2> QED
      BY <2>3, <2>4
  <1> QED
    BY <1>1, <1>2, PTL DEF Spec, UsersSpec

\* "two concurrent demotions cannot race the system into zero admins"
\* (api/users.py), for every number of accounts and of concurrent requests.
THEOREM PortalKeepsAnAdmin == Spec => []AdminRemains
  <1>1. AdminInv => AdminRemains
    BY DEF AdminInv
  <1> QED
    BY <1>1, AdminInvariant, PortalImplementsUsers, PTL

\* A cookie that a role change, a password reset or a disabling has closed is
\* not accepted by current_user (auth/deps.py) whatever enabling, password
\* change or deletion follows: iat, cut to the second, is never after the time
\* of issue, and only an overlapping writer that read the clock earlier sets
\* the stamp back (the cookies in between are then no longer in closed).
THEOREM PortalClosesSessions == Spec => []SessionsClosed
  <1>1. AdminInv /\ SessionInv => SessionsClosed
    <2> SUFFICES ASSUME AdminInv, SessionInv, NEW t \in closed, CurrentUser(t) PROVE FALSE
      BY DEF SessionsClosed
    <2>1. t.issued \in Nat /\ t.user \in Users /\ SecondTicks \in Nat \ {0}
      BY PortalUsersAssumption DEF AdminInv, UsersTypeOK, Token
    <2>2. users[t.user].stamp \in Nat
      BY <2>1 DEF AdminInv, UsersTypeOK, User
    <2>3. t.issued < users[t.user].stamp
      BY DEF CurrentUser, SessionInv, Shut, Exists, Roles
    <2>4. t.issued % SecondTicks \in 0 .. (SecondTicks - 1)
      BY <2>1
    <2>5. Iat(t) \in Int /\ Iat(t) <= t.issued
      BY <2>1, <2>4 DEF Iat
    <2> QED
      BY <2>1, <2>2, <2>3, <2>5 DEF CurrentUser, Predates
  <1> QED
    BY <1>1, AdminInvariant, SessionInvariant, PortalImplementsUsers, PTL

-----------------------------------------------------------------------------
(* Feedback and run overrides.  A request in a slot is about a finding or   *)
(* about a run; once its row is staged a duplicate it posts points to       *)
(* another finding of the same run, which no other request can change.      *)

AskedRows == Bodies \cup RunRow \cup {Gone}
LoadedRows == AskedRows \cup Annotation \cup {NoAnn}
Works == [phase : {"ready", "commit"}, op : FeedbackOps \cup RunOps, by : Users,
          tgt : Findings \cup Runs, new : AskedRows, old : LoadedRows, pend : SUBSET Findings]

PointsInRun(f, ptr) == ptr # NoFinding => RunOf[ptr] = RunOf[f]

Sound(w) ==
    /\ w \in Works
    /\ w.op \in FeedbackOps =>
        /\ w.tgt \in Findings /\ w.new \in Bodies
        /\ w.phase = "commit" => PointsInRun(w.tgt, w.new.ptr)
    /\ w.op \in RunOps =>
        /\ w.tgt \in Runs
        /\ w.phase = "commit" /\ w.op # "delete_run" => w.new \in RunRow

WorkInv ==
    /\ work \in [Slots -> Works \cup {Idle}]
    /\ \A s \in Slots : work[s] # Idle => Sound(work[s])

RowsTyped ==
    /\ runs \in [Runs -> RunRow \cup {Gone}]
    /\ ann \in [Findings -> Annotation \cup {NoAnn}]
    /\ DOMAIN hist = Findings

Limited == load \in Workloads /\ asked \in 0 .. MaxRequests[load] /\ writes \in 0 .. MaxWrites

RecordInv ==
    /\ RowsTyped /\ WorkInv /\ Limited
    /\ FeedbackWellFormed /\ HistoryExplains /\ ReviewerExists /\ DeletionIsWhole

\* Every handler of accounts but a deletion leaves an account that exists.
LEMMA AccountsStay ==
    ASSUME AdminInv, SessionInv, NEW s \in Slots, Serve(s), NEW v \in Users, Exists(v)
    PROVE  Exists(v)'
  <1> DEFINE u == req[s].tgt
  <1>1. UsersTypeOK /\ users \in [Users -> User]
    BY DEF AdminInv, UsersTypeOK
  <1>2. CASE users' = users
    BY <1>2 DEF Exists
  <1>3. ASSUME NEW row \in User, row.role \in Roles, u \in Users,
               users' = [users EXCEPT ![u] = row]
        PROVE  Exists(v)'
    BY <1>1, <1>3 DEF Exists
  <1>4. CASE CommitUpdate(s)
    <2>1. req[s].phase = "commit" /\ req[s].op \in Writers \cup {"enable"}
      BY <1>4 DEF CommitUpdate, Writers
    <2>2. u \in Users /\ req[s].old \in User /\ req[s].new \in User /\ users[u] \in User
      BY <1>1, <2>1, RequestTyped
    <2>3. req[s].new.role \in Roles
      BY <2>1 DEF SessionInv, Timely, Running
    <2> DEFINE row == Merge(req[s].old, req[s].new, users[u])
    <2>4. row \in User /\ (users[u].role \in Roles => row.role \in Roles)
      BY <2>2, <2>3, MergeStamps
    <2>5. users' = users \/ (Exists(u) /\ users' = [users EXCEPT ![u] = row])
      BY <1>4 DEF CommitUpdate
    <2> HIDE DEF row
    <2> QED
      BY <1>2, <1>3, <2>2, <2>4, <2>5 DEF Exists
  <1>5. CASE CreateUser(s)
    <2> DEFINE row == [role |-> req[s].role, off |-> FALSE, mcp |-> TRUE, stamp |-> 0]
    <2>1. u \in Users /\ req[s].role \in Roles
      BY <1>1, <1>5, RequestTyped DEF CreateUser, At
    <2>2. row \in User /\ row.role \in Roles
      BY <2>1 DEF User
    <2>3. users' = users \/ users' = [users EXCEPT ![u] = row]
      BY <1>5 DEF CreateUser, Refuse
    <2> HIDE DEF row
    <2> QED
      BY <1>2, <1>3, <2>1, <2>2, <2>3
  <1>6. CASE ChangePassword(s)
    <2> DEFINE new == [req[s].old EXCEPT !.mcp = FALSE]
               row == Merge(req[s].old, new, users[u])
    <2>1. u \in Users /\ req[s].old \in User /\ users[u] \in User
      BY <1>1, <1>6, RequestTyped DEF ChangePassword, At
    <2>2. new \in User /\ new.role = req[s].old.role
      BY <2>1, RowStamps
    <2>3. users' = users \/ (Exists(u) /\ users' = [users EXCEPT ![u] = row])
      BY <1>6 DEF ChangePassword, Refuse, Revocable
    <2> HIDE DEF new
    <2>4. row \in User /\ row.role = users[u].role
      BY <2>1, <2>2, MergeStamps
    <2> HIDE DEF row
    <2> QED
      BY <1>2, <1>3, <2>1, <2>3, <2>4 DEF Exists
  <1>7. CASE ~(CommitUpdate(s) \/ CreateUser(s) \/ ChangePassword(s))
    <2>1. users' = users
      BY <1>7 DEF Serve, UpdateUser, DisableUser, DeleteUser, EnableUser, ResetPassword, Logout,
                  Issue, Refuse, Stage
    <2> QED
      BY <1>2, <2>1
  <1> QED
    BY <1>4, <1>5, <1>6, <1>7

\* Nor does a deletion take a reviewer away.
LEMMA ReviewersStay ==
    ASSUME AdminInv, NEW s \in Slots, CommitDelete(s, req[s] # Idle /\ Referenced(s)),
           NEW f \in Findings, ann[f].by \in Users, Exists(ann[f].by)
    PROVE  users'[ann[f].by].role \in Roles
  <1>1. UsersTypeOK /\ users \in [Users -> User] /\ req[s].phase = "commit" /\ req[s] # Idle
    BY DEF AdminInv, UsersTypeOK, CommitDelete, At, Idle
  <1>2. CASE Referenced(s)
    <2>1. users' = users
      BY <1>1, <1>2 DEF CommitDelete
    <2> QED
      BY <2>1 DEF Exists
  <1>3. CASE ~Referenced(s)
    <2>1. users' = [users EXCEPT ![req[s].tgt] = Plain("gone")] /\ ann[f].by # req[s].tgt
      BY <1>1, <1>3 DEF CommitDelete, Referenced
    <2> QED
      BY <1>1, <2>1 DEF Exists
  <1> QED
    BY <1>2, <1>3

\* An annotation that counts has its row and its reviewer.
LEMMA AnnotationTyped ==
    ASSUME RowsTyped, NEW f \in Findings, Annotated(f)
    PROVE  /\ ann[f] \in Annotation /\ ann[f].label \in Labels
           /\ ann[f].ptr \in Findings \cup {NoFinding} /\ ann[f].by \in Users
  <1>1. ann[f] \in Annotation
    BY DEF RowsTyped, Annotated, NoAnn, Labels
  <1> QED
    BY <1>1 DEF Annotation

\* A step that leaves feedback and runs alone.
LEMMA RecordFrame ==
    ASSUME RecordInv, UNCHANGED dataVars, WorkInv', Limited',
           \A f \in Findings : Annotated(f) => users'[ann[f].by].role \in Roles
    PROVE  RecordInv'
  <1>1. UNCHANGED <<runs, ann, hist, log>>
    BY DEF dataVars
  <1>2. RowsTyped' /\ FeedbackWellFormed'
    BY <1>1 DEF RecordInv, RowsTyped, FeedbackWellFormed, Annotated, FindingExists, RunExists
  <1>3. HistoryExplains' /\ DeletionIsWhole'
    BY <1>1 DEF RecordInv, HistoryExplains, DeletionIsWhole, Annotated, RunExists, FindingsOf
  <1>4. ReviewerExists'
    BY <1>1 DEF ReviewerExists, Annotated, Exists
  <1> QED
    BY <1>2, <1>3, <1>4 DEF RecordInv

\* A step of slot s that leaves a sound request, or none, in it.
LEMMA WorkStep ==
    ASSUME WorkInv, NEW s \in Slots, NEW w, w = Idle \/ Sound(w),
           work' = [work EXCEPT ![s] = w]
    PROVE  WorkInv'
  <1>1. w \in Works \cup {Idle} /\ work \in [Slots -> Works \cup {Idle}]
    BY DEF Sound, WorkInv
  <1>2. work' \in [Slots -> Works \cup {Idle}] /\ work'[s] = w
        /\ \A q \in Slots : q # s => work'[q] = work[q]
    BY <1>1
  <1>3. \A q \in Slots : work'[q] # Idle => Sound(work'[q])
    BY <1>2 DEF WorkInv
  <1>4. (\A q \in Slots : work[q] # Idle => Sound(work[q]))'
    BY <1>3 DEF Sound
  <1> QED
    BY <1>2, <1>4 DEF WorkInv

-----------------------------------------------------------------------------
\* The parts of a request that is being served.
LEMMA ServedTyped ==
    ASSUME WorkInv, NEW s \in Slots, work[s].phase # "idle"
    PROVE  work[s] # Idle /\ Sound(work[s]) /\ work[s] \in Works /\ work[s].by \in Users
  <1>1. work[s] # Idle
    BY DEF Idle
  <1>2. Sound(work[s])
    BY <1>1 DEF WorkInv
  <1> QED
    BY <1>1, <1>2 DEF Sound, Works

\* A feedback or run request arriving.
LEMMA RecordArrive ==
    ASSUME AdminInv, RecordInv, NEW s \in Slots, NEW t \in tokens, NEW op, NEW tgt, NEW new,
           EnterWork(s, op, t, tgt, new),
           \/ op \in FeedbackOps /\ tgt \in Findings /\ new \in Bodies
           \/ op \in RunOps /\ tgt \in Runs /\ new = Gone
    PROVE  WorkInv'
  <1> DEFINE w == [phase |-> "ready", op |-> op, by |-> t.user, tgt |-> tgt,
                   new |-> new, old |-> new, pend |-> {}]
  <1>1. t.user \in Users
    BY DEF AdminInv, UsersTypeOK, Token
  <1>2. w \in Works
    BY <1>1 DEF Works, AskedRows, LoadedRows
  <1>3. Sound(w)
    BY <1>2 DEF Sound, FeedbackOps, RunOps
  <1>4. work' = [work EXCEPT ![s] = w] /\ WorkInv
    BY DEF EnterWork, RecordInv
  <1> HIDE DEF w
  <1> QED
    BY <1>3, <1>4, WorkStep

\* The handlers that read, and the requests refused, change no row.
LEMMA RecordRead ==
    ASSUME RecordInv, NEW s \in Slots,
           \/ ReadForCreate(s) \/ ReadForUpdate(s) \/ ReadForOverride(s) \/ ReadForDelete(s)
           \/ DropWork(s)
    PROVE  WorkInv' /\ UNCHANGED dataVars
  <1> DEFINE w == work[s]
  <1>0. WorkInv /\ work \in [Slots -> Works \cup {Idle}]
    BY DEF RecordInv, WorkInv
  <1>1. CASE DropWork(s)
    <2>1. work' = [work EXCEPT ![s] = Idle] /\ UNCHANGED dataVars
      BY <1>1 DEF DropWork
    <2> QED
      BY <1>0, <2>1, WorkStep
  <1>2. CASE ~DropWork(s)
    <2>1. work[s].phase # "idle"
      BY <1>2 DEF ReadForCreate, ReadForUpdate, ReadForOverride, ReadForDelete, Doing
    <2>2. Sound(w) /\ w \in Works
      BY <1>0, <2>1, ServedTyped
    <2>3. ASSUME NEW old, NEW new, StageWork(s, old, new),
                 old \in Annotation \cup {NoAnn} \cup RunRow \cup {Gone},
                 \/ w.op \in FeedbackOps /\ new \in Bodies /\ PointsInRun(w.tgt, new.ptr)
                 \/ w.op \in RunOps /\ new \in RunRow
          PROVE  WorkInv' /\ UNCHANGED dataVars
      <3> DEFINE v == [w EXCEPT !.phase = "commit", !.old = old, !.new = new]
      <3>0. old \in LoadedRows /\ new \in AskedRows /\ {} \in SUBSET Findings
        BY <2>3 DEF LoadedRows, AskedRows
      <3>1. v \in Works /\ v.op = w.op /\ v.tgt = w.tgt /\ v.new = new
        BY <2>2, <3>0 DEF Works
      <3>2. Sound(v)
        BY <2>2, <2>3, <3>1 DEF Sound, FeedbackOps, RunOps
      <3>3. work' = [work EXCEPT ![s] = v]
        BY <1>0, <2>2, <2>3 DEF StageWork
      <3>4. UNCHANGED dataVars
        BY <2>3 DEF StageWork
      <3> HIDE DEF v
      <3> QED
        BY <1>0, <3>2, <3>3, <3>4, WorkStep
    <2>4. CASE ReadForCreate(s)
      <3>1. w.op = "create_feedback" /\ w.op \in FeedbackOps
        BY <2>4 DEF ReadForCreate, Doing, FeedbackOps
      <3>2. StageWork(s, NoAnn, w.new) /\ DuplicateRules(w.tgt, w.new)
        BY <1>2, <2>4 DEF ReadForCreate
      <3>3. w.new \in Bodies /\ PointsInRun(w.tgt, w.new.ptr)
        BY <2>2, <3>1, <3>2 DEF Sound, DuplicateRules, PointsInRun
      <3> QED
        BY <2>3, <3>1, <3>2, <3>3
    <2>5. CASE ReadForUpdate(s)
      <3>1. w.op = "update_feedback" /\ w.op \in FeedbackOps
        BY <2>5 DEF ReadForUpdate, Doing, FeedbackOps
      <3>2. StageWork(s, ann[w.tgt], w.new) /\ DuplicateRules(w.tgt, w.new)
        BY <1>2, <2>5 DEF ReadForUpdate
      <3>3. w.new \in Bodies /\ PointsInRun(w.tgt, w.new.ptr) /\ w.tgt \in Findings
        BY <2>2, <3>1, <3>2 DEF Sound, DuplicateRules, PointsInRun
      <3>4. ann[w.tgt] \in Annotation \cup {NoAnn}
        BY <3>3 DEF RecordInv, RowsTyped
      <3> QED
        BY <2>3, <3>1, <3>2, <3>3, <3>4
    <2>6. CASE ReadForOverride(s)
      <3> DEFINE new == [status |-> IF w.op = "cancel" THEN "cancelled" ELSE "completed",
                         done |-> TRUE]
      <3>1. w.op \in RunOps /\ StageWork(s, runs[w.tgt], new)
        BY <1>2, <2>6 DEF ReadForOverride, RunOps
      <3>2. new \in RunRow
        BY DEF RunRow, Statuses
      <3>3. runs[w.tgt] \in RunRow \cup {Gone}
        BY <2>2, <3>1 DEF RecordInv, RowsTyped, Sound
      <3> HIDE DEF new
      <3> QED
        BY <2>3, <3>1, <3>2, <3>3
    <2>7. CASE ReadForDelete(s)
      <3> DEFINE mine == {f \in FindingsOf(w.tgt) : Annotated(f)}
                 v == [w EXCEPT !.phase = "commit", !.old = runs[w.tgt], !.pend = mine]
      <3>1. w.op = "delete_run" /\ w.op \in RunOps
        BY <2>7 DEF ReadForDelete, Doing, RunOps
      <3>2. mine \in SUBSET Findings /\ runs[w.tgt] \in RunRow \cup {Gone}
        BY <2>2, <3>1 DEF RecordInv, RowsTyped, Sound, FindingsOf
      <3>3. w.new \in AskedRows /\ runs[w.tgt] \in LoadedRows
        BY <2>2, <3>2 DEF Works, LoadedRows, AskedRows
      <3>4. work' = [work EXCEPT ![s].phase = "commit", ![s].old = runs[w.tgt], ![s].pend = mine]
            /\ UNCHANGED dataVars
        BY <1>2, <2>7 DEF ReadForDelete
      <3> HIDE DEF mine
      <3>5. v \in Works /\ v.op = w.op /\ v.tgt = w.tgt
        BY <2>2, <3>2, <3>3 DEF Works
      <3>6. Sound(v)
        BY <2>2, <3>1, <3>5 DEF Sound, FeedbackOps, RunOps
      <3>7. work' = [work EXCEPT ![s] = v]
        BY <1>0, <2>2, <3>4
      <3> HIDE DEF v
      <3> QED
        BY <1>0, <3>4, <3>6, <3>7, WorkStep
    <2> QED
      BY <1>2, <2>4, <2>5, <2>6, <2>7
  <1> QED
    BY <1>1, <1>2

\* A step that stores one annotation of an existing finding, with its history.
LEMMA AnnotationStep ==
    ASSUME RecordInv, WorkInv', Limited', UNCHANGED <<users, runs, log>>,
           NEW f \in Findings, NEW row \in Annotation, NEW e,
           ann' = [ann EXCEPT ![f] = row], hist' = [hist EXCEPT ![f] = @ \cup {e}],
           FindingExists(f), PointerCheck(row), PointsInRun(f, row.ptr),
           row.ptr # NoFinding => FindingExists(row.ptr), Exists(row.by),
           \E g \in hist[f] \cup {e} : g.new = row.label /\ g.old # g.new,
           row.ptr # NoFinding => \E g \in hist[f] \cup {e} : g.newPtr = row.ptr
    PROVE  RecordInv'
  <1>1. RowsTyped /\ ann \in [Findings -> Annotation \cup {NoAnn}] /\ DOMAIN hist = Findings
    BY DEF RecordInv, RowsTyped
  <1>2. ann'[f] = row /\ \A g \in Findings : g # f => ann'[g] = ann[g]
    BY <1>1
  <1>3. hist'[f] = hist[f] \cup {e} /\ \A g \in Findings : g # f => hist'[g] = hist[g]
    BY <1>1
  <1>4. RowsTyped'
    BY <1>1 DEF RowsTyped
  <1>5. FeedbackWellFormed'
    <2> SUFFICES ASSUME NEW g \in Findings, Annotated(g)'
                 PROVE  /\ (ann'[g].label = "duplicate") = (ann'[g].ptr # NoFinding)
                        /\ ann'[g].ptr # NoFinding =>
                            /\ RunOf[ann'[g].ptr] = RunOf[g]
                            /\ runs[RunOf[ann'[g].ptr]] # Gone
      BY DEF FeedbackWellFormed, FindingExists, RunExists
    <2>1. CASE g = f
      BY <1>2, <2>1 DEF PointerCheck, PointsInRun, FindingExists, RunExists
    <2>2. CASE g # f
      <3>1. ann'[g] = ann[g] /\ Annotated(g)
        BY <1>2, <2>2 DEF Annotated
      <3> QED
        BY <3>1 DEF RecordInv, FeedbackWellFormed, FindingExists, RunExists
    <2> QED
      BY <2>1, <2>2
  <1>6. HistoryExplains'
    <2> SUFFICES ASSUME NEW g \in Findings, Annotated(g)'
                 PROVE  /\ \E h \in hist'[g] : h.new = ann'[g].label /\ h.old # h.new
                        /\ ann'[g].ptr # NoFinding => \E h \in hist'[g] : h.newPtr = ann'[g].ptr
      BY DEF HistoryExplains
    <2>1. CASE g = f
      BY <1>2, <1>3, <2>1
    <2>2. CASE g # f
      <3>1. ann'[g] = ann[g] /\ hist'[g] = hist[g] /\ Annotated(g)
        BY <1>2, <1>3, <2>2 DEF Annotated
      <3> QED
        BY <3>1 DEF RecordInv, HistoryExplains
    <2> QED
      BY <2>1, <2>2
  <1>7. ReviewerExists'
    <2> SUFFICES ASSUME NEW g \in Findings, Annotated(g)' PROVE users[ann'[g].by].role \in Roles
      BY DEF ReviewerExists, Exists
    <2>1. CASE g = f
      BY <1>2, <2>1 DEF Exists
    <2>2. CASE g # f
      BY <1>2, <2>2 DEF RecordInv, ReviewerExists, Exists, Annotated
    <2> QED
      BY <2>1, <2>2
  <1>8. DeletionIsWhole'
    <2> SUFFICES ASSUME NEW r \in Runs, ~RunExists(r)
                 PROVE  /\ \A g \in FindingsOf(r) : ~Annotated(g)' /\ hist'[g] = {}
                        /\ \E a \in log : a.run = r /\ a.action = "delete_run"
      BY DEF DeletionIsWhole, RunExists, FindingsOf
    <2>1. \A g \in FindingsOf(r) : g \in Findings /\ g # f
      BY DEF FindingsOf, FindingExists
    <2>2. \A g \in FindingsOf(r) : ann'[g] = ann[g] /\ hist'[g] = hist[g]
      BY <1>2, <1>3, <2>1
    <2> QED
      BY <2>2 DEF RecordInv, DeletionIsWhole, Annotated
  <1> QED
    BY <1>4, <1>5, <1>6, <1>7, <1>8 DEF RecordInv

\* POST: the row of a finding that had none.
LEMMA CreateKeeps ==
    ASSUME RecordInv, NEW s \in Slots, CreateFeedback(s), ~DropWork(s),
           UNCHANGED <<usersVars, load, asked, writes>>
    PROVE  RecordInv'
  <1> DEFINE w == work[s]
             row == [label |-> w.new.label, ptr |-> w.new.ptr, by |-> w.by]
  <1>1. Doing(s, "commit", "create_feedback") /\ WorkInv
    BY DEF CreateFeedback, RecordInv
  <1>2. Sound(w) /\ w.by \in Users
    BY <1>1, ServedTyped DEF Doing
  <1>3. w.tgt \in Findings /\ w.new \in Bodies /\ PointsInRun(w.tgt, w.new.ptr)
    BY <1>1, <1>2 DEF Sound, Doing, FeedbackOps
  <1>4. w.new.label \in Labels /\ w.new.ptr \in Findings \cup {NoFinding}
    BY <1>3, PortalAssumption
  <1>5. row \in Annotation /\ row.label = w.new.label /\ row.ptr = w.new.ptr /\ row.by = w.by
    BY <1>2, <1>4 DEF Annotation
  <1>6. /\ PointerCheck(row) /\ ReferencesHold(w.tgt, row, w.by)
        /\ ann' = [ann EXCEPT ![w.tgt] = row]
        /\ hist' = [hist EXCEPT ![w.tgt] = @ \cup {Entry(NoAnn, row)}]
        /\ work' = [work EXCEPT ![s] = Idle]
        /\ UNCHANGED <<runs, log>>
    BY DEF CreateFeedback
  <1> HIDE DEF row
  <1>7. WorkInv' /\ Limited' /\ users' = users
    BY <1>1, <1>6, WorkStep DEF RecordInv, Limited, usersVars
  <1>8. /\ Entry(NoAnn, row).new = row.label /\ Entry(NoAnn, row).newPtr = row.ptr
        /\ Entry(NoAnn, row).old = "none"
    BY DEF Entry, NoAnn
  <1>9. "none" # row.label
    BY <1>4, <1>5 DEF Labels
  <1> DEFINE e == Entry(NoAnn, row)
  <1>10. /\ \E g \in hist[w.tgt] \cup {e} : g.new = row.label /\ g.old # g.new
         /\ row.ptr # NoFinding => \E g \in hist[w.tgt] \cup {e} : g.newPtr = row.ptr
    BY <1>8, <1>9
  <1>11. hist' = [hist EXCEPT ![w.tgt] = @ \cup {e}]
    BY <1>6
  <1>12. /\ FindingExists(w.tgt) /\ PointsInRun(w.tgt, row.ptr) /\ Exists(row.by)
         /\ row.ptr # NoFinding => FindingExists(row.ptr)
    BY <1>3, <1>5, <1>6 DEF ReferencesHold
  <1> HIDE DEF e, w
  <1> QED
    BY <1>3, <1>5, <1>6, <1>7, <1>10, <1>11, <1>12, AnnotationStep

\* PATCH: the columns that differ from the loaded row, over the row as it is.
LEMMA UpdateKeeps ==
    ASSUME RecordInv, NEW s \in Slots, UpdateFeedback(s), ~DropWork(s),
           UNCHANGED <<usersVars, load, asked, writes>>
    PROVE  RecordInv'
  <1> DEFINE w == work[s]
             f == w.tgt
             row == MergeAnn(w.old, w.new, ann[f])
             e == HistoryRow(w.old, w.new)
  <1>1. Doing(s, "commit", "update_feedback") /\ WorkInv /\ RowsTyped
    BY DEF UpdateFeedback, RecordInv
  <1>2. Sound(w)
    BY <1>1, ServedTyped DEF Doing
  <1>3. f \in Findings /\ w.new \in Bodies /\ PointsInRun(f, w.new.ptr)
    BY <1>1, <1>2 DEF Sound, Doing, FeedbackOps
  <1>4. w.new.label \in Labels /\ w.new.ptr \in Findings \cup {NoFinding}
    BY <1>3, PortalAssumption
  <1>5. /\ Annotated(f) /\ PointerCheck(row) /\ ReferencesHold(f, row, w.by)
        /\ ann' = [ann EXCEPT ![f] = row]
        /\ hist' = [hist EXCEPT ![f] = @ \cup {e}]
        /\ work' = [work EXCEPT ![s] = Idle]
        /\ UNCHANGED <<runs, log>>
    BY DEF UpdateFeedback
  <1>6. /\ ann[f].label \in Labels /\ ann[f].ptr \in Findings \cup {NoFinding}
        /\ ann[f].by \in Users
    BY <1>1, <1>3, <1>5, AnnotationTyped
  <1>7. /\ row.label = IF w.new.label = w.old.label THEN ann[f].label ELSE w.new.label
        /\ row.ptr = IF w.new.ptr = NoFinding /\ w.old.ptr = NoFinding THEN ann[f].ptr ELSE w.new.ptr
        /\ row.by = ann[f].by
    BY DEF MergeAnn
  <1>8. row \in Annotation
    BY <1>4, <1>6 DEF MergeAnn, Annotation
  <1>9. PointsInRun(f, row.ptr)
    <2>1. PointsInRun(f, ann[f].ptr)
      BY <1>3, <1>5 DEF RecordInv, FeedbackWellFormed, PointsInRun
    <2> QED
      BY <1>3, <1>7, <2>1
  <1>10. Exists(row.by)
    BY <1>3, <1>5, <1>7 DEF RecordInv, ReviewerExists
  <1>11. /\ e.new = w.new.label /\ e.old = w.old.label /\ e.newPtr = w.new.ptr
    BY DEF HistoryRow, Entry
  <1>12. /\ \E g \in hist[f] : g.new = ann[f].label /\ g.old # g.new
         /\ ann[f].ptr # NoFinding => \E g \in hist[f] : g.newPtr = ann[f].ptr
    BY <1>3, <1>5 DEF RecordInv, HistoryExplains
  <1> HIDE DEF e, row
  <1>13. /\ \E g \in hist[f] \cup {e} : g.new = row.label /\ g.old # g.new
         /\ row.ptr # NoFinding => \E g \in hist[f] \cup {e} : g.newPtr = row.ptr
    BY <1>7, <1>11, <1>12
  <1>14. FindingExists(f) /\ (row.ptr # NoFinding => FindingExists(row.ptr))
    BY <1>5 DEF ReferencesHold
  <1>15. WorkInv' /\ Limited' /\ users' = users
    BY <1>1, <1>5, WorkStep DEF RecordInv, Limited, usersVars
  <1> HIDE DEF f, w
  <1> QED
    BY <1>3, <1>5, <1>8, <1>9, <1>10, <1>13, <1>14, <1>15, AnnotationStep

\* An override and the worker write the row of a run that exists.
LEMMA RunStep ==
    ASSUME RecordInv, WorkInv', Limited', UNCHANGED <<users, ann, hist>>, log \subseteq log',
           NEW r \in Runs, NEW row \in RunRow, RunExists(r), runs' = [runs EXCEPT ![r] = row]
    PROVE  RecordInv'
  <1>1. RowsTyped /\ runs \in [Runs -> RunRow \cup {Gone}]
    BY DEF RecordInv, RowsTyped
  <1>2. row # Gone
    BY DEF RunRow, Gone, Statuses
  <1>3. runs' \in [Runs -> RunRow \cup {Gone}]
        /\ \A q \in Runs : runs'[q] = Gone <=> runs[q] = Gone
    BY <1>1, <1>2 DEF RunExists
  <1>4. RowsTyped' /\ HistoryExplains' /\ ReviewerExists'
    BY <1>1, <1>3 DEF RowsTyped, RecordInv, HistoryExplains, ReviewerExists, Annotated, Exists
  <1>5. FeedbackWellFormed'
    <2> SUFFICES ASSUME NEW g \in Findings, Annotated(g)
                 PROVE  /\ (ann[g].label = "duplicate") = (ann[g].ptr # NoFinding)
                        /\ ann[g].ptr # NoFinding =>
                            /\ RunOf[ann[g].ptr] = RunOf[g]
                            /\ runs'[RunOf[ann[g].ptr]] # Gone
      BY DEF FeedbackWellFormed, FindingExists, RunExists, Annotated
    <2>1. ann[g].ptr # NoFinding => RunOf[ann[g].ptr] \in Runs
      BY <1>1, AnnotationTyped, PortalAssumption
    <2> QED
      BY <1>3, <2>1 DEF RecordInv, FeedbackWellFormed, FindingExists, RunExists
  <1>6. DeletionIsWhole'
    BY <1>3 DEF RecordInv, DeletionIsWhole, RunExists, FindingsOf, Annotated
  <1> QED
    BY <1>4, <1>5, <1>6 DEF RecordInv

LEMMA OverrideKeeps ==
    ASSUME RecordInv, NEW s \in Slots, Override(s), ~DropWork(s),
           UNCHANGED <<usersVars, load, asked, writes>>
    PROVE  RecordInv'
  <1> DEFINE w == work[s]
             r == w.tgt
             row == [status |-> w.new.status, done |-> IF w.old.done THEN runs[r].done ELSE TRUE]
  <1>1. /\ w.phase = "commit" /\ w.op \in {"cancel", "complete"}
        /\ RunExists(r) /\ runs' = [runs EXCEPT ![r] = row]
        /\ log' = log \cup {Action(w, w.new.status)}
        /\ work' = [work EXCEPT ![s] = Idle] /\ UNCHANGED <<ann, hist>>
    BY DEF Override
  <1>2. WorkInv /\ RowsTyped /\ Sound(w)
    BY <1>1, ServedTyped DEF RecordInv
  <1>3. r \in Runs /\ w.new \in RunRow
    BY <1>1, <1>2 DEF Sound, RunOps
  <1>4. runs[r] \in RunRow
    BY <1>1, <1>2, <1>3 DEF RowsTyped, RunExists
  <1>5. row \in RunRow
    BY <1>3, <1>4 DEF RunRow
  <1>6. WorkInv' /\ Limited' /\ users' = users /\ log \subseteq log'
    BY <1>1, <1>2, WorkStep DEF RecordInv, Limited, usersVars
  <1> HIDE DEF w, r, row
  <1> QED
    BY <1>1, <1>3, <1>5, <1>6, RunStep

LEMMA WorkerKeeps ==
    ASSUME RecordInv, NEW r \in Runs, Worker(r), writes < MaxWrites, writes' = writes + 1,
           UNCHANGED <<usersVars, load, asked>>
    PROVE  RecordInv'
  <1>1. PICK row \in RunRow : runs' = [runs EXCEPT ![r] = row]
    <2>1. [status |-> "in_progress", done |-> FALSE] \in RunRow
      BY DEF RunRow, Statuses
    <2>2. ASSUME NEW status \in Statuses PROVE [status |-> status, done |-> TRUE] \in RunRow
      BY DEF RunRow
    <2> QED
      BY <2>1, <2>2 DEF Worker
  <1>2. RunExists(r) /\ UNCHANGED <<ann, hist, log, work, users>>
    BY DEF Worker, usersVars
  <1>3. Limited'
    BY PortalAssumption DEF RecordInv, Limited
  <1>4. WorkInv'
    BY <1>2 DEF RecordInv, WorkInv, Sound
  <1> QED
    BY <1>1, <1>2, <1>3, <1>4, RunStep

\* A run goes with its annotations and their history, and is logged; a
\* pointer never leaves its run, so none is left behind.
LEMMA DeleteRunKeeps ==
    ASSUME RecordInv, NEW s \in Slots, DeleteRun(s), ~DropWork(s),
           UNCHANGED <<usersVars, load, asked, writes>>
    PROVE  RecordInv'
  <1> DEFINE w == work[s]
             r == w.tgt
  <1>1. /\ Doing(s, "commit", "delete_run") /\ Cascade(r) /\ runs' = [runs EXCEPT ![r] = Gone]
        /\ log' = log \cup {Action(w, "deleted")} /\ work' = [work EXCEPT ![s] = Idle]
    BY DEF DeleteRun
  <1>2. WorkInv /\ RowsTyped /\ Sound(w)
    BY <1>1, ServedTyped DEF RecordInv, Doing
  <1>3. r \in Runs
    BY <1>1, <1>2 DEF Sound, RunOps, Doing
  <1>4. WorkInv' /\ Limited' /\ users' = users
    BY <1>1, <1>2, WorkStep DEF RecordInv, Limited, usersVars
  <1>5. Action(w, "deleted").run = r /\ Action(w, "deleted").action = "delete_run"
    BY <1>1 DEF Action, Doing
  <1> HIDE DEF w, r
  <1>6. runs'[r] = Gone /\ \A q \in Runs : q # r => runs'[q] = runs[q]
    BY <1>1, <1>2, <1>3 DEF RowsTyped
  <1>7. \A g \in Findings : IF RunOf[g] = r THEN ann'[g] = NoAnn /\ hist'[g] = {}
                                            ELSE ann'[g] = ann[g] /\ hist'[g] = hist[g]
    BY <1>1 DEF Cascade
  <1>8. \A g \in Findings : Annotated(g)' => /\ Annotated(g) /\ RunOf[g] # r
                                            /\ ann'[g] = ann[g] /\ hist'[g] = hist[g]
    BY <1>7 DEF Annotated, NoAnn, Labels
  <1>9. RowsTyped'
    BY <1>1, <1>2, <1>3 DEF RowsTyped, Cascade
  <1>10. HistoryExplains' /\ ReviewerExists'
    BY <1>4, <1>8 DEF RecordInv, HistoryExplains, ReviewerExists, Exists
  <1>11. FeedbackWellFormed'
    <2> SUFFICES ASSUME NEW g \in Findings, Annotated(g)'
                 PROVE  /\ (ann'[g].label = "duplicate") = (ann'[g].ptr # NoFinding)
                        /\ ann'[g].ptr # NoFinding =>
                            /\ RunOf[ann'[g].ptr] = RunOf[g]
                            /\ runs'[RunOf[ann'[g].ptr]] # Gone
      BY DEF FeedbackWellFormed, FindingExists, RunExists
    <2>1. Annotated(g) /\ ann'[g] = ann[g] /\ RunOf[g] # r /\ RunOf[g] \in Runs
      BY <1>8, PortalAssumption
    <2>2. /\ (ann[g].label = "duplicate") = (ann[g].ptr # NoFinding)
          /\ ann[g].ptr # NoFinding =>
                RunOf[ann[g].ptr] = RunOf[g] /\ runs[RunOf[g]] # Gone
      BY <2>1 DEF RecordInv, FeedbackWellFormed, FindingExists, RunExists
    <2> QED
      BY <1>6, <2>1, <2>2
  <1>12. DeletionIsWhole'
    <2> SUFFICES ASSUME NEW q \in Runs, runs'[q] = Gone
                 PROVE  /\ \A g \in FindingsOf(q) : ~Annotated(g)' /\ hist'[g] = {}
                        /\ \E a \in log' : a.run = q /\ a.action = "delete_run"
      BY DEF DeletionIsWhole, RunExists, FindingsOf
    <2>1. CASE q = r
      <3>1. \A g \in FindingsOf(q) : g \in Findings /\ RunOf[g] = r
        BY <2>1 DEF FindingsOf
      <3>2. \A g \in FindingsOf(q) : hist'[g] = {} /\ ~Annotated(g)'
        BY <1>7, <1>8, <3>1
      <3>3. Action(w, "deleted") \in log'
        BY <1>1
      <3> QED
        BY <1>5, <2>1, <3>2, <3>3
    <2>2. CASE q # r
      <3>1. ~RunExists(q)
        BY <1>6, <2>2 DEF RunExists
      <3>2. /\ \A g \in FindingsOf(q) : ~Annotated(g) /\ hist[g] = {}
            /\ \E a \in log : a.run = q /\ a.action = "delete_run"
        BY <3>1 DEF RecordInv, DeletionIsWhole
      <3>3. \A g \in FindingsOf(q) : g \in Findings /\ RunOf[g] # r
        BY <2>2 DEF FindingsOf
      <3>4. \A g \in FindingsOf(q) : ~Annotated(g)' /\ hist'[g] = {}
        BY <1>7, <1>8, <3>2, <3>3
      <3> QED
        BY <1>1, <3>2, <3>4
    <2> QED
      BY <2>1, <2>2
  <1> QED
    BY <1>4, <1>9, <1>10, <1>11, <1>12 DEF RecordInv

\* Annotations, their history and their runs agree in every state, for any
\* number of findings, runs, reviewers and requests served at once: whatever
\* POSTs, PATCHes, overrides, deletions of runs and accounts and writes of the
\* audit worker overlap (api/findings.py, api/runs.py, api/users.py).
THEOREM PortalRecordsWhole == Spec => []RecordsWhole
  <1>1. Init => RecordInv
    <2> SUFFICES ASSUME Init PROVE RecordInv
      OBVIOUS
    <2>1. RowsTyped
      BY DEF Init, RowsTyped, RunRow, Statuses
    <2>2. WorkInv
      BY DEF Init, WorkInv
    <2>3. Limited
      <3>1. load \in Workloads /\ MaxRequests[load] \in Nat /\ MaxWrites \in Nat
        BY PortalAssumption DEF Init
      <3> QED
        BY <3>1 DEF Init, Limited
    <2>4. \A f \in Findings : ~Annotated(f)
      BY DEF Init, Annotated, NoAnn, Labels
    <2>5. \A r \in Runs : RunExists(r)
      BY DEF Init, RunExists, Gone
    <2> QED
      BY <2>1, <2>2, <2>3, <2>4, <2>5 DEF RecordInv, FeedbackWellFormed, HistoryExplains,
                                          ReviewerExists, DeletionIsWhole
  <1>2. AdminInv /\ SessionInv /\ RecordInv /\ [Next]_vars => RecordInv'
    <2> SUFFICES ASSUME AdminInv, SessionInv, RecordInv, [Next]_vars PROVE RecordInv'
      OBVIOUS
    <2>0. /\ WorkInv /\ Limited /\ RowsTyped
          /\ \A f \in Findings : Annotated(f) => ann[f].by \in Users /\ Exists(ann[f].by)
      BY AnnotationTyped DEF RecordInv, ReviewerExists
    <2>1. ASSUME UNCHANGED <<dataVars, work, load, asked, writes>>,
                 \A f \in Findings : Annotated(f) => users'[ann[f].by].role \in Roles
          PROVE  RecordInv'
      BY <2>0, <2>1, RecordFrame DEF WorkInv, Sound, Limited
    <2>2. ASSUME UNCHANGED dataVars, WorkInv', Limited', users' = users
          PROVE  RecordInv'
      BY <2>0, <2>2, RecordFrame DEF Exists
    <2>3. ASSUME NEW s \in Slots, asked < MaxRequests[load], AskedBy(s), asked' = asked + 1,
                 UNCHANGED <<load, writes>>
          PROVE  RecordInv'
      <3>1. Limited'
        BY <2>0, <2>3, PortalAssumption DEF Limited
      <3>2. CASE UNCHANGED <<dataVars, work>>
        <4>1. WorkInv'
          BY <2>0, <3>2 DEF WorkInv, Sound
        <4>2. users' = users
          BY <2>3 DEF AskedBy, AskLogin, AskOwn, AskAdmin, Enter, usersVars
        <4> QED
          BY <2>2, <3>1, <3>2, <4>1, <4>2
      <3>3. ASSUME NEW op \in FeedbackOps, NEW t \in tokens, NEW f \in Findings, NEW new \in Bodies,
                   AskFeedback(s, op, t, f, new), UNCHANGED usersVars
            PROVE  RecordInv'
        <4>1. EnterWork(s, op, t, f, new) /\ UNCHANGED dataVars /\ users' = users
          BY <3>3 DEF AskFeedback, EnterWork, usersVars
        <4> QED
          BY <2>2, <3>1, <4>1, RecordArrive
      <3>4. ASSUME NEW op \in RunOps, NEW t \in tokens, NEW r \in Runs,
                   AskRun(s, op, t, r), UNCHANGED usersVars
            PROVE  RecordInv'
        <4>1. EnterWork(s, op, t, r, Gone) /\ UNCHANGED dataVars /\ users' = users
          BY <3>4 DEF AskRun, EnterWork, usersVars
        <4> QED
          BY <2>2, <3>1, <4>1, RecordArrive
      <3> QED
        BY <2>3, <3>2, <3>3, <3>4 DEF AskedBy
    <2>4. ASSUME NEW s \in Slots, Serve(s), UNCHANGED portalVars PROVE RecordInv'
      <3>1. UNCHANGED <<dataVars, work, load, asked, writes>>
        BY <2>4 DEF portalVars
      <3>2. \A v \in Users : Exists(v) => users'[v].role \in Roles
        BY <2>4, AccountsStay DEF Exists
      <3> QED
        BY <2>0, <2>1, <3>1, <3>2
    <2>5. ASSUME NEW s \in Slots, CommitDelete(s, req[s] # Idle /\ Referenced(s)),
                 UNCHANGED portalVars
          PROVE  RecordInv'
      <3>1. UNCHANGED <<dataVars, work, load, asked, writes>>
        BY <2>5 DEF portalVars
      <3>2. \A f \in Findings : Annotated(f) => users'[ann[f].by].role \in Roles
        BY <2>0, <2>5, ReviewersStay
      <3> QED
        BY <2>1, <3>1, <3>2
    <2>6. ASSUME NEW s \in Slots, ServeWork(s), UNCHANGED <<usersVars, load, asked, writes>>
          PROVE  RecordInv'
      <3>1. CASE \/ ReadForCreate(s) \/ ReadForUpdate(s) \/ ReadForOverride(s)
                 \/ ReadForDelete(s) \/ DropWork(s)
        <4>1. WorkInv' /\ UNCHANGED dataVars
          BY <3>1, RecordRead
        <4>2. Limited' /\ users' = users
          BY <2>0, <2>6 DEF Limited, usersVars
        <4> QED
          BY <2>2, <4>1, <4>2
      <3>2. CASE ~DropWork(s)
        BY <2>6, <3>1, <3>2, CreateKeeps, UpdateKeeps, OverrideKeeps, DeleteRunKeeps DEF ServeWork
      <3> QED
        BY <3>1, <3>2
    <2>7. CASE Next
      BY <2>3, <2>4, <2>5, <2>6, <2>7, WorkerKeeps DEF Next
    <2>8. CASE UNCHANGED vars
      <3>1. UNCHANGED <<dataVars, work, load, asked, writes>> /\ users' = users
        BY <2>8 DEF vars, portalVars, usersVars
      <3> QED
        BY <2>0, <2>1, <3>1 DEF Exists
    <2> QED
      BY <2>7, <2>8
  <1>3. AdminInv /\ RecordInv => RecordsWhole
    BY DEF AdminInv, RecordInv, RowsTyped, Limited, RecordsWhole, TypeOK
  <1> QED
    BY <1>1, <1>2, <1>3, AdminInvariant, SessionInvariant, PortalImplementsUsers, PTL DEF Spec

-----------------------------------------------------------------------------
(* The run metrics.                                                         *)

\* A part and the rest.
LEMMA Parts ==
    ASSUME NEW S, IsFiniteSet(S), NEW A \in SUBSET S
    PROVE  /\ IsFiniteSet(S \ A)
           /\ Cardinality(A) \in Nat /\ Cardinality(S \ A) \in Nat
           /\ Cardinality(S) = Cardinality(A) + Cardinality(S \ A)
  <1> DEFINE B == S \ A
  <1>1. IsFiniteSet(A) /\ IsFiniteSet(B)
    BY FS_Subset
  <1>2. Cardinality(A) \in Nat /\ Cardinality(B) \in Nat
    BY <1>1, FS_CardinalityType
  <1>3. Cardinality({}) = 0
    BY FS_EmptySet
  <1>4. S = A \cup B /\ A \cap B = {}
    OBVIOUS
  <1> HIDE DEF B
  <1>5. Cardinality(A \cup B) = Cardinality(A) + Cardinality(B) - Cardinality(A \cap B)
    BY <1>1, FS_Union
  <1>6. Cardinality(A \cap B) = 0 /\ Cardinality(S) = Cardinality(A \cup B)
    BY <1>3, <1>4
  <1>7. Cardinality(S) = Cardinality(A) + Cardinality(B)
    BY <1>2, <1>5, <1>6
  <1> QED
    BY <1>1, <1>2, <1>7, Zenon DEF B

\* Every finding is in one feedback bucket (_row_to_metrics).
LEMMA Buckets ==
    ASSUME NEW F, IsFiniteSet(F)
    PROVE  Cardinality(F) = Cardinality(Labelled(F, "true_positive"))
                            + Cardinality(Labelled(F, "false_positive"))
                            + Cardinality(Labelled(F, "duplicate")) + Cardinality(Unlabelled(F))
  <1> DEFINE tp == Labelled(F, "true_positive")
             fp == Labelled(F, "false_positive")
             dup == Labelled(F, "duplicate")
             rest == Unlabelled(F)
             unsure == F \ tp
             other == unsure \ fp
  <1>1. tp \in SUBSET F /\ fp \in SUBSET unsure /\ dup \in SUBSET other
    BY DEF Labelled
  <1>2. rest = other \ dup
    BY DEF Labelled, Unlabelled, Annotated, Labels
  <1> HIDE DEF tp, fp, dup, rest
  <1>3. /\ IsFiniteSet(unsure) /\ Cardinality(tp) \in Nat /\ Cardinality(unsure) \in Nat
        /\ Cardinality(F) = Cardinality(tp) + Cardinality(unsure)
    BY <1>1, Parts
  <1> HIDE DEF unsure
  <1>4. /\ IsFiniteSet(other) /\ Cardinality(fp) \in Nat /\ Cardinality(other) \in Nat
        /\ Cardinality(unsure) = Cardinality(fp) + Cardinality(other)
    BY <1>1, <1>3, Parts
  <1> HIDE DEF other
  <1>5. /\ Cardinality(dup) \in Nat /\ Cardinality(other \ dup) \in Nat
        /\ Cardinality(other) = Cardinality(dup) + Cardinality(other \ dup)
    BY <1>1, <1>4, Parts
  <1>6. Cardinality(F) = Cardinality(tp) + Cardinality(fp) + Cardinality(dup) + Cardinality(rest)
    BY <1>2, <1>3, <1>4, <1>5
  <1> QED
    BY <1>6 DEF tp, fp, dup, rest

\* The valid tile counts the findings valid after feedback.
LEMMA NetIsValidAfterFeedback ==
    ASSUME NEW F, IsFiniteSet(F), \A f \in F : Verdict[f] \in AllVerdicts
    PROVE  ValidNet(F) = Cardinality({f \in F :
                IF Verdict[f] \in ValidStatuses THEN ann[f].label \notin {"false_positive", "duplicate"}
                ELSE ann[f].label = "true_positive"})
  <1> DEFINE valid == {f \in F : Verdict[f] \in ValidStatuses}
             added == Labelled({f \in F : Verdict[f] = "False Positive"}, "true_positive")
             fp == Labelled(valid, "false_positive")
             dup == Labelled(valid, "duplicate")
             unrefuted == valid \ fp
             kept == unrefuted \ dup
             net == {f \in F : IF Verdict[f] \in ValidStatuses
                               THEN ann[f].label \notin {"false_positive", "duplicate"}
                               ELSE ann[f].label = "true_positive"}
  <1>1. /\ valid \in SUBSET F /\ net \in SUBSET F
        /\ fp \in SUBSET valid /\ dup \in SUBSET unrefuted
    BY DEF Labelled
  <1>2. kept \in SUBSET net /\ added = net \ kept
    <2>1. "False Positive" \notin ValidStatuses
      BY DEF ValidStatuses
    <2>2. \A f \in F : Verdict[f] \notin ValidStatuses <=> Verdict[f] = "False Positive"
      BY <2>1 DEF AllVerdicts
    <2>3. \A f : f \in kept <=> /\ f \in F /\ Verdict[f] \in ValidStatuses
                                /\ ann[f].label \notin {"false_positive", "duplicate"}
      BY DEF Labelled
    <2>4. \A f : f \in added <=> /\ f \in F /\ Verdict[f] = "False Positive"
                                 /\ ann[f].label = "true_positive"
      BY DEF Labelled
    <2>5. \A f : f \in net <=> /\ f \in F
                               /\ IF Verdict[f] \in ValidStatuses
                                  THEN ann[f].label \notin {"false_positive", "duplicate"}
                                  ELSE ann[f].label = "true_positive"
      OBVIOUS
    <2> HIDE DEF net, kept, added
    <2> QED
      BY <2>2, <2>3, <2>4, <2>5
  <1>3. ValidNet(F) = (Cardinality(valid) + Cardinality(added))
                      - (Cardinality(fp) + Cardinality(dup))
    BY DEF ValidNet
  <1> HIDE DEF valid, added, fp, dup, net
  <1>4. IsFiniteSet(valid) /\ IsFiniteSet(net)
    BY <1>1, FS_Subset
  <1>5. /\ IsFiniteSet(unrefuted) /\ Cardinality(fp) \in Nat /\ Cardinality(unrefuted) \in Nat
        /\ Cardinality(valid) = Cardinality(fp) + Cardinality(unrefuted)
    BY <1>1, <1>4, Parts
  <1> HIDE DEF unrefuted
  <1>6. /\ Cardinality(dup) \in Nat /\ Cardinality(kept) \in Nat
        /\ Cardinality(unrefuted) = Cardinality(dup) + Cardinality(kept)
    BY <1>1, <1>5, Parts
  <1> HIDE DEF kept
  <1>7. /\ Cardinality(net \ kept) \in Nat
        /\ Cardinality(net) = Cardinality(kept) + Cardinality(net \ kept)
    BY <1>2, <1>4, Parts
  <1>8. ValidNet(F) = Cardinality(net)
    BY <1>2, <1>3, <1>5, <1>6, <1>7
  <1> QED
    BY <1>8 DEF net

\* For any findings, verdicts, coder verdicts and feedback and under any of the
\* filters, the valid tile of a run is the number of counted findings that are
\* valid after feedback, and the buckets partition them (_row_to_metrics).
THEOREM PortalTilesAddUp == Spec => []TilesAddUp
  <1>1. TilesAddUp
    <2> SUFFICES ASSUME NEW r \in Runs, NEW vf \in VerdictFilters, NEW cf \in CoderFilters
                 PROVE  LET F == Counted(r, vf, cf) IN
                        /\ ValidNet(F) = Cardinality({f \in F :
                                IF Verdict[f] \in ValidStatuses
                                THEN ann[f].label \notin {"false_positive", "duplicate"}
                                ELSE ann[f].label = "true_positive"})
                        /\ Cardinality(F) = Cardinality(Labelled(F, "true_positive"))
                                            + Cardinality(Labelled(F, "false_positive"))
                                            + Cardinality(Labelled(F, "duplicate"))
                                            + Cardinality(Unlabelled(F))
      BY DEF TilesAddUp
    <2> DEFINE F == Counted(r, vf, cf)
    <2>1. Kept(vf, ValidStatuses, AllVerdicts) \subseteq AllVerdicts
      BY DEF Kept, VerdictFilters, AllVerdicts
    <2>2. F \in SUBSET Findings /\ \A f \in F : Verdict[f] \in AllVerdicts
      BY <2>1 DEF Counted, FindingsOf
    <2> HIDE DEF F
    <2>3. IsFiniteSet(F)
      BY <2>2, FS_Subset, PortalAssumption
    <2> QED
      BY <2>2, <2>3, Buckets, NetIsValidAfterFeedback DEF F
  <1> QED
    BY <1>1, PTL

=============================================================================
