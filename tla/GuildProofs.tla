---------------------------- MODULE GuildProofs ----------------------------
(***************************************************************************)
(* What a guild's services test some statements before they write: the     *)
(* guild of a role, the owner of a guild, a ban.  Each of these facts      *)
(* stays true until the write, because an id is never given twice and      *)
(* neither the guild of a role nor the owner of a guild changes.           *)
(***************************************************************************)
EXTENDS StoreProofs

\* The inductive invariant of StoreProofs with the remembered past.
Base == Shape /\ StoreInv /\ SessionsHeld

LEMMA BaseStep == Base /\ [Next]_vars => Base'
BY ShapeStep, StoreStep, SessionStep DEF Base

LEMMA BaseInit == Init => Base
<1> SUFFICES ASSUME Init PROVE Base
  OBVIOUS
<1>1. ASSUME NEW k \in db.tokens PROVE k.token \in SessionsOf(k.token)
  <2> DEFINE pair == [token |-> k.token, session |-> k.token]
  <2>1. pair \in past.issued /\ pair.token = k.token /\ pair.session = k.token
    BY DEF Init
  <2> HIDE DEF pair
  <2> QED BY <2>1 DEF SessionsOf
<1>2. SessionsHeld
  BY <1>1 DEF Init, SessionsHeld, Kept
<1> QED BY <1>2, ShapeInit, StoreInit DEF Base

LEMMA ServeFrame ==
  ASSUME Base, NEW t \in Tasks, Serve(t)
  PROVE  Moves(t) /\ Frame(t) /\ lastId \in Nat /\ lastId' \in {lastId, lastId + 1} /\ IsDatabase(db')
BY StoreServe, Framed, RequestFrame DEF Base, Shape, StoreInv, StoreMove
-----------------------------------------------------------------------------
(***************************************************************************)
(* The roles of members.                                                   *)
(***************************************************************************)
\* A role that has been there, and is of the guild if it still is.
OwnRole(role, g, roles, last) == role \in 1..last /\ \A x \in roles : x.id = role => x.guild = g

RoleTask(call, at, row, roles, last) ==
  /\ call.op = "AssignRole" /\ at \in {"rank", "add"} => OwnRole(call.role, call.guild, roles, last)
  /\ call.op = "UpdateMember" /\ at = "roles" =>
       /\ row = [old |-> row.old, new |-> row.new, valid |-> row.valid]
       /\ \A v \in row.valid : OwnRole(v, call.guild, roles, last)
  /\ call.op = "CreateGuild" /\ at \in {"admin", "member", "assign everyone", "assign admin"} =>
       OwnRole(row.everyone, row.guild, roles, last)
  /\ call.op = "CreateGuild" /\ at \in {"member", "assign everyone", "assign admin"} =>
       OwnRole(row.admin, row.guild, roles, last)

RolesInv ==
  /\ \A x \in db.roles : x.id \in 1..lastId
  /\ \A r \in db.memberRoles : OwnRole(r.role, r.guild, db.roles, lastId)
  /\ \A t \in Tasks : RoleTask(task[t].call, task[t].at, task[t].row, db.roles, lastId)

\* Roles keep their guild; a new one has the next id.
RolesKept(roles, new, last, next) ==
  /\ last \in Nat /\ next \in {last, last + 1}
  /\ \A x \in new : \/ \E y \in roles : y.id = x.id /\ y.guild = x.guild
                    \/ x.id = last + 1 /\ next = last + 1

LEMMA OwnRoleStays ==
  ASSUME NEW roles, NEW new, NEW last, NEW next, RolesKept(roles, new, last, next)
  PROVE  /\ \A role, g : OwnRole(role, g, roles, last) => OwnRole(role, g, new, next)
         /\ (\A x \in roles : x.id \in 1..last) => \A x \in new : x.id \in 1..next
BY DEF RolesKept, OwnRole

LEMMA RoleTaskStays ==
  ASSUME NEW roles, NEW new, NEW last, NEW next, RolesKept(roles, new, last, next),
         NEW call, NEW at, NEW row, RoleTask(call, at, row, roles, last)
  PROVE  RoleTask(call, at, row, new, next)
BY OwnRoleStays DEF RoleTask

RoleMove(t) ==
  /\ Moves(t) /\ RolesKept(db.roles, db'.roles, lastId, lastId')
  /\ \A r \in db'.memberRoles : r \in db.memberRoles \/ OwnRole(r.role, r.guild, db.roles, lastId)
  /\ RoleTask(task'[t].call, task'[t].at, task'[t].row, db'.roles, lastId')

LEMMA RoleMoves ==
  ASSUME RolesInv, NEW t \in Tasks, RoleMove(t)
  PROVE  RolesInv'
<1>1. \A x \in db'.roles : x.id \in 1..lastId'
  BY OwnRoleStays DEF RolesInv, RoleMove
<1>2. ASSUME NEW r \in db'.memberRoles PROVE OwnRole(r.role, r.guild, db'.roles, lastId')
  <2>1. OwnRole(r.role, r.guild, db.roles, lastId)
    BY DEF RolesInv, RoleMove
  <2> QED BY <2>1, OwnRoleStays DEF RoleMove
<1>3. ASSUME NEW u \in Tasks PROVE RoleTask(task'[u].call, task'[u].at, task'[u].row, db'.roles, lastId')
  <2>1. CASE u = t
    BY <2>1 DEF RoleMove
  <2>2. CASE u # t
    <3>1. RoleTask(task[u].call, task[u].at, task[u].row, db.roles, lastId) /\ task'[u] = task[u]
      BY <2>2 DEF RolesInv, RoleMove, Moves
    <3> QED BY <3>1, RoleTaskStays DEF RoleMove
  <2> QED BY <2>1, <2>2
<1> QED BY <1>1, <1>2, <1>3 DEF RolesInv

\* Requests that carry no role, and write no role but delete some.
LEMMA FewerRoles ==
  ASSUME Base, NEW t \in Tasks, Serve(t), task[t].call.op \notin {"AssignRole", "UpdateMember", "CreateGuild"},
         db'.roles \subseteq db.roles, db'.memberRoles \subseteq db.memberRoles
  PROVE  RoleMove(t)
<1>1. Moves(t) /\ RolesKept(db.roles, db'.roles, lastId, lastId')
  BY ServeFrame DEF RolesKept
<1>2. task'[t].call.op \notin {"AssignRole", "UpdateMember", "CreateGuild"}
  BY <1>1 DEF Moves, Free
<1>3. RoleTask(task'[t].call, task'[t].at, task'[t].row, db'.roles, lastId')
  BY <1>2 DEF RoleTask
<1> QED BY <1>1, <1>3 DEF RoleMove

RoleWriters == {"CreateGuild", "UpdateMember", "AssignRole", "CreateRole", "UpdateRole"}

LEMMA RoleDeleters ==
  ASSUME Base, NEW t \in Tasks, Serve(t), task[t].call.op \notin RoleWriters
  PROVE  db'.roles \subseteq db.roles /\ db'.memberRoles \subseteq db.memberRoles
<1> USE DEF RoleWriters
<1>0. IsDatabase(db) /\ Frame(t)
  BY ServeFrame DEF Base, Shape
<1>1. CASE task[t].call.op \in {"DeleteGuild", "RemoveRole", "DeleteRole", "KickMember", "LeaveGuild", "BanMember"}
  <2>1. \/ db' = db
        \/ \E g : db' = DeleteGuildRow(g).db
        \/ \E g, u : db' = DeleteMember(g, u).db \/ db' = InsertBan(g, u).db
        \/ \E r : db' = DeleteRoleRow(r).db
        \/ \E g, u, r : db' = RemoveMemberRole(g, u, r).db
    BY <1>1, Dispatch DEF DeleteGuild, RemoveRole, DeleteRole, KickMember, LeaveGuild, BanMember,
                          Require, Select, Execute
  <2>2. "roles" \in Tables \ {"bans"} /\ "memberRoles" \in Tables \ {"bans"}
    BY DEF Tables
  <2>3. \A g, u : InsertBan(g, u).db.roles = db.roles /\ InsertBan(g, u).db.memberRoles = db.memberRoles
    BY <1>0, <2>2, GuildThings DEF Only
  <2> QED BY <1>0, <2>1, <2>2, <2>3, FewerRows
<1>2. CASE task[t].call.op \notin {"DeleteGuild", "RemoveRole", "DeleteRole", "KickMember", "LeaveGuild", "BanMember"}
  BY <1>0, <1>2 DEF Frame, Writes, Tables
<1> QED BY <1>1, <1>2

LEMMA RoleCreated ==
  ASSUME Base, RolesInv, NEW t \in Tasks, CreateRole(t), Serve(t)
  PROVE  RoleMove(t)
<1> DEFINE c == task[t].call
           role == [id |-> lastId + 1, guild |-> c.guild, position |-> c.position,
                    perms |-> c.perms, default |-> FALSE]
<1>0. /\ IsDatabase(db) /\ Frame(t) /\ Moves(t) /\ lastId \in Nat /\ lastId' \in {lastId, lastId + 1}
      /\ task[t].call.op = "CreateRole"
  BY ServeFrame DEF Base, Shape, CreateRole, Calls
<1>1. db' = db \/ (db' = InsertRole(role).db /\ lastId' = lastId + 1)
  BY DEF CreateRole, Require, Create
<1>2. role.id = lastId + 1
  OBVIOUS
<1> HIDE DEF role
<1>3. InsertRole(role).db.roles = db.roles \cup {role}
  BY <1>0 DEF InsertRole, Insert, Statement, IsDatabase, Tables
<1>4. RolesKept(db.roles, db'.roles, lastId, lastId')
  BY <1>0, <1>1, <1>2, <1>3 DEF RolesKept
<1>5. db'.memberRoles = db.memberRoles
  BY <1>0 DEF Frame, Writes, Tables
<1>6. task'[t].call.op \notin {"AssignRole", "UpdateMember", "CreateGuild"}
  BY <1>0 DEF Moves, Free
<1>7. RoleTask(task'[t].call, task'[t].at, task'[t].row, db'.roles, lastId')
  BY <1>6 DEF RoleTask
<1> QED BY <1>0, <1>4, <1>5, <1>7 DEF RoleMove

LEMMA RoleUpdated ==
  ASSUME Base, RolesInv, NEW t \in Tasks, UpdateRole(t), Serve(t)
  PROVE  RoleMove(t)
<1> DEFINE c == task[t].call
           row == Edited(task[t].row, c)
<1>0. /\ IsDatabase(db) /\ Sound(db) /\ Frame(t) /\ Moves(t) /\ lastId \in Nat /\ lastId' \in {lastId, lastId + 1}
      /\ task[t].call.op = "UpdateRole" /\ Carried(task[t].call, task[t].at, task[t].row, db)
  BY ServeFrame DEF Base, Shape, StoreInv, UpdateRole, Calls
<1>1. db' = db \/ (db' = UpdateRoleRow(row).db /\ task[t].at = "write")
  BY DEF UpdateRole, Select, Require, Execute
<1>2. ASSUME db' = UpdateRoleRow(row).db, task[t].at = "write"
      PROVE  RolesKept(db.roles, db'.roles, lastId, lastId')
  <2>1. IsRole(row)
    BY <1>0, <1>2, EditedRole DEF Carried
  <2> HIDE DEF row
  <2>2. db'.roles = {IF r.id = row.id THEN [row EXCEPT !.guild = r.guild] ELSE r : r \in db.roles}
    BY <1>0, <1>2 DEF UpdateRoleRow, Statement, IsDatabase, Tables
  <2>3. \A g : [row EXCEPT !.guild = g].id = row.id /\ [row EXCEPT !.guild = g].guild = g
    BY <2>1 DEF IsRole
  <2>4. ASSUME NEW x \in db'.roles PROVE \E y \in db.roles : y.id = x.id /\ y.guild = x.guild
    <3>1. PICK r \in db.roles : x = IF r.id = row.id THEN [row EXCEPT !.guild = r.guild] ELSE r
      BY <2>2
    <3>2. r.id = x.id /\ r.guild = x.guild
      BY <2>3, <3>1
    <3> QED BY <3>2
  <2> QED BY <1>0, <2>4 DEF RolesKept
<1>4. RolesKept(db.roles, db'.roles, lastId, lastId')
  BY <1>0, <1>1, <1>2 DEF RolesKept
<1>5. db'.memberRoles = db.memberRoles
  BY <1>0 DEF Frame, Writes, Tables
<1>6. task'[t].call.op \notin {"AssignRole", "UpdateMember", "CreateGuild"}
  BY <1>0 DEF Moves, Free
<1>7. RoleTask(task'[t].call, task'[t].at, task'[t].row, db'.roles, lastId')
  BY <1>6 DEF RoleTask
<1> QED BY <1>0, <1>4, <1>5, <1>7 DEF RoleMove

\* AddMemberRole puts one row into one table.
LEMMA RoleAdded ==
  ASSUME IsDatabase(db), NEW g, NEW u, NEW role
  PROVE  /\ AddMemberRole(g, u, role).db.roles = db.roles
         /\ AddMemberRole(g, u, role).db.memberRoles = db.memberRoles \cup {[guild |-> g, user |-> u, role |-> role]}
BY DEF AddMemberRole, Insert, Statement, IsDatabase, Tables

\* AssignRole tests that the role is of the guild before it tests the rank.
LEMMA RoleAssigned ==
  ASSUME Base, RolesInv, NEW t \in Tasks, AssignRole(t), Serve(t)
  PROVE  RoleMove(t)
<1> DEFINE c == task[t].call
           row == task[t].row
<1>0. /\ IsDatabase(db) /\ Sound(db) /\ TasksShape /\ Moves(t) /\ lastId \in Nat
      /\ c.op = "AssignRole" /\ lastId' = lastId
      /\ RoleTask(c, task[t].at, row, db.roles, lastId)
  BY ServeFrame DEF Base, Shape, StoreInv, AssignRole, Calls, RolesInv, Require, Select, Execute
<1>1. ASSUME NEW next, NEW r, Comes(t, next, r), db'.roles = db.roles,
             next \in {"rank", "add"} => OwnRole(c.role, c.guild, db.roles, lastId),
             \A x \in db'.memberRoles : x \in db.memberRoles \/ OwnRole(x.role, x.guild, db.roles, lastId)
      PROVE  RoleMove(t)
  <2>1. RolesKept(db.roles, db'.roles, lastId, lastId')
    BY <1>0, <1>1 DEF RolesKept
  <2>2. CASE task'[t] = Free
    BY <1>0, <1>1, <2>1, <2>2 DEF RoleMove, RoleTask, Free
  <2>3. CASE task'[t].call = c /\ task'[t].at = next
    <3>1. RoleTask(task'[t].call, task'[t].at, task'[t].row, db'.roles, lastId')
      BY <1>0, <1>1, <2>3 DEF RoleTask
    <3> QED BY <1>0, <1>1, <2>1, <3>1 DEF RoleMove
  <2> QED BY <1>1, <2>2, <2>3 DEF Comes
<1>2. CASE Require(t, "start", IsMember(c.guild, c.user), "role")
  BY <1>0, <1>1, <1>2, Coming DEF Require, Comes
<1>3. CASE Select(t, "role", OfGuild(c.role, c.guild), "rank")
  <2>1. ASSUME NEW x \in OfGuild(c.role, c.guild)
        PROVE  OwnRole(c.role, c.guild, db.roles, lastId)
    <3>1. x \in db.roles /\ x.id = c.role /\ x.guild = c.guild
      BY DEF OfGuild, ById
    <3>2. \A y \in db.roles : y.id = c.role => y = x
      BY <1>0, <3>1 DEF Sound, Unique, Same, Keyed
    <3> QED BY <3>1, <3>2 DEF OwnRole, RolesInv
  <2> QED BY <1>0, <1>1, <1>3, <2>1, Coming DEF Select, Comes
<1>4. CASE Require(t, "rank", Outranks(c.guild, c.by, row.position), "add")
  <2>1. OwnRole(c.role, c.guild, db.roles, lastId)
    BY <1>0, <1>4 DEF Require, RoleTask
  <2> QED BY <1>0, <1>1, <1>4, <2>1, Coming DEF Require, Comes
<1>5. CASE Execute(t, "add", AddMemberRole(c.guild, c.user, c.role), "done")
  <2>1. OwnRole(c.role, c.guild, db.roles, lastId)
    BY <1>0, <1>5 DEF Execute, RoleTask
  <2>2. Comes(t, "done", row) /\ (db' = db \/ db' = AddMemberRole(c.guild, c.user, c.role).db)
    BY <1>0, <1>5, Coming DEF Execute, Comes
  <2>3. PICK g, u, role : g = c.guild /\ u = c.user /\ role = c.role
    OBVIOUS
  <2>4. db'.roles = db.roles
    BY <1>0, <2>2, RoleAdded
  <2>5. \A x \in db'.memberRoles : x \in db.memberRoles \/ x = [guild |-> g, user |-> u, role |-> role]
    BY <1>0, <2>2, <2>3, RoleAdded
  <2>6. \A x \in db'.memberRoles : x \in db.memberRoles \/ OwnRole(x.role, x.guild, db.roles, lastId)
    BY <2>1, <2>3, <2>5
  <2> QED BY <1>1, <2>2, <2>4, <2>6
<1> QED BY <1>2, <1>3, <1>4, <1>5 DEF AssignRole
\* A step that carries a row whose roles are of their guilds.
LEMMA RoleComes ==
  ASSUME NEW t \in Tasks, NEW next, NEW row, Comes(t, next, row), RolesKept(db.roles, db'.roles, lastId, lastId'),
         \A x \in db'.memberRoles : x \in db.memberRoles \/ OwnRole(x.role, x.guild, db.roles, lastId),
         RoleTask(task[t].call, next, row, db'.roles, lastId')
  PROVE  RoleMove(t)
<1>1. Moves(t)
  BY DEF Comes
<1>2. CASE task'[t] = Free
  <2>1. task'[t].call.op = "none"
    BY <1>2 DEF Free
  <2>2. RoleTask(task'[t].call, task'[t].at, task'[t].row, db'.roles, lastId')
    BY <2>1 DEF RoleTask
  <2> QED BY <1>1, <2>2 DEF RoleMove
<1>3. CASE task'[t].call = task[t].call /\ task'[t].at = next /\ task'[t].row = row
  BY <1>1, <1>3 DEF RoleMove
<1> QED BY <1>2, <1>3 DEF Comes

\* UpdateMember adds only roles that it has read from the guild.
LEMMA RoleReplaced ==
  ASSUME Base, RolesInv, NEW t \in Tasks, UpdateMember(t), Serve(t)
  PROVE  RoleMove(t)
<1> DEFINE c == task[t].call
           r == task[t].row
           valid == {x.id : x \in {y \in RolesOfGuild(c.guild) : ~y.default}}
<1>0. /\ IsDatabase(db) /\ Sound(db) /\ TasksShape /\ lastId \in Nat /\ c.op = "UpdateMember"
      /\ lastId' = lastId
      /\ RoleTask(c, task[t].at, r, db.roles, lastId)
  BY DEF Base, Shape, StoreInv, UpdateMember, Calls, RolesInv, Require, Select
<1>1. db'.roles = db.roles
  BY <1>0, ServeFrame DEF Frame, Writes, Tables
<1>2. RolesKept(db.roles, db'.roles, lastId, lastId')
  BY <1>0, <1>1 DEF RolesKept
<1>3. ASSUME NEW next, NEW row, Comes(t, next, row),
             next # "roles" \/ (row = [old |-> row.old, new |-> row.new, valid |-> row.valid]
                                /\ \A v \in row.valid : OwnRole(v, c.guild, db.roles, lastId)),
             \A x \in db'.memberRoles : x \in db.memberRoles \/ OwnRole(x.role, x.guild, db.roles, lastId)
      PROVE  RoleMove(t)
  <2>1. RoleTask(c, next, row, db'.roles, lastId')
    BY <1>0, <1>1, <1>3 DEF RoleTask
  <2> QED BY <1>2, <1>3, <2>1, RoleComes
<1>4. CASE Require(t, "start", MayInGuild(c.guild, c.by, {"MANAGE_ROLES"}), "member")
  BY <1>0, <1>3, <1>4, Coming DEF Require, Comes
<1>5. ASSUME NEW rows, Select(t, "member", rows, "valid")
      PROVE  RoleMove(t)
  <2>1. db' = db /\ \E row : Comes(t, "valid", row)
    BY <1>0, <1>5, Coming DEF Select, Comes
  <2> QED BY <1>3, <2>1
<1>6. CASE Select(t, "valid", {[old |-> r.old \cap valid, new |-> c.roles, valid |-> valid]}, "roles")
  <2>1. \A v \in valid : OwnRole(v, c.guild, db.roles, lastId)
    <3>1. \A x \in RolesOfGuild(c.guild) : OwnRole(x.id, c.guild, db.roles, lastId)
      BY <1>0 DEF RolesOfGuild, OwnRole, RolesInv, Sound, Unique, Same, Keyed
    <3> QED BY <3>1
  <2>2. PICK row : row = [old |-> r.old \cap valid, new |-> c.roles, valid |-> valid]
    OBVIOUS
  <2>3. db' = db /\ Comes(t, "roles", row)
    BY <1>0, <1>6, <2>2, Coming DEF Select, Comes
  <2>4. row = [old |-> row.old, new |-> row.new, valid |-> row.valid] /\ row.valid = valid
    BY <2>2
  <2> QED BY <1>3, <2>1, <2>3, <2>4
<1>7. ASSUME task[t].at = "roles"
      PROVE  /\ r = [old |-> r.old, new |-> r.new, valid |-> r.valid]
             /\ \A v \in r.valid : OwnRole(v, c.guild, db.roles, lastId)
  BY <1>0, <1>7 DEF RoleTask
<1>8. ASSUME task[t].at = "roles", NEW role, db' = RemoveMemberRole(c.guild, c.user, role).db,
             Carry(t, "roles", [r EXCEPT !.old = @ \ {role}])
      PROVE  RoleMove(t)
  <2>1. db'.memberRoles \subseteq db.memberRoles
    BY <1>0, <1>8, FewerRows DEF Tables
  <2>2. PICK row : row = [r EXCEPT !.old = @ \ {role}]
    OBVIOUS
  <2>3. row = [old |-> row.old, new |-> row.new, valid |-> row.valid] /\ row.valid = r.valid
    BY <1>7, <1>8, <2>2
  <2>4. Comes(t, "roles", row)
    BY <1>0, <1>8, <2>2, Coming
  <2> QED BY <1>3, <1>7, <1>8, <2>1, <2>3, <2>4
<1>9. ASSUME task[t].at = "roles", NEW role \in r.valid, db' = AddMemberRole(c.guild, c.user, role).db,
             Carry(t, "roles", [r EXCEPT !.new = @ \ {role}])
      PROVE  RoleMove(t)
  <2>1. PICK g, u : g = c.guild /\ u = c.user
    OBVIOUS
  <2>2. db'.memberRoles = db.memberRoles \cup {[guild |-> g, user |-> u, role |-> role]}
    BY <1>0, <1>9, <2>1, RoleAdded
  <2>3. OwnRole(role, g, db.roles, lastId)
    BY <1>7, <1>9, <2>1
  <2>4. PICK row : row = [r EXCEPT !.new = @ \ {role}]
    OBVIOUS
  <2>5. row = [old |-> row.old, new |-> row.new, valid |-> row.valid] /\ row.valid = r.valid
    BY <1>7, <1>9, <2>4
  <2>6. Comes(t, "roles", row)
    BY <1>0, <1>9, <2>4, Coming
  <2>7. \A x \in db'.memberRoles : x \in db.memberRoles \/ OwnRole(x.role, x.guild, db.roles, lastId)
    BY <2>2, <2>3
  <2> QED BY <1>3, <1>7, <1>9, <2>5, <2>6, <2>7
<1>10. ASSUME db' = db, Return(t) PROVE RoleMove(t)
  <2>1. Comes(t, "done", r)
    BY <1>0, <1>10, Coming DEF Comes
  <2> QED BY <1>3, <1>10, <2>1
<1>11. \/ Require(t, "start", MayInGuild(c.guild, c.by, {"MANAGE_ROLES"}), "member")
       \/ \E rows : Select(t, "member", rows, "valid")
       \/ Select(t, "valid", {[old |-> r.old \cap valid, new |-> c.roles, valid |-> valid]}, "roles")
       \/ task[t].at = "roles" /\ \E role : /\ db' = RemoveMemberRole(c.guild, c.user, role).db
                                            /\ Carry(t, "roles", [r EXCEPT !.old = @ \ {role}])
       \/ task[t].at = "roles" /\ \E role \in r.valid : /\ db' = AddMemberRole(c.guild, c.user, role).db
                                            /\ Carry(t, "roles", [r EXCEPT !.new = @ \ {role}])
       \/ db' = db /\ Return(t)
  BY DEF UpdateMember
<1> QED BY <1>4, <1>5, <1>6, <1>8, <1>9, <1>10, <1>11
\* The rows that InsertRole writes have the next id.
LEMMA RoleInserted ==
  ASSUME Base, RolesInv, NEW row, row.id = lastId + 1, lastId' = lastId + 1, db' = db \/ db' = InsertRole(row).db
  PROVE  /\ RolesKept(db.roles, db'.roles, lastId, lastId')
         /\ db'.memberRoles = db.memberRoles
         /\ OwnRole(lastId + 1, row.guild, db'.roles, lastId')
<1>0. IsDatabase(db) /\ lastId \in Nat
  BY DEF Base, Shape, StoreInv
<1>1. InsertRole(row).db.roles = db.roles \cup {row} /\ InsertRole(row).db.memberRoles = db.memberRoles
  BY <1>0 DEF InsertRole, Insert, Statement, IsDatabase, Tables
<1>2. RolesKept(db.roles, db'.roles, lastId, lastId') /\ db'.memberRoles = db.memberRoles
  BY <1>0, <1>1 DEF RolesKept
<1>3. OwnRole(lastId + 1, row.guild, db'.roles, lastId')
  BY <1>0, <1>1 DEF RolesInv, OwnRole
<1> QED BY <1>2, <1>3

\* CreateGuild gives the owner the two roles it has inserted.
LEMMA RoleFounded ==
  ASSUME Base, RolesInv, NEW t \in Tasks, CreateGuild(t), Serve(t)
  PROVE  RoleMove(t)
<1> DEFINE u == task[t].call.by
           c == task[t].call
           r == task[t].row
           new == lastId + 1
           role(position, perms, default) ==
             [id |-> new, guild |-> r.guild, position |-> position, perms |-> perms, default |-> default]
           channel(name, type) ==
             [id |-> new, guild |-> r.guild, name |-> name, type |-> type, parent |-> 0]
<1>0. /\ IsDatabase(db) /\ TasksShape /\ lastId \in Nat /\ c.op = "CreateGuild"
      /\ RoleTask(c, task[t].at, r, db.roles, lastId)
      /\ Moves(t) /\ lastId' \in {lastId, lastId + 1}
  BY ServeFrame DEF Base, Shape, StoreInv, CreateGuild, Calls, RolesInv
<1>1. ASSUME NEW next, NEW row, Comes(t, next, row), next \in {"everyone", "text", "voice", "done"},
             db'.roles = db.roles,
             \A x \in db'.memberRoles : x \in db.memberRoles \/ OwnRole(x.role, x.guild, db.roles, lastId)
      PROVE  RoleMove(t)
  <2>1. RoleTask(c, next, row, db'.roles, lastId') /\ RolesKept(db.roles, db'.roles, lastId, lastId')
    BY <1>0, <1>1 DEF RoleTask, RolesKept
  <2> QED BY <1>1, <2>1, RoleComes
<1>2. CASE Create(t, "start", InsertGuild(new, u), "everyone", [guild |-> new])
  <2>1. Only(InsertGuild(new, u).db, {"guilds"})
    BY <1>0, GuildRows
  <2>2. db'.roles = db.roles /\ db'.memberRoles = db.memberRoles
    BY <1>2, <2>1 DEF Create, Only, Tables
  <2>3. Comes(t, "everyone", [guild |-> new])
    BY <1>0, <1>2, Coming DEF Create, Comes
  <2> QED BY <1>1, <2>2, <2>3
<1>3. CASE Create(t, "everyone", InsertRole(role(0, Everyone, TRUE)), "admin", [guild |-> r.guild, everyone |-> new])
  <2>1. PICK row : row = role(0, Everyone, TRUE)
    OBVIOUS
  <2>2. row.id = lastId + 1 /\ row.guild = r.guild
    BY <2>1
  <2>3. lastId' = lastId + 1 /\ (db' = db \/ db' = InsertRole(row).db)
    BY <1>3, <2>1 DEF Create
  <2>4. PICK carried : carried = [guild |-> r.guild, everyone |-> new]
    OBVIOUS
  <2>5. Comes(t, "admin", carried)
    BY <1>0, <1>3, <2>4, Coming DEF Create, Comes
  <2> HIDE DEF role
  <2>6. /\ RolesKept(db.roles, db'.roles, lastId, lastId') /\ db'.memberRoles = db.memberRoles
        /\ OwnRole(new, r.guild, db'.roles, lastId')
    BY <2>2, <2>3, RoleInserted
  <2>7. RoleTask(c, "admin", carried, db'.roles, lastId')
    BY <1>0, <2>4, <2>6 DEF RoleTask
  <2> QED BY <2>5, <2>6, <2>7, RoleComes
<1>4. CASE Create(t, "admin", InsertRole(role(1, {"ADMIN"}, FALSE)), "member",
                  [guild |-> r.guild, everyone |-> r.everyone, admin |-> new])
  <2>1. PICK row : row = role(1, {"ADMIN"}, FALSE)
    OBVIOUS
  <2>2. row.id = lastId + 1 /\ row.guild = r.guild
    BY <2>1
  <2>3. lastId' = lastId + 1 /\ (db' = db \/ db' = InsertRole(row).db) /\ task[t].at = "admin"
    BY <1>4, <2>1 DEF Create
  <2>4. PICK carried : carried = [guild |-> r.guild, everyone |-> r.everyone, admin |-> new]
    OBVIOUS
  <2>5. Comes(t, "member", carried)
    BY <1>0, <1>4, <2>4, Coming DEF Create, Comes
  <2> HIDE DEF role
  <2>6. /\ RolesKept(db.roles, db'.roles, lastId, lastId') /\ db'.memberRoles = db.memberRoles
        /\ OwnRole(new, r.guild, db'.roles, lastId')
    BY <2>2, <2>3, RoleInserted
  <2>7. OwnRole(r.everyone, r.guild, db'.roles, lastId')
    BY <1>0, <2>3, <2>6, OwnRoleStays DEF RoleTask
  <2>8. RoleTask(c, "member", carried, db'.roles, lastId')
    BY <1>0, <2>4, <2>6, <2>7 DEF RoleTask
  <2> QED BY <2>5, <2>6, <2>8, RoleComes
<1>5. CASE Execute(t, "member", InsertMember(r.guild, u), "assign everyone")
  <2>1. Only(InsertMember(r.guild, u).db, {"members"})
    BY <1>0, GuildRows
  <2>2. db'.roles = db.roles /\ db'.memberRoles = db.memberRoles /\ lastId' = lastId /\ task[t].at = "member"
    BY <1>5, <2>1 DEF Execute, Only, Tables
  <2>3. Comes(t, "assign everyone", r)
    BY <1>0, <1>5, Coming DEF Execute, Comes
  <2>4. RoleTask(c, "assign everyone", r, db'.roles, lastId') /\ RolesKept(db.roles, db'.roles, lastId, lastId')
    BY <1>0, <2>2 DEF RoleTask, RolesKept
  <2> QED BY <2>2, <2>3, <2>4, RoleComes
<1>6. CASE Execute(t, "assign everyone", AddMemberRole(r.guild, u, r.everyone), "assign admin")
  <2>1. PICK g, user, x : g = r.guild /\ user = u /\ x = r.everyone
    OBVIOUS
  <2>a. db' = db \/ db' = AddMemberRole(g, user, x).db
    BY <1>6, <2>1 DEF Execute
  <2>b. lastId' = lastId /\ task[t].at = "assign everyone"
    BY <1>6 DEF Execute
  <2>c. PICK row : row = [guild |-> g, user |-> user, role |-> x]
    OBVIOUS
  <2>d. AddMemberRole(g, user, x).db.roles = db.roles /\ AddMemberRole(g, user, x).db.memberRoles = db.memberRoles \cup {row}
    BY <1>0, <2>c, RoleAdded
  <2>e. row.role = x /\ row.guild = g
    BY <2>c
  <2>2. db'.roles = db.roles /\ \A y \in db'.memberRoles : y \in db.memberRoles \/ y = row
    BY <2>a, <2>d
  <2>3. Comes(t, "assign admin", r)
    BY <1>0, <1>6, Coming DEF Execute, Comes
  <2>4. OwnRole(x, g, db.roles, lastId)
    BY <1>0, <2>1, <2>b DEF RoleTask
  <2>5. \A y \in db'.memberRoles : y \in db.memberRoles \/ OwnRole(y.role, y.guild, db.roles, lastId)
    BY <2>2, <2>4, <2>e
  <2>6. RoleTask(c, "assign admin", r, db'.roles, lastId') /\ RolesKept(db.roles, db'.roles, lastId, lastId')
    BY <1>0, <2>2, <2>b DEF RoleTask, RolesKept
  <2> QED BY <2>3, <2>5, <2>6, RoleComes
<1>7. CASE Execute(t, "assign admin", AddMemberRole(r.guild, u, r.admin), "text")
  <2>1. PICK g, user, x : g = r.guild /\ user = u /\ x = r.admin
    OBVIOUS
  <2>a. db' = db \/ db' = AddMemberRole(g, user, x).db
    BY <1>7, <2>1 DEF Execute
  <2>b. lastId' = lastId /\ task[t].at = "assign admin"
    BY <1>7 DEF Execute
  <2>c. PICK row : row = [guild |-> g, user |-> user, role |-> x]
    OBVIOUS
  <2>d. AddMemberRole(g, user, x).db.roles = db.roles /\ AddMemberRole(g, user, x).db.memberRoles = db.memberRoles \cup {row}
    BY <1>0, <2>c, RoleAdded
  <2>e. row.role = x /\ row.guild = g
    BY <2>c
  <2>2. db'.roles = db.roles /\ \A y \in db'.memberRoles : y \in db.memberRoles \/ y = row
    BY <2>a, <2>d
  <2>3. Comes(t, "text", r)
    BY <1>0, <1>7, Coming DEF Execute, Comes
  <2>4. OwnRole(x, g, db.roles, lastId)
    BY <1>0, <2>1, <2>b DEF RoleTask
  <2>5. \A y \in db'.memberRoles : y \in db.memberRoles \/ OwnRole(y.role, y.guild, db.roles, lastId)
    BY <2>2, <2>4, <2>e
  <2> QED BY <1>1, <2>2, <2>3, <2>5
<1>8. ASSUME NEW at \in {"text", "voice"}, NEW next \in {"voice", "done"}, NEW name, NEW type,
             Create(t, at, InsertChannel(channel(name, type)), next, r)
      PROVE  RoleMove(t)
  <2>1. PICK row : row = channel(name, type)
    OBVIOUS
  <2>2. Only(InsertChannel(row).db, {"channels"})
    BY <1>0, GuildThings
  <2>3. db'.roles = db.roles /\ db'.memberRoles = db.memberRoles
    BY <1>8, <2>1, <2>2 DEF Create, Only, Tables
  <2>4. Comes(t, next, r)
    BY <1>0, <1>8, Coming DEF Create, Comes
  <2> QED BY <1>1, <2>3, <2>4
<1> QED BY <1>2, <1>3, <1>4, <1>5, <1>6, <1>7, <1>8 DEF CreateGuild
\* A step that serves no request: requests begin or end, and an invite expires.
Begun(t) == \E call \in This.calls : task'[t] = [call |-> call, at |-> "start", row |-> None]

Calm ==
  /\ lastId' = lastId /\ \A x \in Tables \ {"invites"} : db'[x] = db[x]
  /\ \A i \in db'.invites : \E j \in db.invites : j.guild = i.guild
  /\ \A t \in Tasks : task'[t] = task[t] \/ task'[t] = Free \/ Begun(t)

LEMMA BegunAtStart == \A t : Begun(t) => task'[t].at = "start"
BY DEF Begun

LEMMA CalmSteps ==
  ASSUME Base, [Next]_vars
  PROVE  (\E t \in Tasks : Serve(t)) \/ (Calm /\ (past' = past \/ \E t \in Tasks : Fail(t)))
<1> USE DEF Base, Shape
<1>1. ASSUME NEW t \in Tasks, Begin(t) PROVE Calm /\ past' = past
  BY <1>1, BeginFrame DEF Calm, Begun, Begin
<1>2. ASSUME NEW t \in Tasks, Fail(t) PROVE Calm
  <2>1. Moves(t) /\ task'[t] = Free /\ db' = db /\ lastId' = lastId
    BY <1>2, Coming DEF Fail
  <2> QED BY <2>1 DEF Calm, Moves
<1>3. CASE ExpireInvite
  <2>1. PICK i \in db.invites : db' = [db EXCEPT !.invites = (@ \ {i}) \cup {[i EXCEPT !.expired = TRUE]}]
    BY <1>3 DEF ExpireInvite, Expire
  <2>2. [i EXCEPT !.expired = TRUE].guild = i.guild
    BY DEF StoreInv, Sound, Refers, Tables, IsInvite
  <2>3. db'.invites = (db.invites \ {i}) \cup {[i EXCEPT !.expired = TRUE]}
        /\ \A x \in Tables \ {"invites"} : db'[x] = db[x]
    BY <2>1 DEF IsDatabase, Tables
  <2> QED BY <1>3, <2>2, <2>3 DEF Calm, ExpireInvite, Expire
<1>4. CASE TimePasses \/ Quiet \/ UNCHANGED vars
  BY <1>4 DEF Calm, TimePasses, Quiet, vars, requestVars
<1> QED BY <1>1, <1>2, <1>3, <1>4 DEF Next

LEMMA RolesStep == Base /\ RolesInv /\ [Next]_vars => RolesInv'
<1> SUFFICES ASSUME Base, RolesInv, [Next]_vars PROVE RolesInv'
  OBVIOUS
<1>1. ASSUME NEW t \in Tasks, Serve(t) PROVE RolesInv'
  <2>1. CASE task[t].call.op \notin RoleWriters
    <3>1. task[t].call.op \notin {"AssignRole", "UpdateMember", "CreateGuild"}
      BY <2>1 DEF RoleWriters
    <3> QED BY <1>1, <2>1, <3>1, RoleDeleters, FewerRoles, RoleMoves
  <2>2. CASE task[t].call.op \in RoleWriters
    <3>1. CreateGuild(t) \/ UpdateMember(t) \/ AssignRole(t) \/ CreateRole(t) \/ UpdateRole(t)
      BY <1>1, <2>2, Dispatch DEF RoleWriters
    <3> QED BY <1>1, <3>1, RoleFounded, RoleReplaced, RoleAssigned, RoleCreated, RoleUpdated, RoleMoves
  <2> QED BY <2>1, <2>2
<1>2. CASE Calm
  <2>1. db'.roles = db.roles /\ db'.memberRoles = db.memberRoles /\ lastId' = lastId
    BY <1>2 DEF Calm, Tables
  <2>2. ASSUME NEW t \in Tasks
        PROVE  RoleTask(task'[t].call, task'[t].at, task'[t].row, db.roles, lastId)
    <3>1. CASE task'[t] = task[t]
      BY <3>1 DEF RolesInv
    <3>2. CASE task'[t] = Free \/ Begun(t)
      <4>1. task'[t] = Free => task'[t].at = "idle"
        BY DEF Free
      <4>2. Begun(t) => task'[t].at = "start"
        BY DEF Begun
      <4> QED BY <3>2, <4>1, <4>2 DEF RoleTask
    <3> QED BY <1>2, <3>1, <3>2 DEF Calm
  <2> QED BY <2>1, <2>2 DEF RolesInv
<1> QED BY <1>1, <1>2, CalmSteps

LEMMA RolesInit == Init => RolesInv
<1> SUFFICES ASSUME Init PROVE RolesInv
  OBVIOUS
<1>1. Initial(db, lastId)
  BY ScenarioAssumption DEF Init, This
<1>2. \A r \in db.roles : r.id \in 1..lastId
  BY <1>1 DEF Initial
<1>3. \A r \in db.memberRoles : r.role \in IdsIn(db, "roles") /\ \A x \in db.roles : x.id = r.role => x.guild = r.guild
  BY <1>1 DEF Initial, Consistent
<1>4. \A r \in db.memberRoles : OwnRole(r.role, r.guild, db.roles, lastId)
  BY <1>2, <1>3 DEF IdsIn, OwnRole
<1>5. \A t \in Tasks : task[t].at = "idle"
  BY DEF Init, Unserved, Free
<1> QED BY <1>2, <1>4, <1>5 DEF RolesInv, RoleTask

\* A member's roles are of the member's guild, though no constraint says so and
\* AssignRole, UpdateMember and CreateGuild test or read it some statements
\* before they write (role.go, member.go, guild.go).
THEOREM RolesCorrect == Spec => []RolesOfOwnGuild
<1>1. Init => Base /\ RolesInv
  BY BaseInit, RolesInit
<1>2. Base /\ RolesInv /\ [Next]_vars => (Base /\ RolesInv)'
  BY BaseStep, RolesStep
<1>3. RolesInv => RolesOfOwnGuild
  BY DEF RolesInv, RolesOfOwnGuild, OwnRole, ById
<1> QED BY <1>1, <1>2, <1>3, PTL DEF Spec
-----------------------------------------------------------------------------
(***************************************************************************)
(* The owners of guilds.                                                   *)
(***************************************************************************)
\* A guild that has been there, and has this owner, or another, if it still is.
OwnedBy(g, u, guilds, last) == g \in 1..last /\ \A x \in guilds : x.id = g => x.owner = u
OwnedByAnother(g, u, guilds, last) == g \in 1..last /\ \A x \in guilds : x.id = g => x.owner # u

OwnerTask(call, at, row, guilds, last) ==
  /\ call.op = "CreateGuild" /\ at \in {"everyone", "admin", "member"} => OwnedBy(row.guild, call.by, guilds, last)
  /\ call.op = "UpdateGuild" /\ at = "write" => OwnedBy(row.id, row.owner, guilds, last)
  /\ call.op = "BanMember" /\ at \in {"ban", "remove"} => OwnedByAnother(call.guild, call.user, guilds, last)
  /\ call.op = "KickMember" /\ at = "owner" => call.guild \in 1..last
  /\ call.op = "KickMember" /\ at \in {"member", "delete"} => OwnedByAnother(call.guild, call.user, guilds, last)

OwnersInv ==
  /\ \A x \in db.guilds : x.id \in 1..lastId
  /\ \A t \in Tasks : OwnerTask(task[t].call, task[t].at, task[t].row, db.guilds, lastId)

\* Guilds keep their owner; a new one has the next id.
GuildsKept(guilds, new, last, next) ==
  /\ last \in Nat /\ next \in {last, last + 1}
  /\ \A x \in new : \/ \E y \in guilds : y.id = x.id /\ y.owner = x.owner
                    \/ x.id = last + 1 /\ next = last + 1

LEMMA OwnerStaysOwner ==
  ASSUME NEW guilds, NEW new, NEW last, NEW next, GuildsKept(guilds, new, last, next)
  PROVE  /\ \A g, u : OwnedBy(g, u, guilds, last) => OwnedBy(g, u, new, next)
         /\ \A g, u : OwnedByAnother(g, u, guilds, last) => OwnedByAnother(g, u, new, next)
         /\ (\A x \in guilds : x.id \in 1..last) => \A x \in new : x.id \in 1..next
         /\ 1..last \subseteq 1..next
BY DEF GuildsKept, OwnedBy, OwnedByAnother

LEMMA OwnerTaskStays ==
  ASSUME NEW guilds, NEW new, NEW last, NEW next, GuildsKept(guilds, new, last, next),
         NEW call, NEW at, NEW row, OwnerTask(call, at, row, guilds, last)
  PROVE  OwnerTask(call, at, row, new, next)
BY OwnerStaysOwner DEF OwnerTask

OwnerMove(t) ==
  /\ Moves(t) /\ GuildsKept(db.guilds, db'.guilds, lastId, lastId')
  /\ OwnerTask(task'[t].call, task'[t].at, task'[t].row, db'.guilds, lastId')

LEMMA OwnerMoves ==
  ASSUME OwnersInv, NEW t \in Tasks, OwnerMove(t)
  PROVE  OwnersInv'
<1>1. \A x \in db'.guilds : x.id \in 1..lastId'
  BY OwnerStaysOwner DEF OwnersInv, OwnerMove
<1>2. ASSUME NEW u \in Tasks PROVE OwnerTask(task'[u].call, task'[u].at, task'[u].row, db'.guilds, lastId')
  <2>1. CASE u = t
    BY <2>1 DEF OwnerMove
  <2>2. CASE u # t
    <3>1. OwnerTask(task[u].call, task[u].at, task[u].row, db.guilds, lastId) /\ task'[u] = task[u]
      BY <2>2 DEF OwnersInv, OwnerMove, Moves
    <3> QED BY <3>1, OwnerTaskStays DEF OwnerMove
  <2> QED BY <2>1, <2>2
<1> QED BY <1>1, <1>2 DEF OwnersInv

LEMMA OwnerComes ==
  ASSUME NEW t \in Tasks, NEW next, NEW row, Comes(t, next, row),
         GuildsKept(db.guilds, db'.guilds, lastId, lastId'),
         OwnerTask(task[t].call, next, row, db'.guilds, lastId')
  PROVE  OwnerMove(t)
<1>1. Moves(t)
  BY DEF Comes
<1>2. CASE task'[t] = Free
  <2>1. task'[t].call.op = "none"
    BY <1>2 DEF Free
  <2>2. OwnerTask(task'[t].call, task'[t].at, task'[t].row, db'.guilds, lastId')
    BY <2>1 DEF OwnerTask
  <2> QED BY <1>1, <2>2 DEF OwnerMove
<1>3. CASE task'[t].call = task[t].call /\ task'[t].at = next /\ task'[t].row = row
  BY <1>1, <1>3 DEF OwnerMove
<1> QED BY <1>2, <1>3 DEF Comes

\* Whatever a request writes, guilds keep their owner.
LEMMA GuildsStay ==
  ASSUME Base, OwnersInv, NEW t \in Tasks, Serve(t)
  PROVE  GuildsKept(db.guilds, db'.guilds, lastId, lastId')
<1>0. IsDatabase(db) /\ lastId \in Nat /\ lastId' \in {lastId, lastId + 1} /\ Frame(t)
  BY ServeFrame DEF Base, Shape
<1>1. CASE db'.guilds \subseteq db.guilds
  BY <1>0, <1>1 DEF GuildsKept
<1>2. CASE CreateGuild(t)
  <2>1. PICK new, u : new = lastId + 1 /\ u = task[t].call.by
    OBVIOUS
  <2>2. CASE task[t].at = "start"
    <3>1. lastId' = lastId + 1 /\ (db' = db \/ db' = InsertGuild(new, u).db)
      BY <1>2, <2>1, <2>2 DEF CreateGuild, Create, Execute
    <3>2. InsertGuild(new, u).db.guilds = db.guilds \cup {[id |-> new, owner |-> u]}
      BY <1>0 DEF InsertGuild, Insert, Statement, IsDatabase, Tables
    <3> QED BY <1>0, <2>1, <3>1, <3>2 DEF GuildsKept
  <2>3. CASE task[t].at # "start"
    <3>1. \/ db' = db
          \/ \E row : db' = InsertRole(row).db \/ db' = InsertChannel(row).db
          \/ \E g : db' = InsertMember(g, u).db \/ \E r : db' = AddMemberRole(g, u, r).db
      BY <1>2, <2>1, <2>3 DEF CreateGuild, Create, Execute
    <3>2. /\ \A row : InsertRole(row).db.guilds = db.guilds /\ InsertChannel(row).db.guilds = db.guilds
          /\ \A g : InsertMember(g, u).db.guilds = db.guilds
          /\ \A g, r : AddMemberRole(g, u, r).db.guilds = db.guilds
      BY <1>0, GuildRows, GuildThings DEF Only, Tables
    <3> QED BY <1>1, <3>1, <3>2
  <2> QED BY <2>2, <2>3
<1>3. CASE UpdateGuild(t)
  <2>1. PICK row : row = task[t].row
    OBVIOUS
  <2>2. db' = db \/ (db' = UpdateGuildRow(row).db /\ task[t].at = "write")
    BY <1>3, <2>1 DEF UpdateGuild, Require, Select, Execute
  <2>3. ASSUME db' = UpdateGuildRow(row).db, task[t].at = "write"
        PROVE  GuildsKept(db.guilds, db'.guilds, lastId, lastId')
    <3>1. \A x \in db.guilds : x.id = row.id => x.owner = row.owner
      BY <1>3, <2>1, <2>3 DEF OwnersInv, OwnerTask, OwnedBy, UpdateGuild, Calls
    <3>2. db'.guilds = {IF r.id = row.id THEN row ELSE r : r \in db.guilds}
      BY <1>0, <2>3 DEF UpdateGuildRow, Statement, IsDatabase, Tables
    <3>3. ASSUME NEW x \in db'.guilds PROVE \E y \in db.guilds : y.id = x.id /\ y.owner = x.owner
      <4>1. PICK r \in db.guilds : x = IF r.id = row.id THEN row ELSE r
        BY <3>2
      <4> QED BY <3>1, <4>1
    <3> QED BY <1>0, <3>3 DEF GuildsKept
  <2> QED BY <1>1, <2>2, <2>3
<1>4. CASE DeleteGuild(t)
  <2>1. db' = db \/ \E g : db' = DeleteGuildRow(g).db
    BY <1>4 DEF DeleteGuild, Require, Execute
  <2>2. db'.guilds \subseteq db.guilds
    BY <1>0, <2>1, FewerRows DEF Tables
  <2> QED BY <1>1, <2>2
<1>5. CASE task[t].call.op \notin {"CreateGuild", "UpdateGuild", "DeleteGuild"}
  BY <1>0, <1>1, <1>5 DEF Frame, Writes, Tables
<1> QED BY <1>2, <1>3, <1>4, <1>5, Dispatch
OwnerReaders == {"CreateGuild", "UpdateGuild", "BanMember", "KickMember"}

LEMMA OwnerUnread ==
  ASSUME Base, OwnersInv, NEW t \in Tasks, Serve(t), task[t].call.op \notin OwnerReaders
  PROVE  OwnerMove(t)
<1>1. Moves(t) /\ GuildsKept(db.guilds, db'.guilds, lastId, lastId')
  BY ServeFrame, GuildsStay
<1>2. task'[t].call.op \notin OwnerReaders
  BY <1>1 DEF Moves, Free, OwnerReaders
<1> QED BY <1>1, <1>2 DEF OwnerMove, OwnerTask, OwnerReaders

LEMMA OwnerFounds ==
  ASSUME Base, OwnersInv, NEW t \in Tasks, CreateGuild(t), Serve(t)
  PROVE  OwnerMove(t)
<1> DEFINE c == task[t].call
           r == task[t].row
<1>0. /\ TasksShape /\ lastId \in Nat /\ c.op = "CreateGuild" /\ IsDatabase(db)
      /\ OwnerTask(c, task[t].at, r, db.guilds, lastId)
      /\ GuildsKept(db.guilds, db'.guilds, lastId, lastId')
  BY GuildsStay DEF Base, StoreInv, Shape, CreateGuild, Calls, OwnersInv
<1>1. ASSUME NEW next, NEW row, Comes(t, next, row),
             next \in {"everyone", "admin", "member"} => OwnedBy(row.guild, c.by, db'.guilds, lastId')
      PROVE  OwnerMove(t)
  <2>1. OwnerTask(c, next, row, db'.guilds, lastId')
    BY <1>0, <1>1 DEF OwnerTask
  <2> QED BY <1>0, <1>1, <2>1, OwnerComes
<1>2. CASE task[t].at = "start"
  <2>1. PICK new, u : new = lastId + 1 /\ u = c.by
    OBVIOUS
  <2>2. PICK row : row = [guild |-> new]
    OBVIOUS
  <2>3. lastId' = lastId + 1 /\ (db' = db \/ db' = InsertGuild(new, u).db) /\ Comes(t, "everyone", row)
    BY <1>0, <1>2, <2>1, <2>2, Coming DEF CreateGuild, Create, Execute, Comes
  <2>4. InsertGuild(new, u).db.guilds = db.guilds \cup {[id |-> new, owner |-> u]}
    BY <1>0 DEF InsertGuild, Insert, Statement, IsDatabase, Tables
  <2>5. OwnedBy(new, u, db'.guilds, lastId')
    BY <1>0, <2>1, <2>3, <2>4 DEF OwnedBy, OwnersInv
  <2> QED BY <1>1, <2>1, <2>2, <2>3, <2>5
<1>3. CASE task[t].at \in {"everyone", "admin"}
  <2>1. OwnedBy(r.guild, c.by, db'.guilds, lastId')
    BY <1>0, <1>3, OwnerStaysOwner DEF OwnerTask
  <2>2. PICK first, second : /\ first = [guild |-> r.guild, everyone |-> lastId + 1]
                             /\ second = [guild |-> r.guild, everyone |-> r.everyone, admin |-> lastId + 1]
    OBVIOUS
  <2>a. Carry(t, "admin", first) \/ Carry(t, "member", second) \/ Return(t)
    BY <1>3, <2>2 DEF CreateGuild, Create, Execute
  <2>3. Comes(t, "admin", first) \/ Comes(t, "member", second)
    BY <1>0, <2>a, Coming DEF Comes
  <2>4. first.guild = r.guild /\ second.guild = r.guild
    BY <2>2
  <2> QED BY <1>1, <2>1, <2>3, <2>4
<1>4. CASE task[t].at \notin {"start", "everyone", "admin"}
  <2>1. \E next \in {"assign everyone", "assign admin", "text", "voice", "done"} : Comes(t, next, r)
    BY <1>0, <1>4, Coming DEF CreateGuild, Create, Execute, Comes
  <2> QED BY <1>1, <2>1
<1> QED BY <1>2, <1>3, <1>4

LEMMA OwnerRenames ==
  ASSUME Base, OwnersInv, NEW t \in Tasks, UpdateGuild(t), Serve(t)
  PROVE  OwnerMove(t)
<1> DEFINE c == task[t].call
           r == task[t].row
<1>0. /\ TasksShape /\ lastId \in Nat /\ c.op = "UpdateGuild" /\ Sound(db)
      /\ GuildsKept(db.guilds, db'.guilds, lastId, lastId')
  BY GuildsStay DEF Base, StoreInv, Shape, UpdateGuild, Calls
<1>1. ASSUME NEW next, NEW row, Comes(t, next, row),
             next = "write" => OwnedBy(row.id, row.owner, db.guilds, lastId)
      PROVE  OwnerMove(t)
  <2>1. next = "write" => OwnedBy(row.id, row.owner, db'.guilds, lastId')
    BY <1>0, <1>1, OwnerStaysOwner
  <2>2. OwnerTask(c, next, row, db'.guilds, lastId')
    BY <1>0, <2>1 DEF OwnerTask
  <2> QED BY <1>0, <1>1, <2>2, OwnerComes
<1>2. CASE Select(t, "read", ById("guilds", c.guild), "write")
  <2>1. \A x \in ById("guilds", c.guild) : OwnedBy(x.id, x.owner, db.guilds, lastId)
    BY <1>0 DEF ById, OwnedBy, OwnersInv, Sound, Unique, Same, Keyed
  <2>2. Comes(t, "done", r) \/ \E x \in ById("guilds", c.guild) : Comes(t, "write", x)
    BY <1>0, <1>2, Coming DEF Select, Comes
  <2> QED BY <1>1, <2>1, <2>2
<1>3. CASE ~Select(t, "read", ById("guilds", c.guild), "write")
  <2>1. \E next \in {"read", "done"} : Comes(t, next, r)
    BY <1>0, <1>3, Coming DEF UpdateGuild, Require, Execute, Comes
  <2> QED BY <1>1, <2>1
<1> QED BY <1>2, <1>3

LEMMA OwnerSpared ==
  ASSUME Base, OwnersInv, NEW t \in Tasks, BanMember(t) \/ KickMember(t), Serve(t)
  PROVE  OwnerMove(t)
<1> DEFINE c == task[t].call
           r == task[t].row
<1>0. /\ TasksShape /\ lastId \in Nat /\ Sound(db)
      /\ OwnerTask(c, task[t].at, r, db.guilds, lastId)
      /\ GuildsKept(db.guilds, db'.guilds, lastId, lastId')
  BY GuildsStay DEF Base, StoreInv, Shape, OwnersInv
<1>1. ASSUME NEW next, Comes(t, next, r), OwnerTask(c, next, r, db.guilds, lastId)
      PROVE  OwnerMove(t)
  BY <1>0, <1>1, OwnerTaskStays, OwnerComes
<1>2. CASE BanMember(t)
  <2>1. /\ c.op = "BanMember"
        /\ \/ Comes(t, "rank", r) \/ Comes(t, "done", r)
           \/ MayBan(c) /\ Comes(t, "ban", r)
           \/ task[t].at = "ban" /\ Comes(t, "remove", r)
    BY <1>0, <1>2, Coming DEF BanMember, Calls, Require, Execute, Comes
  <2>2. MayBan(c) => OwnedByAnother(c.guild, c.user, db.guilds, lastId)
    BY <1>0 DEF MayBan, HasGuild, ById, Owns, OwnedByAnother, OwnersInv
  <2>3. OwnerTask(c, "rank", r, db.guilds, lastId) /\ OwnerTask(c, "done", r, db.guilds, lastId)
    BY <2>1 DEF OwnerTask
  <2>4. CASE MayBan(c) /\ Comes(t, "ban", r)
    <3>1. OwnerTask(c, "ban", r, db.guilds, lastId)
      BY <2>1, <2>2, <2>4 DEF OwnerTask
    <3> QED BY <1>1, <2>4, <3>1
  <2>5. CASE task[t].at = "ban" /\ Comes(t, "remove", r)
    <3>1. OwnerTask(c, "remove", r, db.guilds, lastId)
      BY <1>0, <2>1, <2>5 DEF OwnerTask
    <3> QED BY <1>1, <2>5, <3>1
  <2> QED BY <1>1, <2>1, <2>3, <2>4, <2>5
<1>3. CASE KickMember(t)
  <2>1. /\ c.op = "KickMember"
        /\ \/ Comes(t, "done", r)
           \/ MayInGuild(c.guild, c.by, {"KICK"}) /\ Comes(t, "owner", r)
           \/ task[t].at = "owner" /\ ~Owns(c.guild, c.user) /\ Comes(t, "member", r)
           \/ task[t].at = "member" /\ Comes(t, "delete", r)
    BY <1>0, <1>3, Coming DEF KickMember, Calls, Require, Execute, Comes
  <2>2. OwnerTask(c, "done", r, db.guilds, lastId)
    BY <2>1 DEF OwnerTask
  <2>3. CASE MayInGuild(c.guild, c.by, {"KICK"}) /\ Comes(t, "owner", r)
    <3>1. c.guild \in 1..lastId
      BY <2>3 DEF MayInGuild, HasGuild, ById, Owns, OwnersInv
    <3>2. OwnerTask(c, "owner", r, db.guilds, lastId)
      BY <2>1, <3>1 DEF OwnerTask
    <3> QED BY <1>1, <2>3, <3>2
  <2>4. CASE task[t].at = "owner" /\ ~Owns(c.guild, c.user) /\ Comes(t, "member", r)
    <3>1. OwnedByAnother(c.guild, c.user, db.guilds, lastId)
      BY <1>0, <2>1, <2>4 DEF OwnerTask, Owns, OwnedByAnother
    <3>2. OwnerTask(c, "member", r, db.guilds, lastId)
      BY <2>1, <3>1 DEF OwnerTask
    <3> QED BY <1>1, <2>4, <3>2
  <2>5. CASE task[t].at = "member" /\ Comes(t, "delete", r)
    <3>1. OwnerTask(c, "delete", r, db.guilds, lastId)
      BY <1>0, <2>1, <2>5 DEF OwnerTask
    <3> QED BY <1>1, <2>5, <3>1
  <2> QED BY <1>1, <2>1, <2>2, <2>3, <2>4, <2>5
<1> QED BY <1>2, <1>3

LEMMA OwnersStep == Base /\ OwnersInv /\ [Next]_vars => OwnersInv'
<1> SUFFICES ASSUME Base, OwnersInv, [Next]_vars PROVE OwnersInv'
  OBVIOUS
<1>1. ASSUME NEW t \in Tasks, Serve(t) PROVE OwnersInv'
  <2>1. CASE task[t].call.op \notin OwnerReaders
    BY <1>1, <2>1, OwnerUnread, OwnerMoves
  <2>2. CASE task[t].call.op \in OwnerReaders
    <3>1. CreateGuild(t) \/ UpdateGuild(t) \/ BanMember(t) \/ KickMember(t)
      BY <1>1, <2>2, Dispatch DEF OwnerReaders
    <3> QED BY <1>1, <3>1, OwnerFounds, OwnerRenames, OwnerSpared, OwnerMoves
  <2> QED BY <2>1, <2>2
<1>2. CASE Calm
  <2>1. db'.guilds = db.guilds /\ lastId' = lastId
    BY <1>2 DEF Calm, Tables
  <2>2. ASSUME NEW t \in Tasks
        PROVE  OwnerTask(task'[t].call, task'[t].at, task'[t].row, db.guilds, lastId)
    <3>1. CASE task'[t] = task[t]
      BY <3>1 DEF OwnersInv
    <3>2. CASE task'[t] = Free \/ Begun(t)
      <4>1. task'[t] = Free => task'[t].at = "idle"
        BY DEF Free
      <4>2. Begun(t) => task'[t].at = "start"
        BY DEF Begun
      <4> QED BY <3>2, <4>1, <4>2 DEF OwnerTask
    <3> QED BY <1>2, <3>1, <3>2 DEF Calm
  <2> QED BY <2>1, <2>2 DEF OwnersInv
<1> QED BY <1>1, <1>2, CalmSteps

LEMMA OwnersInit == Init => OwnersInv
<1> SUFFICES ASSUME Init PROVE OwnersInv
  OBVIOUS
<1>1. Initial(db, lastId)
  BY ScenarioAssumption DEF Init, This
<1>2. \A t \in Tasks : task[t].at = "idle"
  BY DEF Init, Unserved, Free
<1> QED BY <1>1, <1>2 DEF OwnersInv, OwnerTask, Initial
-----------------------------------------------------------------------------
(***************************************************************************)
(* Who joins and who leaves.                                               *)
(***************************************************************************)
LEMMA MemberRows ==
  ASSUME IsDatabase(db)
  PROVE  /\ \A g, u : InsertMember(g, u).db.members = db.members \cup {[guild |-> g, user |-> u]}
         /\ \A g, u : DeleteMember(g, u).db.members = db.members \ {[guild |-> g, user |-> u]}
         /\ \A g : /\ DeleteGuildRow(g).db.members = {m \in db.members : m.guild # g}
                   /\ DeleteGuildRow(g).db.guilds = {x \in db.guilds : x.id # g}
<1>1. \A g, u : InsertMember(g, u).db.members = db.members \cup {[guild |-> g, user |-> u]}
  BY DEF InsertMember, Insert, Statement, IsDatabase, Tables
<1>2. \A g, u : DeleteMember(g, u).db.members = db.members \ {[guild |-> g, user |-> u]}
  BY CascadeRows DEF DeleteMember, Statement
<1>3. \A g : /\ DeleteGuildRow(g).db.members = {m \in db.members : m.guild # g}
             /\ DeleteGuildRow(g).db.guilds = {x \in db.guilds : x.id # g}
  BY GuildGone
<1> QED BY <1>1, <1>2, <1>3

\* The membership that a request is about to insert, or to delete.
Inserts(t, m) ==
  \/ Calls(t, "CreateGuild") /\ task[t].at = "member" /\ m = [guild |-> task[t].row.guild, user |-> task[t].call.by]
  \/ Calls(t, "AcceptInvite") /\ task[t].at = "join" /\ m = [guild |-> task[t].row.guild, user |-> task[t].call.by]

Deletes(t, m) ==
  \/ Calls(t, "KickMember") /\ task[t].at = "delete" /\ m = [guild |-> task[t].call.guild, user |-> task[t].call.user]
  \/ Calls(t, "LeaveGuild") /\ task[t].at = "delete" /\ m = [guild |-> task[t].call.guild, user |-> task[t].call.by]
  \/ Calls(t, "BanMember") /\ task[t].at = "remove" /\ m = [guild |-> task[t].call.guild, user |-> task[t].call.user]

LEMMA Membership ==
  ASSUME Base, NEW t \in Tasks, Serve(t)
  PROVE  /\ \A m \in db'.members : m \in db.members \/ Inserts(t, m)
         /\ \A m \in db.members : m \in db'.members \/ Deletes(t, m) \/ \A x \in db'.guilds : x.id # m.guild
<1> DEFINE c == task[t].call
           r == task[t].row
           Goal == /\ \A m \in db'.members : m \in db.members \/ Inserts(t, m)
                   /\ \A m \in db.members : m \in db'.members \/ Deletes(t, m) \/ \A x \in db'.guilds : x.id # m.guild
<1>0. IsDatabase(db) /\ Frame(t)
  BY ServeFrame DEF Base, Shape
<1>1. CASE c.op \notin {"CreateGuild", "AcceptInvite", "KickMember", "LeaveGuild", "BanMember", "DeleteGuild"}
  BY <1>0, <1>1 DEF Frame, Writes, Tables
<1>2. CASE db'.members = db.members
  BY <1>2
<1>3. CASE CreateGuild(t)
  <2>1. \/ db' = db
        \/ \E g, u : db' = InsertGuild(g, u).db
        \/ \E row : db' = InsertRole(row).db \/ db' = InsertChannel(row).db
        \/ \E g, u, role : db' = AddMemberRole(g, u, role).db
        \/ task[t].at = "member" /\ db' = InsertMember(r.guild, c.by).db
    BY <1>3 DEF CreateGuild, Create, Execute
  <2>2. /\ \A g, u : InsertGuild(g, u).db.members = db.members
        /\ \A row : InsertRole(row).db.members = db.members /\ InsertChannel(row).db.members = db.members
        /\ \A g, u, role : AddMemberRole(g, u, role).db.members = db.members
    BY <1>0, GuildRows, GuildThings DEF Only, Tables
  <2>3. CASE task[t].at = "member" /\ db' = InsertMember(r.guild, c.by).db
    <3>1. PICK pair : pair = [guild |-> r.guild, user |-> c.by]
      OBVIOUS
    <3>2. db'.members = db.members \cup {pair}
      BY <1>0, <2>3, <3>1, MemberRows
    <3>3. Inserts(t, pair)
      BY <1>3, <2>3, <3>1 DEF Inserts, CreateGuild
    <3> QED BY <3>2, <3>3
  <2> QED BY <1>2, <2>1, <2>2, <2>3
<1>4. CASE AcceptInvite(t)
  <2>1. \/ db' = db
        \/ \E code : db' = IncrementUses(code).db
        \/ task[t].at = "join" /\ db' = InsertMember(r.guild, c.by).db
    BY <1>4 DEF AcceptInvite, Require, Select, Execute
  <2>2. \A code : IncrementUses(code).db.members = db.members
    BY <1>0, GuildThings DEF Only, Tables
  <2>3. CASE task[t].at = "join" /\ db' = InsertMember(r.guild, c.by).db
    BY <1>0, <1>4, <2>3, MemberRows DEF Inserts, AcceptInvite
  <2> QED BY <1>2, <2>1, <2>2, <2>3
<1>5. CASE KickMember(t)
  <2>1. db' = db \/ (task[t].at = "delete" /\ db' = DeleteMember(c.guild, c.user).db)
    BY <1>5 DEF KickMember, Require, Execute
  <2> QED BY <1>0, <1>5, <2>1, MemberRows DEF Deletes, KickMember
<1>6. CASE LeaveGuild(t)
  <2>1. db' = db \/ (task[t].at = "delete" /\ db' = DeleteMember(c.guild, c.by).db)
    BY <1>6 DEF LeaveGuild, Require, Execute
  <2> QED BY <1>0, <1>6, <2>1, MemberRows DEF Deletes, LeaveGuild
<1>7. CASE BanMember(t)
  <2>1. \/ db' = db \/ (task[t].at = "remove" /\ db' = DeleteMember(c.guild, c.user).db)
        \/ \E g, u : db' = InsertBan(g, u).db
    BY <1>7 DEF BanMember, Require, Execute
  <2>2. \A g, u : InsertBan(g, u).db.members = db.members
    BY <1>0, GuildThings DEF Only, Tables
  <2> QED BY <1>0, <1>2, <1>7, <2>1, <2>2, MemberRows DEF Deletes, BanMember
<1>8. CASE DeleteGuild(t)
  <2>1. db' = db \/ \E g : db' = DeleteGuildRow(g).db
    BY <1>8 DEF DeleteGuild, Require, Execute
  <2> QED BY <1>0, <1>2, <2>1, MemberRows
<1> QED BY <1>1, <1>3, <1>4, <1>5, <1>6, <1>7, <1>8, Dispatch
-----------------------------------------------------------------------------
\* A client leaves guilds that there are or have been: LeaveGuild does not ask
\* for the guild, so one that came before its guild would pass the test for the
\* owner (member.go:222-228).
LeavesKnownGuilds == \A t \in Tasks : Calls(t, "LeaveGuild") => task[t].call.guild \in 1..lastId

LeaveInv ==
  \A t \in Tasks : Calls(t, "LeaveGuild") /\ task[t].at \in {"member", "delete"} =>
    OwnedByAnother(task[t].call.guild, task[t].call.by, db.guilds, lastId)

LEMMA LeaveStep == Base /\ OwnersInv /\ LeavesKnownGuilds /\ LeaveInv /\ [Next]_vars => LeaveInv'
<1> SUFFICES ASSUME Base, OwnersInv, LeavesKnownGuilds, LeaveInv, [Next]_vars,
                    NEW u \in Tasks, Calls(u, "LeaveGuild")', task'[u].at \in {"member", "delete"}
             PROVE  OwnedByAnother(task'[u].call.guild, task'[u].call.by, db'.guilds, lastId')
  BY DEF LeaveInv
<1>1. ASSUME NEW t \in Tasks, Serve(t)
      PROVE  OwnedByAnother(task'[u].call.guild, task'[u].call.by, db'.guilds, lastId')
  <2>1. GuildsKept(db.guilds, db'.guilds, lastId, lastId') /\ Moves(t)
    BY <1>1, GuildsStay, ServeFrame
  <2>2. CASE u # t
    <3>1. task'[u] = task[u]
      BY <2>1, <2>2 DEF Moves
    <3> QED BY <2>1, <3>1, OwnerStaysOwner DEF LeaveInv, Calls
  <2>3. CASE u = t
    <3>1. task'[t].call = task[t].call /\ task[t].call.op = "LeaveGuild"
      BY <2>1, <2>3 DEF Moves, Calls, Free
    <3>2. LeaveGuild(t) /\ TasksShape
      BY <1>1, <3>1, Dispatch DEF Base, Shape
    <3>3. task[t].at = "member" \/ ~Owns(task[t].call.guild, task[t].call.by)
      BY <2>3, <3>2, Coming DEF LeaveGuild, Require, Execute, Comes, Free
    <3>4. OwnedByAnother(task[t].call.guild, task[t].call.by, db.guilds, lastId)
      BY <3>1, <3>3 DEF LeaveInv, LeavesKnownGuilds, Calls, Owns, OwnedByAnother
    <3> QED BY <2>1, <2>3, <3>1, <3>4, OwnerStaysOwner
  <2> QED BY <2>2, <2>3
<1>2. CASE Calm
  <2>1. db'.guilds = db.guilds /\ lastId' = lastId
    BY <1>2 DEF Calm, Tables
  <2>2. task'[u] = Free => task'[u].at = "idle"
    BY DEF Free
  <2>3. Begun(u) => task'[u].at = "start"
    BY DEF Begun
  <2>4. task'[u] = task[u]
    BY <1>2, <2>2, <2>3 DEF Calm
  <2> QED BY <2>1, <2>4 DEF LeaveInv, Calls
<1> QED BY <1>1, <1>2, CalmSteps

\* The owner of a guild stays a member of it while there is the guild, for the
\* tests of KickMember, LeaveGuild and BanMember before they delete, as long as
\* nobody leaves a guild before there is one (member.go, ban.go).
THEOREM OwnerCorrect == Spec /\ []LeavesKnownGuilds => OwnerStays
<1>1. Init => Base /\ OwnersInv /\ LeaveInv
  <2> SUFFICES ASSUME Init PROVE LeaveInv
    BY BaseInit, OwnersInit
  <2>1. \A t \in Tasks : task[t].at = "idle"
    BY DEF Init, Unserved, Free
  <2> QED BY <2>1 DEF LeaveInv
<1>2. Base /\ OwnersInv /\ LeaveInv /\ LeavesKnownGuilds /\ [Next]_vars => (Base /\ OwnersInv /\ LeaveInv)'
  BY BaseStep, OwnersStep, LeaveStep
<1>3. Base /\ OwnersInv /\ LeaveInv /\ [Next]_vars =>
        [\A g \in db.guilds :
           IsMember(g.id, g.owner) /\ (\E h \in db.guilds' : h.id = g.id)
             => [guild |-> g.id, user |-> g.owner] \in db.members']_vars
  <2> SUFFICES ASSUME Base, OwnersInv, LeaveInv, [Next]_vars, NEW g \in db.guilds, IsMember(g.id, g.owner),
                      NEW h \in db.guilds', h.id = g.id
               PROVE  [guild |-> g.id, user |-> g.owner] \in db.members'
    OBVIOUS
  <2>1. PICK m \in db.members : m = [guild |-> g.id, user |-> g.owner]
    BY DEF IsMember
  <2>2. ASSUME NEW t \in Tasks, Deletes(t, m) PROVE FALSE
    <3>1. CASE Calls(t, "LeaveGuild")
      <4>1. OwnedByAnother(g.id, g.owner, db.guilds, lastId)
        BY <2>1, <2>2, <3>1 DEF Deletes, LeaveInv, Calls
      <4> QED BY <4>1 DEF OwnedByAnother
    <3>2. CASE ~Calls(t, "LeaveGuild")
      <4>1. OwnedByAnother(g.id, g.owner, db.guilds, lastId)
        BY <2>1, <2>2, <3>2 DEF Deletes, OwnersInv, OwnerTask, Calls
      <4> QED BY <4>1 DEF OwnedByAnother
    <3> QED BY <3>1, <3>2
  <2>3. CASE \E t \in Tasks : Serve(t)
    <3>1. m \in db'.members
      BY <2>1, <2>2, <2>3, Membership
    <3> QED BY <2>1, <3>1
  <2>4. CASE Calm
    BY <2>1, <2>4 DEF Calm, Tables
  <2> QED BY <2>3, <2>4, CalmSteps
<1> QED BY <1>1, <1>2, <1>3, PTL DEF Spec, OwnerStays
-----------------------------------------------------------------------------
(***************************************************************************)
(* Bans.                                                                   *)
(***************************************************************************)
Removing(b) ==
  \E t \in Tasks : /\ Calls(t, "BanMember") /\ task[t].at = "remove"
                   /\ task[t].call.guild = b.guild /\ task[t].call.user = b.user

\* A banned user has slipped in, or is about to be removed, or is no member and
\* about to become none.
BanKept(b) == b \in past.slipped \/ Removing(b) \/ (b \notin db.members /\ ~Joining(b.guild, b.user))

\* Nobody bans the owner of a guild that CreateGuild is about to join.
Founding(t) == Calls(t, "CreateGuild") /\ task[t].at \in {"everyone", "admin", "member"}

BansInv ==
  /\ \A b \in db.bans : b = [guild |-> b.guild, user |-> b.user] /\ BanKept(b)
  /\ \A t \in Tasks : Founding(t) => ~\E b \in db.bans : b.guild = task[t].row.guild /\ b.user = task[t].call.by

LEMMA BanRows ==
  ASSUME IsDatabase(db)
  PROVE  /\ \A g, u : /\ InsertBan(g, u).db.bans = db.bans \cup {[guild |-> g, user |-> u]}
                      /\ InsertBan(g, u).ok => HasGuild(g)
         /\ \A g, u : DeleteBan(g, u).db.bans \subseteq db.bans
         /\ \A g : DeleteGuildRow(g).db.bans \subseteq db.bans
         /\ \A g, u : DeleteMember(g, u).db.bans = db.bans
<1>1. \A g, u : /\ InsertBan(g, u).db.bans = db.bans \cup {[guild |-> g, user |-> u]}
                /\ InsertBan(g, u).ok => HasGuild(g)
  BY DEF InsertBan, Insert, Statement, IsDatabase, Tables
<1>2. \A g, u : DeleteBan(g, u).db.bans \subseteq db.bans
  BY DEF DeleteBan, Delete, Statement, IsDatabase, Tables
<1>3. \A g : DeleteGuildRow(g).db.bans \subseteq db.bans
  BY FewerRows DEF Tables
<1>4. \A g, u : DeleteMember(g, u).db.bans = db.bans
  BY GuildRows DEF Only, Tables
<1> QED BY <1>1, <1>2, <1>3, <1>4

\* A ban is new only as the third statement of BanMember writes it.
LEMMA NewBans ==
  ASSUME Base, NEW t \in Tasks, Serve(t), NEW b \in db'.bans, b \notin db.bans
  PROVE  /\ BanMember(t) /\ task[t].at = "ban" /\ HasGuild(task[t].call.guild)
         /\ b = [guild |-> task[t].call.guild, user |-> task[t].call.user]
         /\ task'[t].call = task[t].call /\ task'[t].at = "remove"
<1> DEFINE c == task[t].call
<1>0. IsDatabase(db) /\ Frame(t) /\ TasksShape
  BY ServeFrame DEF Base, Shape
<1>1. c.op \in {"BanMember", "UnbanMember", "DeleteGuild"}
  BY <1>0 DEF Frame, Writes, Tables
<1>2. CASE UnbanMember(t) \/ DeleteGuild(t)
  <2>1. db' = db \/ \E g, u : db' = DeleteBan(g, u).db \/ db' = DeleteGuildRow(g).db
    BY <1>2 DEF UnbanMember, DeleteGuild, Require, Execute
  <2> QED BY <1>0, <2>1, BanRows
<1>3. CASE BanMember(t)
  <2>1. PICK g, u : g = c.guild /\ u = c.user
    OBVIOUS
  <2>2. \/ db' = db \/ \E x, y : db' = DeleteMember(x, y).db
        \/ /\ task[t].at = "ban" /\ InsertBan(g, u).ok /\ db' = InsertBan(g, u).db
           /\ Go(t, "remove")
    BY <1>3, <2>1 DEF BanMember, Require, Execute
  <2>3. /\ task[t].at = "ban" /\ InsertBan(g, u).ok /\ db' = InsertBan(g, u).db
        /\ Go(t, "remove")
    BY <1>0, <2>2, BanRows
  <2>4. task'[t].call = task[t].call /\ task'[t].at = "remove"
    BY <1>0, <2>3 DEF Go, TasksShape
  <2>5. HasGuild(g) /\ b = [guild |-> g, user |-> u]
    BY <1>0, <2>3, BanRows
  <2> QED BY <1>3, <2>1, <2>3, <2>4, <2>5
<1> QED BY <1>1, <1>2, <1>3, Dispatch

\* A request that starts to join has just seen that there is no ban.
LEMMA NewJoins ==
  ASSUME Base, NEW t \in Tasks, Serve(t), Calls(t, "AcceptInvite")', task'[t].at = "join"
  PROVE  /\ db' = db
         /\ ~IsBanned(task'[t].row.guild, task'[t].call.by)
<1>0. TasksShape /\ Moves(t)
  BY ServeFrame DEF Base, Shape
<1>1. task[t].call.op = "AcceptInvite" /\ task'[t].call = task[t].call
  BY <1>0 DEF Moves, Calls, Free
<1>2. AcceptInvite(t)
  BY <1>1, Dispatch
<1>3. task[t].at = "ban" /\ db' = db /\ ~BannedFrom(task[t].row, task[t].call.by) /\ task'[t].row = task[t].row
  BY <1>0, <1>2, Coming DEF AcceptInvite, Require, Select, Execute, Comes, Free
<1> QED BY <1>1, <1>3 DEF BannedFrom

\* What a step of a request leaves of past.slipped.
LEMMA Slipped ==
  ASSUME Base, NEW t \in Tasks, Serve(t)
  PROVE  \/ past'.slipped = past.slipped /\ ~(BanMember(t) /\ task[t].at = "remove")
         \/ /\ BanMember(t) /\ task[t].at = "remove"
            /\ db' = DeleteMember(task[t].call.guild, task[t].call.user).db
            /\ \A b : b # [guild |-> task[t].call.guild, user |-> task[t].call.user] =>
                        (b \in past'.slipped <=> b \in past.slipped)
            /\ Joining(task[t].call.guild, task[t].call.user) =>
                 [guild |-> task[t].call.guild, user |-> task[t].call.user] \in past'.slipped
<1> DEFINE c == task[t].call
           pair == [guild |-> c.guild, user |-> c.user]
<1>0. past = [slipped |-> past.slipped, halfway |-> past.halfway,
              signedIn |-> past.signedIn, issued |-> past.issued]
  BY DEF Base, SessionsHeld
<1>1. CASE BanMember(t) /\ task[t].at = "remove"
  <2>1. past' = [past EXCEPT !.slipped = IF Joining(c.guild, c.user) THEN @ \cup {pair} ELSE @ \ {pair}]
    BY <1>1 DEF BanMember, Require, Execute
  <2>2. db' = DeleteMember(c.guild, c.user).db
    BY <1>1 DEF BanMember, Require, Execute, DeleteMember, Statement
  <2>3. past'.slipped = IF Joining(c.guild, c.user) THEN past.slipped \cup {pair} ELSE past.slipped \ {pair}
    BY <1>0, <2>1
  <2> HIDE DEF pair
  <2>4. /\ \A b : b # pair => (b \in past'.slipped <=> b \in past.slipped)
        /\ Joining(c.guild, c.user) => pair \in past'.slipped
    BY <2>3
  <2> QED BY <1>1, <2>2, <2>4 DEF pair
<1>2. CASE ~(BanMember(t) /\ task[t].at = "remove")
  <2>1. CASE BanMember(t)
    BY <1>2, <2>1 DEF BanMember, Execute
  <2>2. CASE GuildStep(t) /\ ~BanMember(t)
    BY <2>2 DEF GuildStep, CreateGuild, UpdateGuild, DeleteGuild, CreateInvite, AcceptInvite,
                RevokeInvite, UpdateMember, KickMember, LeaveGuild, UnbanMember
  <2>3. CASE RoleStep(t) \/ TalkStep(t)
    BY <1>2, <2>3, RoleSteps, TalkSteps DEF Base, Shape
  <2>4. CASE AccountStep(t)
    BY <1>0, <2>4 DEF AccountStep, Register, Login, Refresh, Logout, IssueTokens, Create, Require, Select, Execute
  <2> QED BY <1>2, <2>1, <2>2, <2>3, <2>4 DEF Serve
<1> QED BY <1>1, <1>2
LEMMA OldBans ==
  ASSUME Base, BansInv, NEW t \in Tasks, Serve(t), NEW b \in db.bans, b \in db'.bans
  PROVE  BanKept(b)'
<1> DEFINE pair == [guild |-> task[t].call.guild, user |-> task[t].call.user]
<1>0. /\ Moves(t) /\ b = [guild |-> b.guild, user |-> b.user] /\ BanKept(b) /\ IsDatabase(db)
      /\ b \in past'.slipped \/ Removing(b)' \/ (b \notin db'.members /\ ~Joining(b.guild, b.user)') => BanKept(b)'
  BY ServeFrame DEF BansInv, BanKept, Base, Shape
<1>1. CASE BanMember(t) /\ task[t].at = "remove" /\ b = pair
  <2>1. /\ db' = DeleteMember(task[t].call.guild, task[t].call.user).db
        /\ Joining(task[t].call.guild, task[t].call.user) => pair \in past'.slipped
    BY <1>1, Slipped
  <2>2. b \notin db'.members
    BY <1>0, <1>1, <2>1, MemberRows
  <2>3. b.guild = task[t].call.guild /\ b.user = task[t].call.user
    BY <1>1
  <2>4. Joining(b.guild, b.user)' => Joining(b.guild, b.user)
    BY <1>0, <1>1 DEF Joining, Moves, Calls, Free, BanMember
  <2> QED BY <1>0, <1>1, <2>1, <2>2, <2>3, <2>4
<1>2. CASE ~(BanMember(t) /\ task[t].at = "remove" /\ b = pair)
  <2>1. CASE b \in past.slipped
    <3>1. b \in past'.slipped
      BY <1>2, <2>1, Slipped
    <3> QED BY <1>0, <3>1
  <2>2. CASE Removing(b)
    <3>1. PICK u \in Tasks : /\ Calls(u, "BanMember") /\ task[u].at = "remove"
                             /\ task[u].call.guild = b.guild /\ task[u].call.user = b.user
      BY <2>2 DEF Removing
    <3>2. u # t
      BY <1>0, <1>2, <3>1, Dispatch DEF Calls
    <3>3. task'[u] = task[u]
      BY <1>0, <3>2 DEF Moves
    <3>4. Removing(b)'
      BY <3>1, <3>3 DEF Removing, Calls
    <3> QED BY <1>0, <3>4
  <2>3. CASE b \notin db.members /\ ~Joining(b.guild, b.user)
    <3>1. ~Inserts(t, b)
      <4>1. CASE Calls(t, "CreateGuild") /\ task[t].at = "member"
                 /\ b = [guild |-> task[t].row.guild, user |-> task[t].call.by]
        <5>1. b.guild = task[t].row.guild /\ b.user = task[t].call.by /\ Founding(t)
          BY <4>1 DEF Founding
        <5> QED BY <5>1 DEF BansInv
      <4>2. CASE Calls(t, "AcceptInvite") /\ task[t].at = "join"
                 /\ b = [guild |-> task[t].row.guild, user |-> task[t].call.by]
        <5>1. b.guild = task[t].row.guild /\ b.user = task[t].call.by
          BY <4>2
        <5> QED BY <2>3, <4>2, <5>1 DEF Joining
      <4> QED BY <4>1, <4>2 DEF Inserts
    <3>2. b \notin db'.members
      BY <2>3, <3>1, Membership
    <3>3. ASSUME NEW u \in Tasks, Calls(u, "AcceptInvite")', task'[u].at = "join",
                 task'[u].row.guild = b.guild, task'[u].call.by = b.user
          PROVE  FALSE
      <4>1. CASE u = t
        BY <1>0, <3>3, <4>1, NewJoins DEF IsBanned
      <4>2. CASE u # t
        <5>1. task'[u] = task[u]
          BY <1>0, <4>2 DEF Moves
        <5> QED BY <2>3, <3>3, <5>1 DEF Joining, Calls
      <4> QED BY <4>1, <4>2
    <3>4. ~Joining(b.guild, b.user)'
      BY <3>3 DEF Joining
    <3> QED BY <1>0, <3>2, <3>4
  <2> QED BY <1>0, <2>1, <2>2, <2>3 DEF BanKept
<1> QED BY <1>1, <1>2

LEMMA FoundersUnbanned ==
  ASSUME Base, OwnersInv, BansInv, NEW t \in Tasks, Serve(t), NEW u \in Tasks, Founding(u)', NEW b \in db'.bans
  PROVE  ~(b.guild = task'[u].row.guild /\ b.user = task'[u].call.by)
<1>0. Moves(t) /\ lastId \in Nat /\ TasksShape /\ IsDatabase(db) /\ Frame(t) /\ Sound(db)
  BY ServeFrame DEF Base, Shape, StoreInv
<1>1. CASE u # t
  <2>1. task'[u] = task[u] /\ Founding(u)
    BY <1>0, <1>1 DEF Moves, Founding, Calls
  <2>2. CASE b \in db.bans
    BY <2>1, <2>2 DEF BansInv
  <2>3. CASE b \notin db.bans
    <3>1. /\ task[t].call.op = "BanMember" /\ task[t].at = "ban" /\ HasGuild(task[t].call.guild)
          /\ b.guild = task[t].call.guild /\ b.user = task[t].call.user
      BY <2>3, NewBans DEF BanMember, Calls
    <3>2. OwnedByAnother(b.guild, b.user, db.guilds, lastId)
      BY <3>1 DEF OwnersInv, OwnerTask
    <3>3. OwnedBy(task[u].row.guild, task[u].call.by, db.guilds, lastId)
      BY <2>1 DEF OwnersInv, OwnerTask, Founding, Calls
    <3> QED BY <2>1, <3>1, <3>2, <3>3 DEF OwnedBy, OwnedByAnother, HasGuild, ById
  <2> QED BY <2>2, <2>3
<1>2. CASE u = t
  <2>1. task[t].call.op = "CreateGuild" /\ task'[t].call = task[t].call
    BY <1>0, <1>2 DEF Moves, Founding, Calls, Free
  <2>2. b \in db.bans
    BY <1>0, <2>1 DEF Frame, Writes, Tables
  <2>3. CreateGuild(t)
    BY <2>1, Dispatch
  <2>4. task[t].at \in {"start", "everyone", "admin"}
    <3>1. task[t].at \notin {"start", "everyone", "admin"} =>
            \E next \in {"assign everyone", "assign admin", "text", "voice", "done"} : Comes(t, next, task[t].row)
      BY <1>0, <2>3, Coming DEF CreateGuild, Create, Execute, Comes
    <3>2. task'[t].at \in {"everyone", "admin", "member"}
      BY <1>2 DEF Founding
    <3>3. \A next, row : Comes(t, next, row) => task'[t].at \in {"idle", next}
      BY DEF Comes, Free
    <3> QED BY <3>1, <3>2, <3>3
  <2>5. CASE task[t].at = "start"
    <3>1. PICK row : row = [guild |-> lastId + 1]
      OBVIOUS
    <3>2. Carry(t, "everyone", row) \/ Return(t)
      BY <2>3, <2>5, <3>1 DEF CreateGuild, Create, Execute
    <3>3. task'[t].row = row
      BY <1>0, <1>2, <3>2, Coming DEF Comes, Founding, Calls, Free
    <3>4. b.guild \in IdsIn(db, "guilds")
      BY <1>0, <2>2 DEF Sound, Refers, Tables
    <3>5. b.guild \in 1..lastId
      BY <3>4 DEF IdsIn, OwnersInv
    <3> QED BY <1>0, <1>2, <3>1, <3>3, <3>5
  <2>6. CASE task[t].at \in {"everyone", "admin"}
    <3>1. PICK first, second :
             /\ first = [guild |-> task[t].row.guild, everyone |-> lastId + 1]
             /\ second = [guild |-> task[t].row.guild, everyone |-> task[t].row.everyone, admin |-> lastId + 1]
      OBVIOUS
    <3>2. Carry(t, "admin", first) \/ Carry(t, "member", second) \/ Return(t)
      BY <2>3, <2>6, <3>1 DEF CreateGuild, Create, Execute
    <3>3. task'[t].row = first \/ task'[t].row = second
      BY <1>0, <1>2, <3>2, Coming DEF Comes, Founding, Calls, Free
    <3>4. task'[t].row.guild = task[t].row.guild
      BY <3>1, <3>3
    <3>5. Founding(t)
      BY <2>1, <2>6 DEF Founding, Calls
    <3> QED BY <1>2, <2>1, <2>2, <3>4, <3>5 DEF BansInv
  <2> QED BY <2>4, <2>5, <2>6
<1> QED BY <1>1, <1>2

\* Steps of no request: nobody is banned or joins.
LEMMA BansCalm ==
  ASSUME BansInv, db'.bans = db.bans, db'.members = db.members,
         \A b \in db.bans : b \in past.slipped \/ Removing(b) => b \in past'.slipped \/ Removing(b)',
         \A t \in Tasks : task'[t] = task[t] \/ task'[t].at \in {"idle", "start"}
  PROVE  BansInv'
<1>1. \A g, u : Joining(g, u)' => Joining(g, u)
  BY DEF Joining, Calls
<1>2. ASSUME NEW b \in db'.bans PROVE b = [guild |-> b.guild, user |-> b.user] /\ BanKept(b)'
  BY <1>1 DEF BansInv, BanKept
<1>3. ASSUME NEW t \in Tasks, Founding(t)'
      PROVE  ~\E b \in db'.bans : b.guild = task'[t].row.guild /\ b.user = task'[t].call.by
  <2>1. task'[t] = task[t]
    BY <1>3 DEF Founding
  <2> QED BY <1>3, <2>1 DEF BansInv, Founding, Calls
<1> QED BY <1>2, <1>3 DEF BansInv

LEMMA BansStep == Base /\ OwnersInv /\ BansInv /\ [Next]_vars => BansInv'
<1> SUFFICES ASSUME Base, OwnersInv, BansInv, [Next]_vars PROVE BansInv'
  OBVIOUS
<1> USE DEF Base, Shape
<1>1. ASSUME NEW t \in Tasks, Serve(t) PROVE BansInv'
  <2>1. ASSUME NEW b \in db'.bans PROVE b = [guild |-> b.guild, user |-> b.user] /\ BanKept(b)'
    <3>1. CASE b \in db.bans
      BY <1>1, <3>1, OldBans DEF BansInv
    <3>2. CASE b \notin db.bans
      <4>1. /\ task[t].call.op = "BanMember" /\ task'[t].call = task[t].call /\ task'[t].at = "remove"
            /\ b = [guild |-> task[t].call.guild, user |-> task[t].call.user]
        BY <1>1, <3>2, NewBans DEF BanMember, Calls
      <4>2. b.guild = task[t].call.guild /\ b.user = task[t].call.user
        BY <4>1
      <4>3. Removing(b)'
        BY <4>1, <4>2 DEF Removing, Calls
      <4> QED BY <4>1, <4>2, <4>3 DEF BanKept
    <3> QED BY <3>1, <3>2
  <2>2. ASSUME NEW u \in Tasks, Founding(u)'
        PROVE  ~\E b \in db'.bans : b.guild = task'[u].row.guild /\ b.user = task'[u].call.by
    BY <1>1, <2>2, FoundersUnbanned
  <2> QED BY <2>1, <2>2 DEF BansInv
<1>2. ASSUME NEW t \in Tasks, Begin(t) PROVE BansInv'
  <2>1. task[t].at = "idle" /\ db' = db /\ past' = past /\ \A u \in Tasks \ {t} : task'[u] = task[u]
    BY <1>2, BeginFrame DEF Begin
  <2>a. task'[t] = task[t] \/ Begun(t)
    BY <1>2, BeginFrame DEF Begun
  <2>2. task'[t] = task[t] \/ task'[t].at = "start"
    BY <2>a, BegunAtStart
  <2>3. \A b : Removing(b) => Removing(b)'
    BY <2>1 DEF Removing, Calls
  <2> QED BY <2>1, <2>2, <2>3, BansCalm
<1>3. ASSUME NEW t \in Tasks, Fail(t) PROVE BansInv'
  <2>1. Moves(t) /\ task'[t] = Free /\ db' = db
    BY <1>3, Coming DEF Fail
  <2>2. task'[t].at = "idle" /\ \A u \in Tasks \ {t} : task'[u] = task[u]
    BY <2>1 DEF Free, Moves
  <2> DEFINE pair == [guild |-> task[t].call.guild, user |-> task[t].call.user]
  <2>3. past.slipped \subseteq past'.slipped
        /\ (Calls(t, "BanMember") /\ task[t].at = "remove" => pair \in past'.slipped)
    <3>1. past = [slipped |-> past.slipped, halfway |-> past.halfway,
                  signedIn |-> past.signedIn, issued |-> past.issued]
      BY DEF SessionsHeld
    <3>2. CASE Calls(t, "BanMember") /\ task[t].at = "remove"
      <4>1. past' = [past EXCEPT !.slipped = @ \cup {pair}]
        BY <1>3, <3>2 DEF Fail
      <4> HIDE DEF pair
      <4> QED BY <3>1, <4>1
    <3>3. CASE ~(Calls(t, "BanMember") /\ task[t].at = "remove")
      <4>1. \/ past' = past
            \/ past' = [past EXCEPT !.halfway = @ \cup {task[t].row.guild}]
            \/ past' = [past EXCEPT !.signedIn = @ \ SessionsOf(task[t].call.token)]
        BY <1>3, <3>3 DEF Fail
      <4> QED BY <3>1, <3>3, <4>1
    <3> QED BY <3>2, <3>3
  <2>4. ASSUME NEW b \in db.bans, Removing(b) PROVE b \in past'.slipped \/ Removing(b)'
    <3>1. PICK u \in Tasks : /\ Calls(u, "BanMember") /\ task[u].at = "remove"
                             /\ task[u].call.guild = b.guild /\ task[u].call.user = b.user
      BY <2>4 DEF Removing
    <3>2. CASE u = t
      BY <2>3, <3>1, <3>2 DEF BansInv
    <3>3. CASE u # t
      <4>1. task'[u] = task[u]
        BY <2>2, <3>3
      <4> QED BY <3>1, <4>1 DEF Removing, Calls
    <3> QED BY <3>2, <3>3
  <2> QED BY <2>1, <2>2, <2>3, <2>4, BansCalm
<1>4. CASE ExpireInvite \/ TimePasses \/ Quiet \/ UNCHANGED vars
  <2>1. db'.bans = db.bans /\ db'.members = db.members /\ task' = task /\ past' = past
    BY <1>4 DEF ExpireInvite, Expire, TimePasses, Quiet, vars, requestVars, IsDatabase, Tables
  <2>2. \A b : Removing(b) => Removing(b)'
    BY <2>1 DEF Removing, Calls
  <2> QED BY <2>1, <2>2, BansCalm
<1> QED BY <1>1, <1>2, <1>3, <1>4 DEF Next

\* A banned user is a member only until BanMember's last statement, or because
\* the user had passed AcceptInvite's test for bans before (ban.go, invite.go).
THEOREM BanCorrect == Spec => []BanHolds
<1>1. Init => Base /\ OwnersInv /\ BansInv
  <2> SUFFICES ASSUME Init PROVE BansInv
    BY BaseInit, OwnersInit
  <2>1. \A t \in Tasks : task[t].at = "idle"
    BY DEF Init, Unserved, Free
  <2>2. \A b \in db.bans : b = [guild |-> b.guild, user |-> b.user] /\ b \notin db.members
    BY ScenarioAssumption DEF Init, This, Initial
  <2> QED BY <2>1, <2>2 DEF BansInv, BanKept, Joining, Founding
<1>2. Base /\ OwnersInv /\ BansInv /\ [Next]_vars => (Base /\ OwnersInv /\ BansInv)'
  BY BaseStep, OwnersStep, BansStep
<1>3. BansInv => BanHolds
  BY DEF BansInv, BanKept, BanHolds, Removing, IsMember
<1> QED BY <1>1, <1>2, <1>3, PTL DEF Spec
-----------------------------------------------------------------------------
(***************************************************************************)
(* Default roles.                                                          *)
(***************************************************************************)
HasDefault(g, roles) == \E x \in roles : x.guild = g /\ x.default

\* A role that has been there, and still is what was read, or no default role.
AsRead(role, default, roles, last) == role \in 1..last /\ \A x \in roles : x.id = role => x.default = default
NotDefault(role, roles, last) == role \in 1..last /\ \A x \in roles : x.id = role => ~x.default

DefaultTask(call, at, row, roles, last) ==
  /\ call.op = "CreateGuild" /\ at = "everyone" => row.guild \in 1..last /\ ~HasDefault(row.guild, roles)
  /\ call.op = "UpdateRole" /\ at \in {"rank", "write"} => AsRead(row.id, row.default, roles, last)
  /\ call.op = "DeleteRole" /\ at \in {"rank", "delete"} => NotDefault(call.role, roles, last)

\* A guild has its default role, or is given it next, or never will be.
Accounted(g) ==
  \/ HasDefault(g, db.roles)
  \/ g \in past.halfway
  \/ \E t \in Tasks : Opening(t) /\ task[t].row.guild = g

DefaultsInv ==
  /\ \A x, y \in db.roles : x.default /\ y.default /\ x.guild = y.guild => x = y
  /\ \A g \in db.guilds : Accounted(g.id)
  /\ \A t \in Tasks : DefaultTask(task[t].call, task[t].at, task[t].row, db.roles, lastId)
  /\ \A t, u \in Tasks : t # u /\ Opening(t) /\ Opening(u) => task[t].row.guild # task[u].row.guild

\* Roles keep their guild and whether they are the default; the only new default
\* role is CreateGuild's; a default role goes with its guild only.
DefaultsKept(t) ==
  /\ lastId \in Nat /\ lastId' \in {lastId, lastId + 1}
  /\ \A x \in db'.roles :
       \/ \E y \in db.roles : y.id = x.id /\ y.guild = x.guild /\ y.default = x.default
       \/ /\ x.id = lastId + 1 /\ lastId' = lastId + 1
          /\ x.default => Opening(t) /\ x.guild = task[t].row.guild
  /\ \A y \in db.roles : y.default => HasDefault(y.guild, db'.roles) \/ \A h \in db'.guilds : h.id # y.guild
  /\ GuildsKept(db.guilds, db'.guilds, lastId, lastId')

LEMMA ReadStays ==
  ASSUME NEW t \in Tasks, DefaultsKept(t)
  PROVE  /\ \A r, b : AsRead(r, b, db.roles, lastId) => AsRead(r, b, db'.roles, lastId')
         /\ \A r : NotDefault(r, db.roles, lastId) => NotDefault(r, db'.roles, lastId')
         /\ 1..lastId \subseteq 1..lastId'
<1>1. 1..lastId \subseteq 1..lastId' /\ lastId + 1 \notin 1..lastId
  BY DEF DefaultsKept
<1>2. ASSUME NEW r, NEW b, AsRead(r, b, db.roles, lastId) PROVE AsRead(r, b, db'.roles, lastId')
  BY <1>1, <1>2 DEF AsRead, DefaultsKept
<1>3. ASSUME NEW r, NotDefault(r, db.roles, lastId) PROVE NotDefault(r, db'.roles, lastId')
  BY <1>1, <1>3 DEF NotDefault, DefaultsKept
<1> QED BY <1>1, <1>2, <1>3

\* What other requests have read stays true.
LEMMA DefaultTaskStays ==
  ASSUME DefaultsInv, NEW t \in Tasks, DefaultsKept(t), NEW u \in Tasks, u # t
  PROVE  DefaultTask(task[u].call, task[u].at, task[u].row, db'.roles, lastId')
<1>1. DefaultTask(task[u].call, task[u].at, task[u].row, db.roles, lastId)
  BY DEF DefaultsInv
<1>2. ASSUME Opening(u), HasDefault(task[u].row.guild, db'.roles) PROVE FALSE
  <2>1. ~HasDefault(task[u].row.guild, db.roles)
    BY <1>1, <1>2 DEF DefaultTask, Opening, Calls
  <2>2. PICK x \in db'.roles : x.guild = task[u].row.guild /\ x.default
    BY <1>2 DEF HasDefault
  <2>3. \A y \in db.roles : ~(y.guild = x.guild /\ y.default = x.default)
    BY <2>1, <2>2 DEF HasDefault
  <2>4. Opening(t) /\ x.guild = task[t].row.guild
    BY <2>2, <2>3 DEF DefaultsKept
  <2> QED BY <1>2, <2>2, <2>4 DEF DefaultsInv
<1>3. task[u].call.op = "CreateGuild" /\ task[u].at = "everyone" => ~HasDefault(task[u].row.guild, db'.roles)
  BY <1>2 DEF Opening, Calls
<1> QED BY <1>1, <1>3, ReadStays DEF DefaultTask

\* A step of a request: every guild stays accounted for, and one that is being
\* founded is new.
DefaultMove(t) ==
  /\ Moves(t) /\ DefaultsKept(t) /\ Sound(db')
  /\ \A g \in db'.guilds : Accounted(g.id)'
  /\ DefaultTask(task'[t].call, task'[t].at, task'[t].row, db'.roles, lastId')
  /\ Opening(t)' => task'[t].row.guild = lastId + 1

LEMMA OneDefault ==
  ASSUME DefaultsInv, NEW t \in Tasks, DefaultsKept(t), Sound(db'),
         NEW x \in db'.roles, NEW y \in db'.roles, x.default, y.default, x.guild = y.guild
  PROVE  x = y
<1>1. ASSUME NEW z \in db'.roles, NEW w \in db.roles, z.id = lastId + 1, z.default,
             ~\E v \in db.roles : v.id = z.id /\ v.guild = z.guild /\ v.default = z.default,
             w.guild = z.guild, w.default
      PROVE  FALSE
  <2>1. Opening(t) /\ z.guild = task[t].row.guild
    BY <1>1 DEF DefaultsKept
  <2>2. ~HasDefault(task[t].row.guild, db.roles)
    BY <2>1 DEF DefaultsInv, DefaultTask, Opening, Calls
  <2> QED BY <1>1, <2>1, <2>2 DEF HasDefault
<1>2. x.id = y.id
  <2> DEFINE Old(z) == \E w \in db.roles : w.id = z.id /\ w.guild = z.guild /\ w.default = z.default
  <2>1. CASE Old(x) /\ Old(y)
    BY <2>1 DEF DefaultsInv
  <2>2. CASE ~Old(x) /\ ~Old(y)
    BY <2>2 DEF DefaultsKept
  <2>3. CASE Old(x) /\ ~Old(y)
    <3>1. PICK w \in db.roles : w.id = x.id /\ w.guild = x.guild /\ w.default = x.default
      BY <2>3
    <3>2. y.id = lastId + 1
      BY <2>3 DEF DefaultsKept
    <3> QED BY <1>1, <2>3, <3>1, <3>2
  <2>4. CASE ~Old(x) /\ Old(y)
    <3>1. PICK w \in db.roles : w.id = y.id /\ w.guild = y.guild /\ w.default = y.default
      BY <2>4
    <3>2. x.id = lastId + 1
      BY <2>4 DEF DefaultsKept
    <3> QED BY <1>1, <2>4, <3>1, <3>2
  <2> QED BY <2>1, <2>2, <2>3, <2>4
<1> QED BY <1>2 DEF Sound, Unique, Same, Keyed

LEMMA DefaultMoves ==
  ASSUME DefaultsInv, NEW t \in Tasks, DefaultMove(t)
  PROVE  DefaultsInv'
<1> USE DEF DefaultMove
<1>1. \A x, y \in db'.roles : x.default /\ y.default /\ x.guild = y.guild => x = y
  BY OneDefault
<1>2. \A g \in db'.guilds : Accounted(g.id)'
  OBVIOUS
<1>3. ASSUME NEW u \in Tasks PROVE DefaultTask(task'[u].call, task'[u].at, task'[u].row, db'.roles, lastId')
  <2>1. CASE u = t
    BY <2>1
  <2>2. CASE u # t
    BY <2>2, DefaultTaskStays DEF Moves
  <2> QED BY <2>1, <2>2
<1>4. ASSUME NEW u \in Tasks, NEW v \in Tasks, u # v, Opening(u)', Opening(v)', task'[u].row.guild = task'[v].row.guild
      PROVE  FALSE
  <2>1. \A w \in Tasks \ {t} : Opening(w)' => Opening(w) /\ task'[w] = task[w] /\ task[w].row.guild \in 1..lastId
    BY DEF Moves, Opening, Calls, DefaultsInv, DefaultTask
  <2>2. lastId + 1 \notin 1..lastId
    BY DEF DefaultsKept
  <2>3. CASE u # t /\ v # t
    BY <1>4, <2>1, <2>3 DEF DefaultsInv
  <2>4. CASE u = t \/ v = t
    BY <1>4, <2>1, <2>2, <2>4
  <2> QED BY <2>3, <2>4
<1> QED BY <1>1, <1>2, <1>3, <1>4 DEF DefaultsInv

\* The statements that write roles.
LEMMA RoleRows ==
  ASSUME IsDatabase(db)
  PROVE  /\ \A row : InsertRole(row).db.roles = db.roles \cup {row}
         /\ \A r : DeleteRoleRow(r).db.roles = {x \in db.roles : x.id # r}
         /\ \A g : DeleteGuildRow(g).db.roles = {x \in db.roles : x.guild # g}
         /\ \A g, u : InsertGuild(g, u).db.roles = db.roles
         /\ \A row : InsertChannel(row).db.roles = db.roles
         /\ \A g, u : InsertMember(g, u).db.roles = db.roles
         /\ \A g, u, r : AddMemberRole(g, u, r).db.roles = db.roles
<1>1. \A row : InsertRole(row).db.roles = db.roles \cup {row}
  BY DEF InsertRole, Insert, Statement, IsDatabase, Tables
<1>2. \A r : DeleteRoleRow(r).db.roles = {x \in db.roles : x.id # r}
  BY CascadeRows DEF DeleteRoleRow, Statement, ById
<1>3. \A g : DeleteGuildRow(g).db.roles = {x \in db.roles : x.guild # g}
  BY GuildGone
<1>4. /\ \A g, u : InsertGuild(g, u).db.roles = db.roles
      /\ \A row : InsertChannel(row).db.roles = db.roles
      /\ \A g, u : InsertMember(g, u).db.roles = db.roles
      /\ \A g, u, r : AddMemberRole(g, u, r).db.roles = db.roles
  BY GuildRows, GuildThings DEF Only, Tables
<1> QED BY <1>1, <1>2, <1>3, <1>4

\* Steps that leave the roles alone, or add one with the next id.
LEMMA SameRoles ==
  ASSUME Base, OwnersInv, NEW t \in Tasks, Serve(t), db'.roles = db.roles
  PROVE  DefaultsKept(t)
BY ServeFrame, GuildsStay DEF DefaultsKept, HasDefault

LEMMA OneMoreRole ==
  ASSUME Base, OwnersInv, NEW t \in Tasks, Serve(t), NEW row, row.id = lastId + 1, lastId' = lastId + 1,
         row.default => Opening(t) /\ row.guild = task[t].row.guild, db'.roles = db.roles \cup {row}
  PROVE  DefaultsKept(t)
BY ServeFrame, GuildsStay DEF DefaultsKept, HasDefault

LEMMA CreatedKeeps ==
  ASSUME Base, OwnersInv, NEW t \in Tasks, Serve(t), CreateRole(t)
  PROVE  DefaultsKept(t)
<1> DEFINE c == task[t].call
<1>1. PICK row : row = [id |-> lastId + 1, guild |-> c.guild, position |-> c.position,
                        perms |-> c.perms, default |-> FALSE]
  OBVIOUS
<1>2. db' = db \/ (db' = InsertRole(row).db /\ lastId' = lastId + 1)
  BY <1>1 DEF CreateRole, Require, Create
<1>3. row.id = lastId + 1 /\ ~row.default
  BY <1>1
<1> QED BY <1>2, <1>3, RoleRows, SameRoles, OneMoreRole DEF Base, Shape

LEMMA FoundedKeeps ==
  ASSUME Base, OwnersInv, NEW t \in Tasks, Serve(t), CreateGuild(t)
  PROVE  DefaultsKept(t)
<1> DEFINE r == task[t].row
           u == task[t].call.by
<1>0. IsDatabase(db)
  BY DEF Base, Shape
<1>1. PICK everyone, admin :
         /\ everyone = [id |-> lastId + 1, guild |-> r.guild, position |-> 0, perms |-> Everyone, default |-> TRUE]
         /\ admin = [id |-> lastId + 1, guild |-> r.guild, position |-> 1, perms |-> {"ADMIN"}, default |-> FALSE]
  OBVIOUS
<1>2. \/ db' = db
      \/ \E g : db' = InsertGuild(g, u).db
      \/ \E row : db' = InsertChannel(row).db
      \/ \E g : db' = InsertMember(g, u).db
      \/ \E g, x : db' = AddMemberRole(g, u, x).db
      \/ task[t].at = "everyone" /\ lastId' = lastId + 1 /\ db' = InsertRole(everyone).db
      \/ lastId' = lastId + 1 /\ db' = InsertRole(admin).db
  BY <1>1 DEF CreateGuild, Create, Execute
<1>3. everyone.id = lastId + 1 /\ everyone.guild = r.guild /\ admin.id = lastId + 1 /\ ~admin.default
  BY <1>1
<1>4. CASE task[t].at = "everyone" /\ lastId' = lastId + 1 /\ db' = InsertRole(everyone).db
  <2>1. Opening(t)
    BY <1>4 DEF Opening, CreateGuild
  <2>2. db'.roles = db.roles \cup {everyone}
    BY <1>0, <1>4, RoleRows
  <2> QED BY <1>3, <1>4, <2>1, <2>2, OneMoreRole
<1>5. CASE lastId' = lastId + 1 /\ db' = InsertRole(admin).db
  <2>1. db'.roles = db.roles \cup {admin}
    BY <1>0, <1>5, RoleRows
  <2> QED BY <1>3, <1>5, <2>1, OneMoreRole
<1>6. CASE db'.roles = db.roles
  BY <1>6, SameRoles
<1> QED BY <1>0, <1>2, <1>4, <1>5, <1>6, RoleRows

\* UpdateRole writes back whether the role is the default one.
LEMMA UpdatedKeeps ==
  ASSUME Base, OwnersInv, DefaultsInv, NEW t \in Tasks, Serve(t), UpdateRole(t)
  PROVE  DefaultsKept(t)
<1> DEFINE c == task[t].call
           r == task[t].row
<1>0. /\ IsDatabase(db) /\ task[t].call.op = "UpdateRole" /\ Carried(task[t].call, task[t].at, task[t].row, db)
      /\ DefaultTask(c, task[t].at, r, db.roles, lastId)
      /\ GuildsKept(db.guilds, db'.guilds, lastId, lastId') /\ lastId \in Nat /\ lastId' \in {lastId, lastId + 1}
  BY ServeFrame, GuildsStay DEF Base, Shape, StoreInv, UpdateRole, Calls, DefaultsInv
<1>1. db' = db \/ (db' = UpdateRoleRow(Edited(r, c)).db /\ task[t].at = "write")
  BY DEF UpdateRole, Select, Require, Execute
<1>2. ASSUME db' = UpdateRoleRow(Edited(r, c)).db, task[t].at = "write" PROVE DefaultsKept(t)
  <2>1. IsRole(r) /\ \A x \in db.roles : x.id = r.id => x.default = r.default
    BY <1>0, <1>2 DEF Carried, DefaultTask, AsRead
  <2>2. PICK row : row = Edited(r, c)
    OBVIOUS
  <2>3. IsRole(row) /\ row.id = r.id /\ row.default = r.default
    BY <2>1, <2>2, EditedRole
  <2>4. db'.roles = {IF x.id = row.id THEN [row EXCEPT !.guild = x.guild] ELSE x : x \in db.roles}
    BY <1>0, <1>2, <2>2 DEF UpdateRoleRow, Statement, IsDatabase, Tables
  <2> DEFINE After(x) == IF x.id = row.id THEN [row EXCEPT !.guild = x.guild] ELSE x
  <2>5. ASSUME NEW x \in db.roles
        PROVE  After(x).id = x.id /\ After(x).guild = x.guild /\ After(x).default = x.default
    <3>1. \A g : /\ [row EXCEPT !.guild = g].id = row.id /\ [row EXCEPT !.guild = g].guild = g
                 /\ [row EXCEPT !.guild = g].default = row.default
      BY <2>3 DEF IsRole
    <3> QED BY <2>1, <2>3, <3>1
  <2>6. db'.roles = {After(x) : x \in db.roles}
    BY <2>4
  <2> HIDE DEF After
  <2>7. \A x \in db'.roles : \E y \in db.roles : y.id = x.id /\ y.guild = x.guild /\ y.default = x.default
    BY <2>5, <2>6
  <2>8. \A y \in db.roles : y.default => HasDefault(y.guild, db'.roles)
    BY <2>5, <2>6 DEF HasDefault
  <2> QED BY <1>0, <2>7, <2>8 DEF DefaultsKept
<1> QED BY <1>1, <1>2, SameRoles

\* A default role is not deleted but with its guild.
LEMMA DeletedKeeps ==
  ASSUME Base, OwnersInv, DefaultsInv, NEW t \in Tasks, Serve(t), DeleteRole(t) \/ DeleteGuild(t)
  PROVE  DefaultsKept(t)
<1> DEFINE c == task[t].call
<1>0. /\ IsDatabase(db) /\ DefaultTask(c, task[t].at, task[t].row, db.roles, lastId)
      /\ GuildsKept(db.guilds, db'.guilds, lastId, lastId') /\ lastId \in Nat /\ lastId' \in {lastId, lastId + 1}
  BY ServeFrame, GuildsStay DEF Base, Shape, DefaultsInv
<1>1. \/ db' = db
      \/ DeleteRole(t) /\ task[t].at = "delete" /\ db' = DeleteRoleRow(c.role).db
      \/ DeleteGuild(t) /\ db' = DeleteGuildRow(c.guild).db
  BY DEF DeleteRole, DeleteGuild, Select, Require, Execute
<1>2. CASE DeleteRole(t) /\ task[t].at = "delete" /\ db' = DeleteRoleRow(c.role).db
  <2>1. \A x \in db.roles : x.id = c.role => ~x.default
    BY <1>0, <1>2 DEF DeleteRole, Calls, DefaultTask, NotDefault
  <2>2. db'.roles = {x \in db.roles : x.id # c.role}
    BY <1>0, <1>2, RoleRows
  <2> QED BY <1>0, <2>1, <2>2 DEF DefaultsKept, HasDefault
<1>3. CASE DeleteGuild(t) /\ db' = DeleteGuildRow(c.guild).db
  <2>1. db'.roles = {x \in db.roles : x.guild # c.guild} /\ db'.guilds = {x \in db.guilds : x.id # c.guild}
    BY <1>0, <1>3, GuildGone
  <2> QED BY <1>0, <2>1 DEF DefaultsKept, HasDefault
<1> QED BY <1>1, <1>2, <1>3, SameRoles

LEMMA DefaultsStay ==
  ASSUME Base, OwnersInv, DefaultsInv, NEW t \in Tasks, Serve(t)
  PROVE  DefaultsKept(t)
<1>1. CASE task[t].call.op \notin {"CreateGuild", "CreateRole", "UpdateRole", "DeleteRole", "DeleteGuild"}
  BY <1>1, ServeFrame, SameRoles DEF Frame, Writes, Tables
<1>2. CASE task[t].call.op \in {"CreateGuild", "CreateRole", "UpdateRole", "DeleteRole", "DeleteGuild"}
  BY <1>2, Dispatch, CreatedKeeps, FoundedKeeps, UpdatedKeeps, DeletedKeeps
<1> QED BY <1>1, <1>2
-----------------------------------------------------------------------------
\* No step of a request changes which guilds have stopped half-way.
LEMMA HalfwayStays ==
  ASSUME Base, NEW t \in Tasks, Serve(t)
  PROVE  past'.halfway = past.halfway
<1>0. past = [slipped |-> past.slipped, halfway |-> past.halfway,
              signedIn |-> past.signedIn, issued |-> past.issued]
  BY DEF Base, SessionsHeld
<1>1. CASE BanMember(t)
  BY <1>0, <1>1 DEF BanMember
<1>2. CASE GuildStep(t) /\ ~BanMember(t)
  BY <1>2 DEF GuildStep, CreateGuild, UpdateGuild, DeleteGuild, CreateInvite, AcceptInvite,
              RevokeInvite, UpdateMember, KickMember, LeaveGuild, UnbanMember
<1>3. CASE RoleStep(t) \/ TalkStep(t)
  BY <1>3, RoleSteps, TalkSteps DEF Base, Shape
<1>4. CASE AccountStep(t)
  BY <1>0, <1>4 DEF AccountStep, Register, Login, Refresh, Logout, IssueTokens, Create, Require, Select, Execute
<1> QED BY <1>1, <1>2, <1>3, <1>4 DEF Serve

\* A new guild is CreateGuild's, which inserts its default role next.
LEMMA NewGuilds ==
  ASSUME Base, OwnersInv, NEW t \in Tasks, Serve(t), NEW g \in db'.guilds, g.id \notin Ids("guilds")
  PROVE  Opening(t)' /\ task'[t].row.guild = g.id
<1> DEFINE c == task[t].call
<1>0. /\ IsDatabase(db) /\ TasksShape /\ Frame(t) /\ lastId \in Nat
      /\ g.id = lastId + 1 /\ lastId' = lastId + 1 /\ db'.guilds # db.guilds
  BY ServeFrame, GuildsStay DEF Base, Shape, GuildsKept, Ids, IdsIn
<1>1. c.op \in {"CreateGuild", "UpdateGuild", "DeleteGuild"}
  BY <1>0 DEF Frame, Writes, Tables
<1>2. CreateGuild(t)
  <2>1. CASE UpdateGuild(t)
    BY <1>0, <2>1 DEF UpdateGuild, Require, Select, Execute
  <2>2. CASE DeleteGuild(t)
    BY <1>0, <2>2 DEF DeleteGuild, Require, Execute
  <2> QED BY <1>1, <2>1, <2>2, Dispatch
<1>3. PICK new, u, row : new = lastId + 1 /\ u = c.by /\ row = [guild |-> new]
  OBVIOUS
<1>4. task[t].at = "start"
  <2>1. CASE task[t].at # "start"
    <3>1. \/ db' = db
          \/ \E x : db' = InsertRole(x).db \/ db' = InsertChannel(x).db
          \/ \E h : db' = InsertMember(h, u).db \/ \E r : db' = AddMemberRole(h, u, r).db
      BY <1>2, <1>3, <2>1 DEF CreateGuild, Create, Execute
    <3>2. /\ \A x : InsertRole(x).db.guilds = db.guilds /\ InsertChannel(x).db.guilds = db.guilds
          /\ \A h : InsertMember(h, u).db.guilds = db.guilds
          /\ \A h, r : AddMemberRole(h, u, r).db.guilds = db.guilds
      BY <1>0, GuildRows, GuildThings DEF Only, Tables
    <3> QED BY <1>0, <3>1, <3>2
  <2> QED BY <2>1
<1>5. Carry(t, "everyone", row)
  BY <1>0, <1>2, <1>3, <1>4 DEF CreateGuild, Create, Execute
<1>6. task'[t].call = c /\ task'[t].at = "everyone" /\ task'[t].row = row
  <2>1. task[t] = [call |-> c, at |-> task[t].at, row |-> task[t].row] /\ t \in DOMAIN task
    BY <1>0 DEF TasksShape
  <2>2. task'[t] = [task[t] EXCEPT !.at = "everyone", !.row = row]
    BY <1>5, <2>1 DEF Carry
  <2> QED BY <2>1, <2>2
<1>7. c.op = "CreateGuild"
  BY <1>2 DEF CreateGuild, Calls
<1>8. row.guild = g.id
  BY <1>0, <1>3
<1> QED BY <1>6, <1>7, <1>8 DEF Opening, Calls

\* The request that is to insert the default role of a guild inserts it, unless
\* the guild has been deleted.
LEMMA OpenedGuild ==
  ASSUME Base, RolesInv, NEW t \in Tasks, Serve(t), Opening(t), HasGuild(task[t].row.guild)
  PROVE  HasDefault(task[t].row.guild, db'.roles)
<1> DEFINE g == task[t].row.guild
<1>0. IsDatabase(db) /\ CreateGuild(t) /\ task[t].at = "everyone" /\ lastId \in Nat
  BY Dispatch, ServeFrame DEF Opening, Calls, Base, Shape
<1>1. PICK role : role = [id |-> lastId + 1, guild |-> g, position |-> 0, perms |-> Everyone, default |-> TRUE]
  OBVIOUS
<1>2. InsertRole(role).ok
  <2>1. lastId + 1 \notin 1..lastId
    BY <1>0
  <2>2. ById("roles", role.id) = {} /\ role.guild = g
    BY <1>1, <2>1 DEF ById, RolesInv
  <2> QED BY <2>2 DEF InsertRole, Insert, Statement
<1>3. db' = InsertRole(role).db
  BY <1>0, <1>1, <1>2 DEF CreateGuild, Create, Execute
<1>4. role \in db'.roles
  BY <1>0, <1>3, RoleRows
<1>5. role.guild = g /\ role.default
  BY <1>1
<1> QED BY <1>4, <1>5 DEF HasDefault

LEMMA AccountedServe ==
  ASSUME Base, OwnersInv, RolesInv, DefaultsInv, NEW t \in Tasks, Serve(t), NEW g \in db'.guilds
  PROVE  Accounted(g.id)'
<1>0. Moves(t) /\ DefaultsKept(t) /\ past'.halfway = past.halfway
  BY ServeFrame, DefaultsStay, HalfwayStays
<1>1. CASE g.id \notin Ids("guilds")
  BY <1>1, NewGuilds DEF Accounted
<1>2. CASE g.id \in Ids("guilds")
  <2>1. Accounted(g.id)
    BY <1>2 DEF Ids, IdsIn, DefaultsInv
  <2>2. CASE HasDefault(g.id, db.roles)
    <3>1. HasDefault(g.id, db'.roles)
      BY <1>0, <2>2 DEF DefaultsKept, HasDefault
    <3> QED BY <3>1 DEF Accounted
  <2>3. CASE g.id \in past.halfway
    BY <1>0, <2>3 DEF Accounted
  <2>4. ASSUME NEW u \in Tasks, Opening(u), task[u].row.guild = g.id PROVE Accounted(g.id)'
    <3>1. CASE u = t
      <4>1. HasGuild(task[t].row.guild)
        BY <1>2, <2>4, <3>1 DEF HasGuild, ById, Ids, IdsIn
      <4> QED BY <2>4, <3>1, <4>1, OpenedGuild DEF Accounted
    <3>2. CASE u # t
      BY <1>0, <2>4, <3>2 DEF Moves, Accounted, Opening, Calls
    <3> QED BY <3>1, <3>2
  <2> QED BY <2>1, <2>2, <2>3, <2>4 DEF Accounted
<1> QED BY <1>1, <1>2

\* A request that ends before the default role leaves the guild half-way.
LEMMA AccountedCalm ==
  ASSUME Base, DefaultsInv, Calm, [Next]_vars, ~\E t \in Tasks : Serve(t)
  PROVE  \A g \in db'.guilds : Accounted(g.id)'
<1>0. db'.guilds = db.guilds /\ db'.roles = db.roles
      /\ past = [slipped |-> past.slipped, halfway |-> past.halfway,
                 signedIn |-> past.signedIn, issued |-> past.issued]
  BY DEF Calm, Tables, Base, SessionsHeld
<1>1. /\ past.halfway \subseteq past'.halfway
      /\ \A t \in Tasks : Opening(t) => task'[t] = task[t] \/ task[t].row.guild \in past'.halfway
  <2>1. ASSUME NEW t \in Tasks, Begin(t)
        PROVE  past' = past /\ \A u \in Tasks : Opening(u) => task'[u] = task[u]
    BY <2>1, BeginFrame DEF Base, Shape, Begin, Opening
  <2>2. ASSUME NEW t \in Tasks, Fail(t)
        PROVE  /\ past.halfway \subseteq past'.halfway
               /\ \A u \in Tasks : Opening(u) => task'[u] = task[u] \/ task[u].row.guild \in past'.halfway
    <3>1. \A u \in Tasks \ {t} : task'[u] = task[u]
      BY <2>2, Coming DEF Fail, Base, Shape, Moves
    <3>2. CASE Opening(t)
      <4>1. past' = [past EXCEPT !.halfway = @ \cup {task[t].row.guild}]
        BY <2>2, <3>2 DEF Fail, Opening, Calls
      <4> QED BY <1>0, <3>1, <4>1
    <3>3. CASE ~Opening(t)
      <4>1. past'.halfway = past.halfway
        BY <1>0, <2>2, <3>3 DEF Fail
      <4> QED BY <3>1, <3>3, <4>1
    <3> QED BY <3>2, <3>3
  <2>3. CASE ExpireInvite \/ TimePasses \/ Quiet \/ UNCHANGED vars
    <3>1. past' = past /\ task' = task
      BY <2>3 DEF ExpireInvite, Expire, TimePasses, Quiet, vars, requestVars
    <3> QED BY <3>1
  <2> QED BY <2>1, <2>2, <2>3 DEF Next
<1> SUFFICES ASSUME NEW g, Accounted(g) PROVE Accounted(g)'
  BY <1>0 DEF DefaultsInv
<1>2. CASE HasDefault(g, db.roles) \/ g \in past.halfway
  BY <1>0, <1>1, <1>2 DEF Accounted
<1>3. ASSUME NEW t \in Tasks, Opening(t), task[t].row.guild = g PROVE Accounted(g)'
  BY <1>1, <1>3 DEF Accounted, Opening, Calls
<1> QED BY <1>2, <1>3 DEF Accounted

\* A request carries on with what it has read.
LEMMA DefaultComes ==
  ASSUME Base, OwnersInv, RolesInv, DefaultsInv, NEW t \in Tasks, Serve(t), NEW next, NEW row, Comes(t, next, row),
         DefaultTask(task[t].call, next, row, db'.roles, lastId'),
         task[t].call.op = "CreateGuild" /\ next = "everyone" => row.guild = lastId + 1
  PROVE  DefaultMove(t)
<1>1. Moves(t) /\ DefaultsKept(t) /\ \A g \in db'.guilds : Accounted(g.id)'
  BY DefaultsStay, AccountedServe DEF Comes
<1>2. Sound(db')
  BY StoreServe DEF Base, Shape, StoreInv, StoreMove, Fine
<1>3. CASE task'[t] = Free
  <2>1. task'[t].call.op = "none"
    BY <1>3 DEF Free
  <2> QED BY <1>1, <1>2, <2>1 DEF DefaultMove, DefaultTask, Opening, Calls
<1>4. CASE task'[t].call = task[t].call /\ task'[t].at = next /\ task'[t].row = row
  BY <1>1, <1>2, <1>4 DEF DefaultMove, Opening, Calls
<1> QED BY <1>3, <1>4 DEF Comes

DefaultReaders == {"CreateGuild", "UpdateRole", "DeleteRole"}

LEMMA DefaultUnread ==
  ASSUME Base, OwnersInv, RolesInv, DefaultsInv, NEW t \in Tasks, Serve(t), task[t].call.op \notin DefaultReaders
  PROVE  DefaultMove(t)
<1>1. Moves(t) /\ DefaultsKept(t) /\ \A g \in db'.guilds : Accounted(g.id)'
  BY DefaultsStay, AccountedServe, ServeFrame
<1>2. Sound(db')
  BY StoreServe DEF Base, Shape, StoreInv, StoreMove, Fine
<1>3. task'[t].call.op \notin DefaultReaders
  BY <1>1 DEF Moves, Free, DefaultReaders
<1> QED BY <1>1, <1>2, <1>3 DEF DefaultMove, DefaultTask, DefaultReaders, Opening, Calls

\* UpdateRole and DeleteRole carry a role that they have read.
LEMMA DefaultRead ==
  ASSUME Base, OwnersInv, RolesInv, DefaultsInv, NEW t \in Tasks, Serve(t), UpdateRole(t) \/ DeleteRole(t)
  PROVE  DefaultMove(t)
<1> DEFINE c == task[t].call
           r == task[t].row
<1>0. /\ TasksShape /\ Sound(db) /\ c.op \in {"UpdateRole", "DeleteRole"} /\ DefaultsKept(t)
      /\ DefaultTask(c, task[t].at, r, db.roles, lastId)
  BY DefaultsStay DEF Base, Shape, StoreInv, UpdateRole, DeleteRole, Calls, DefaultsInv
<1>1. ASSUME NEW next, NEW row, Comes(t, next, row), DefaultTask(c, next, row, db.roles, lastId)
      PROVE  DefaultMove(t)
  <2>1. DefaultTask(c, next, row, db'.roles, lastId')
    BY <1>0, <1>1, ReadStays DEF DefaultTask
  <2> QED BY <1>0, <1>1, <2>1, DefaultComes
<1>2. DefaultTask(c, "done", r, db.roles, lastId)
  BY <1>0 DEF DefaultTask
<1>3. \A x \in ById("roles", c.role) :
        /\ x \in db.roles /\ x.id = c.role /\ x.id \in 1..lastId
        /\ \A y \in db.roles : y.id = c.role => y = x
  BY <1>0 DEF ById, RolesInv, Sound, Unique, Same, Keyed
<1>4. CASE UpdateRole(t)
  <2>1. \/ Comes(t, "done", r)
        \/ \E x \in ById("roles", c.role) : Comes(t, "rank", x)
        \/ task[t].at = "rank" /\ Comes(t, "write", r)
    <3>1. CASE Select(t, "start", ById("roles", c.role), "rank")
      BY <1>0, <3>1, Coming DEF Select, Comes
    <3>2. CASE ~Select(t, "start", ById("roles", c.role), "rank")
      BY <1>0, <1>4, <3>2, Coming DEF UpdateRole, Require, Execute, Comes
    <3> QED BY <3>1, <3>2
  <2>2. c.op = "UpdateRole"
    BY <1>4 DEF UpdateRole, Calls
  <2>3. \A x \in ById("roles", c.role) : DefaultTask(c, "rank", x, db.roles, lastId)
    BY <1>3, <2>2 DEF DefaultTask, AsRead
  <2>4. task[t].at = "rank" => DefaultTask(c, "write", r, db.roles, lastId)
    BY <1>0, <2>2 DEF DefaultTask
  <2> QED BY <1>1, <1>2, <2>1, <2>3, <2>4
<1>5. CASE DeleteRole(t)
  <2>1. \/ Comes(t, "done", r)
        \/ \E x \in Deletable(c.role) : Comes(t, "rank", x)
        \/ task[t].at = "rank" /\ Comes(t, "delete", r)
    <3>1. CASE Select(t, "start", Deletable(c.role), "rank")
      BY <1>0, <3>1, Coming DEF Select, Comes
    <3>2. CASE ~Select(t, "start", Deletable(c.role), "rank")
      BY <1>0, <1>5, <3>2, Coming DEF DeleteRole, Require, Execute, Comes
    <3> QED BY <3>1, <3>2
  <2>2. c.op = "DeleteRole"
    BY <1>5 DEF DeleteRole, Calls
  <2>3. ASSUME NEW x \in Deletable(c.role) PROVE DefaultTask(c, "rank", x, db.roles, lastId)
    <3>1. x \in ById("roles", c.role) /\ ~x.default
      BY DEF Deletable
    <3>2. NotDefault(c.role, db.roles, lastId)
      BY <1>3, <3>1 DEF NotDefault
    <3> QED BY <2>2, <3>2 DEF DefaultTask
  <2>4. task[t].at = "rank" => DefaultTask(c, "delete", r, db.roles, lastId)
    BY <1>0, <2>2 DEF DefaultTask
  <2> QED BY <1>1, <1>2, <2>1, <2>3, <2>4
<1> QED BY <1>4, <1>5

\* CreateGuild inserts a guild with a new id, and next its default role.
LEMMA DefaultFounded ==
  ASSUME Base, OwnersInv, RolesInv, DefaultsInv, NEW t \in Tasks, Serve(t), CreateGuild(t)
  PROVE  DefaultMove(t)
<1> DEFINE c == task[t].call
           r == task[t].row
           new == lastId + 1
<1>0. TasksShape /\ IsDatabase(db) /\ Sound(db) /\ lastId \in Nat /\ c.op = "CreateGuild"
  BY DEF Base, Shape, StoreInv, CreateGuild, Calls
<1>1. ASSUME NEW next, NEW row, Comes(t, next, row), next # "everyone"
      PROVE  DefaultMove(t)
  <2>1. DefaultTask(c, next, row, db'.roles, lastId')
    BY <1>0, <1>1 DEF DefaultTask
  <2> QED BY <1>0, <1>1, <2>1, DefaultComes
<1>2. CASE task[t].at = "start"
  <2>1. PICK row : row = [guild |-> new]
    OBVIOUS
  <2>2. lastId' = new /\ (db' = db \/ db' = InsertGuild(new, c.by).db) /\ Comes(t, "everyone", row)
    BY <1>0, <1>2, <2>1, Coming DEF CreateGuild, Create, Execute, Comes
  <2>3. row.guild = new /\ new \in 1..lastId' /\ new \notin 1..lastId
    BY <1>0, <2>1, <2>2
  <2>4. db'.roles = db.roles
    BY <1>0, <2>2, RoleRows
  <2>5. ~HasDefault(new, db'.roles)
    <3>1. \A x \in db.roles : x.guild \in IdsIn(db, "guilds")
      BY <1>0 DEF Sound, Refers, Tables
    <3> QED BY <2>3, <2>4, <3>1 DEF HasDefault, IdsIn, OwnersInv
  <2>6. DefaultTask(c, "everyone", row, db'.roles, lastId')
    BY <1>0, <2>3, <2>5 DEF DefaultTask
  <2> QED BY <2>2, <2>3, <2>6, DefaultComes
<1>3. CASE task[t].at # "start"
  <2>1. PICK rows : rows = {[guild |-> r.guild, everyone |-> new],
                            [guild |-> r.guild, everyone |-> r.everyone, admin |-> new], r}
    OBVIOUS
  <2>2. \E next \in {"admin", "member", "assign everyone", "assign admin", "text", "voice", "done"} :
          \E row \in rows : Comes(t, next, row)
    BY <1>0, <1>3, <2>1, Coming DEF CreateGuild, Create, Execute, Comes
  <2> QED BY <1>1, <2>2
<1> QED BY <1>2, <1>3

LEMMA DefaultsStep == Base /\ OwnersInv /\ RolesInv /\ DefaultsInv /\ [Next]_vars => DefaultsInv'
<1> SUFFICES ASSUME Base, OwnersInv, RolesInv, DefaultsInv, [Next]_vars PROVE DefaultsInv'
  OBVIOUS
<1>1. ASSUME NEW t \in Tasks, Serve(t) PROVE DefaultsInv'
  <2>1. CASE task[t].call.op \notin DefaultReaders
    BY <1>1, <2>1, DefaultUnread, DefaultMoves
  <2>2. CASE task[t].call.op \in DefaultReaders
    <3>1. CreateGuild(t) \/ UpdateRole(t) \/ DeleteRole(t)
      BY <1>1, <2>2, Dispatch DEF DefaultReaders
    <3> QED BY <1>1, <3>1, DefaultFounded, DefaultRead, DefaultMoves
  <2> QED BY <2>1, <2>2
<1>2. CASE Calm /\ ~\E t \in Tasks : Serve(t)
  <2>1. db'.roles = db.roles /\ lastId' = lastId
    BY <1>2 DEF Calm, Tables
  <2>2. \A g \in db'.guilds : Accounted(g.id)'
    BY <1>2, AccountedCalm
  <2>3. ASSUME NEW t \in Tasks
        PROVE  /\ DefaultTask(task'[t].call, task'[t].at, task'[t].row, db'.roles, lastId')
               /\ Opening(t)' => Opening(t) /\ task'[t] = task[t]
    <3>1. CASE task'[t] = task[t]
      BY <2>1, <3>1 DEF DefaultsInv, Opening, Calls
    <3>2. CASE task'[t] = Free \/ Begun(t)
      <4>1. task'[t] = Free => task'[t].at = "idle"
        BY DEF Free
      <4>2. task'[t].at \in {"idle", "start"}
        BY <3>2, <4>1, BegunAtStart
      <4> QED BY <4>2 DEF DefaultTask, Opening
    <3> QED BY <1>2, <3>1, <3>2 DEF Calm
  <2> QED BY <2>1, <2>2, <2>3 DEF DefaultsInv
<1> QED BY <1>1, <1>2, CalmSteps

LEMMA DefaultsInit == Init => DefaultsInv
<1> SUFFICES ASSUME Init PROVE DefaultsInv
  OBVIOUS
<1>1. Initial(db, lastId)
  BY ScenarioAssumption DEF Init, This
<1>2. \A t \in Tasks : task[t].at = "idle"
  BY DEF Init, Unserved, Free
<1>3. \A x, y \in db.roles : x.default /\ y.default /\ x.guild = y.guild => x = y
  BY <1>1 DEF Initial
<1>4. ASSUME NEW g \in db.guilds PROVE Accounted(g.id)
  <2>1. CASE HasDefault(g.id, db.roles)
    BY <2>1 DEF Accounted
  <2>2. CASE ~HasDefault(g.id, db.roles)
    <3>1. DefaultRoles(g.id) = {}
      BY <2>2 DEF DefaultRoles, RolesOfGuild, HasDefault
    <3>2. g.id \in {h \in Ids("guilds") : DefaultRoles(h) = {}}
      BY <3>1 DEF Ids, IdsIn
    <3> QED BY <3>2 DEF Init, Accounted
  <2> QED BY <2>1, <2>2
<1> QED BY <1>2, <1>3, <1>4 DEF DefaultsInv, DefaultTask, Opening

\* A guild has one default role, wherever requests stop, from the statement of
\* CreateGuild that inserts it until the guild is deleted (guild.go, role.go); a
\* guild without one is about to be given it, or its CreateGuild stopped before.
THEOREM DefaultRoleCorrect == Spec => []DefaultRoleStays
<1>1. Init => Base /\ OwnersInv /\ RolesInv /\ DefaultsInv
  BY BaseInit, OwnersInit, RolesInit, DefaultsInit
<1>2. Base /\ OwnersInv /\ RolesInv /\ DefaultsInv /\ [Next]_vars
        => (Base /\ OwnersInv /\ RolesInv /\ DefaultsInv)'
  BY BaseStep, OwnersStep, RolesStep, DefaultsStep
<1>3. DefaultsInv => DefaultRoleStays
  <2> SUFFICES ASSUME DefaultsInv, NEW g \in db.guilds
               PROVE  \/ Cardinality(DefaultRoles(g.id)) = 1
                      \/ /\ DefaultRoles(g.id) = {}
                         /\ g.id \in past.halfway \/ \E t \in Tasks : Opening(t) /\ task[t].row.guild = g.id
    BY DEF DefaultRoleStays
  <2>1. CASE HasDefault(g.id, db.roles)
    <3>1. PICK x \in db.roles : x.guild = g.id /\ x.default
      BY <2>1 DEF HasDefault
    <3>2. DefaultRoles(g.id) = {x}
      BY <3>1 DEF DefaultsInv, DefaultRoles, RolesOfGuild
    <3> QED BY <3>2, FS_Singleton
  <2>2. CASE ~HasDefault(g.id, db.roles)
    <3>1. DefaultRoles(g.id) = {}
      BY <2>2 DEF DefaultRoles, RolesOfGuild, HasDefault
    <3>2. Accounted(g.id)
      BY DEF DefaultsInv
    <3> QED BY <2>2, <3>1, <3>2 DEF Accounted
  <2> QED BY <2>1, <2>2
<1> QED BY <1>1, <1>2, <1>3, PTL DEF Spec

=============================================================================
