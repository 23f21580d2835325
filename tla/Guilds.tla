------------------------------- MODULE Guilds -------------------------------
(***************************************************************************)
(* The services of guilds, invites, members and bans: one operator per     *)
(* method that changes rows, with a disjunct per statement.  The methods   *)
(* that only read and answer are left out.                                 *)
(***************************************************************************)
EXTENDS Permissions

\* CreateGuild: eight statements without a transaction.
CreateGuild(t) ==
  LET u == task[t].call.by
      r == task[t].row
      new == lastId + 1
      role(position, perms, default) ==
        [id |-> new, guild |-> r.guild, position |-> position, perms |-> perms, default |-> default]
      channel(name, type) ==
        [id |-> new, guild |-> r.guild, name |-> name, type |-> type, parent |-> 0]
  IN  /\ Calls(t, "CreateGuild")
      /\ UNCHANGED past
      /\ \/ Create(t, "start", InsertGuild(new, u), "everyone", [guild |-> new])
         \/ Create(t, "everyone", InsertRole(role(0, Everyone, TRUE)), "admin",
                   [guild |-> r.guild, everyone |-> new])
         \/ Create(t, "admin", InsertRole(role(1, {"ADMIN"}, FALSE)), "member",
                   [guild |-> r.guild, everyone |-> r.everyone, admin |-> new])
         \/ Execute(t, "member", InsertMember(r.guild, u), "assign everyone")
         \/ Execute(t, "assign everyone", AddMemberRole(r.guild, u, r.everyone), "assign admin")
         \/ Execute(t, "assign admin", AddMemberRole(r.guild, u, r.admin), "text")
         \/ Create(t, "text", InsertChannel(channel("general", "text")), "voice", r)
         \/ Create(t, "voice", InsertChannel(channel("General", "voice")), "done", r)

\* UpdateGuild: writes back the row it has read, with another name or icon.
UpdateGuild(t) ==
  LET c == task[t].call IN
  /\ Calls(t, "UpdateGuild")
  /\ UNCHANGED past
  /\ \/ Require(t, "start", MayInGuild(c.guild, c.by, {"MANAGE_GUILD"}), "read")
     \/ Select(t, "read", ById("guilds", c.guild), "write")
     \/ Execute(t, "write", UpdateGuildRow(task[t].row), "done")

DeleteGuild(t) ==
  LET c == task[t].call IN
  /\ Calls(t, "DeleteGuild")
  /\ UNCHANGED past
  /\ \/ Require(t, "start", Owns(c.guild, c.by), "delete")
     \/ Execute(t, "delete", DeleteGuildRow(c.guild), "done")
-----------------------------------------------------------------------------
CreateInvite(t) ==
  LET c == task[t].call
      invite == [code |-> lastId + 1, guild |-> c.guild, creator |-> c.by,
                 max |-> c.max, uses |-> 0, expired |-> FALSE]
  IN  /\ Calls(t, "CreateInvite")
      /\ UNCHANGED past
      /\ \/ Require(t, "start", MayInGuildByPerm(c.guild, c.by, {"CREATE_INVITE"}), "insert")
         \/ Create(t, "insert", InsertInvite(invite), "done", None)

\* The time of an invite has run out.
Expire(i) ==
  /\ i \in db.invites /\ ~i.expired
  /\ db' = [db EXCEPT !.invites = (@ \ {i}) \cup {[i EXCEPT !.expired = TRUE]}]
  /\ UNCHANGED <<task, lastId, past>>

PastLimit(i) == i.max > 0 /\ i.uses > i.max
UsedUp(i) == i.max > 0 /\ i.uses >= i.max

CreatorBanned(i, u) == IsBanned(i.guild, i.creator)
BannedFrom(i, u) == IsBanned(i.guild, u)

\* AcceptInvite: tests the row of the invite, the membership and the ban, each
\* with a statement of its own, before it inserts the member and counts.
AcceptInvite(t) ==
  LET c == task[t].call
      i == task[t].row
  IN  /\ Calls(t, "AcceptInvite")
      /\ UNCHANGED past
      /\ \/ Select(t, "start", {r \in InviteByCode(c.code) : ~r.expired /\ ~UsedUp(r)}, "member")
         \/ Require(t, "member", ~IsMember(i.guild, c.by), "ban")
         \/ Require(t, "ban", ~BannedFrom(i, c.by), "join")
         \/ Execute(t, "join", InsertMember(i.guild, c.by), "count")
         \/ Execute(t, "count", IncrementUses(i.code), "guild")
         \/ Require(t, "guild", HasGuild(i.guild), "done")

RevokeInvite(t) ==
  LET c == task[t].call
      i == task[t].row
  IN  /\ Calls(t, "RevokeInvite")
      /\ UNCHANGED past
      /\ \/ Select(t, "start", InviteByCode(c.code), "may")
         \/ Require(t, "may", i.creator = c.by \/ MayInGuildByPerm(i.guild, c.by, {"MANAGE_GUILD"}), "delete")
         \/ Execute(t, "delete", DeleteInvite(c.code), "done")
-----------------------------------------------------------------------------
\* Nicknames are left out: UpdateSelf and the nickname of UpdateMember change
\* no column of the model.
\* UpdateMember with roles: removes the valid roles the member had, one by one,
\* then tests and adds the new ones, one by one.  row holds what is left to do.
UpdateMember(t) ==
  LET c == task[t].call
      r == task[t].row
      valid == {x.id : x \in {y \in RolesOfGuild(c.guild) : ~y.default}}
  IN  /\ Calls(t, "UpdateMember")
      /\ UNCHANGED past
      /\ \/ Require(t, "start", MayInGuild(c.guild, c.by, {"MANAGE_ROLES"}), "member")
         \/ Select(t, "member", {[old |-> RoleIdsOf(m.guild, m.user)] : m \in
                      {x \in db.members : x.guild = c.guild /\ x.user = c.user}}, "valid")
         \/ Select(t, "valid", {[old |-> r.old \cap valid, new |-> c.roles, valid |-> valid]}, "roles")
         \/ /\ task[t].at = "roles" /\ r.old # {}
            /\ \E role \in r.old :
                 /\ db' = RemoveMemberRole(c.guild, c.user, role).db
                 /\ Carry(t, "roles", [r EXCEPT !.old = @ \ {role}])
            /\ UNCHANGED lastId
         \/ /\ task[t].at = "roles" /\ r.old = {} /\ r.new # {}
            /\ \E role \in r.new :
                 LET added == AddMemberRole(c.guild, c.user, role) IN
                 IF role \in r.valid /\ added.ok
                 THEN db' = added.db /\ Carry(t, "roles", [r EXCEPT !.new = @ \ {role}])
                 ELSE UNCHANGED db /\ Return(t)
            /\ UNCHANGED lastId
         \/ /\ task[t].at = "roles" /\ r.old = {} /\ r.new = {}
            /\ Return(t)
            /\ UNCHANGED <<db, lastId>>

KickMember(t) ==
  LET c == task[t].call IN
  /\ Calls(t, "KickMember")
  /\ UNCHANGED past
  /\ \/ Require(t, "start", MayInGuild(c.guild, c.by, {"KICK"}), "owner")
     \/ Require(t, "owner", ~Owns(c.guild, c.user), "member")
     \/ Require(t, "member", IsMember(c.guild, c.user), "delete")
     \/ Execute(t, "delete", DeleteMember(c.guild, c.user), "done")

LeaveGuild(t) ==
  LET c == task[t].call IN
  /\ Calls(t, "LeaveGuild")
  /\ UNCHANGED past
  /\ \/ Require(t, "start", ~Owns(c.guild, c.by), "member")
     \/ Require(t, "member", IsMember(c.guild, c.by), "delete")
     \/ Execute(t, "delete", DeleteMember(c.guild, c.by), "done")
-----------------------------------------------------------------------------
\* Requests that have tested that a user is not banned and will insert the member.
Joining(g, u) ==
  \E t \in Tasks : /\ Calls(t, "AcceptInvite") /\ task[t].at = "join"
                   /\ task[t].row.guild = g /\ task[t].call.by = u

MayBanByRank(c) ==
  LET rank(u) == Highest(RolesOfMember(c.guild, u), -1)
  IN  HasGuild(c.guild) /\ (Owns(c.guild, c.by) \/ rank(c.user) < rank(c.by))

MayBan(c) ==
  LET rank(u) == Highest(RolesOfMember(c.guild, u), -1)
  IN  HasGuild(c.guild) /\ ~Owns(c.guild, c.user) /\ (Owns(c.guild, c.by) \/ rank(c.user) < rank(c.by))

\* BanMember: an error of the last statement is ignored.  past.slipped remembers
\* the banned users who were about to join when it was over.
BanMember(t) ==
  LET c == task[t].call
      pair == [guild |-> c.guild, user |-> c.user]
  IN  /\ Calls(t, "BanMember")
      /\ \/ /\ \/ Require(t, "start", c.by # c.user /\ MayInGuildByPerm(c.guild, c.by, {"BAN"}), "rank")
               \/ Require(t, "rank", MayBan(c), "ban")
               \/ Execute(t, "ban", InsertBan(c.guild, c.user), "remove")
            /\ UNCHANGED past
         \/ /\ Execute(t, "remove", DeleteMember(c.guild, c.user), "done")
            /\ past' = [past EXCEPT !.slipped = IF Joining(c.guild, c.user) THEN @ \cup {pair} ELSE @ \ {pair}]

UnbanMember(t) ==
  LET c == task[t].call IN
  /\ Calls(t, "UnbanMember")
  /\ UNCHANGED past
  /\ \/ Require(t, "start", MayInGuildByPerm(c.guild, c.by, {"BAN"}), "delete")
     \/ Execute(t, "delete", DeleteBan(c.guild, c.user), "done")

GuildStep(t) ==
  \/ CreateGuild(t) \/ UpdateGuild(t) \/ DeleteGuild(t)
  \/ CreateInvite(t) \/ AcceptInvite(t) \/ RevokeInvite(t)
  \/ UpdateMember(t) \/ KickMember(t) \/ LeaveGuild(t)
  \/ BanMember(t) \/ UnbanMember(t)
=============================================================================
