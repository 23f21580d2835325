------------------------------- MODULE Roles -------------------------------
(***************************************************************************)
(* The services of roles, channel overrides and channels.  Names, colours, *)
(* topics and the position of a channel are left out of their rows.        *)
(***************************************************************************)
EXTENDS Permissions

\* The hierarchy tests of the role service: guild and the actor's roles.
Outranks(g, actor, position) == Owns(g, actor) \/ position < HighestRolePosition(g, actor)

CreateRole(t) ==
  LET c == task[t].call
      role == [id |-> lastId + 1, guild |-> c.guild, position |-> c.position,
               perms |-> c.perms, default |-> FALSE]
  IN  /\ Calls(t, "CreateRole")
      /\ UNCHANGED past
      /\ \/ Require(t, "start", Outranks(c.guild, c.by, c.position), "insert")
         \/ Create(t, "insert", InsertRole(role), "done", None)

\* A field that the request does not set keeps the value that was read.
Edited(role, c) ==
  [role EXCEPT !.position = IF c.position = None THEN @ ELSE c.position,
               !.perms = IF c.perms = None THEN @ ELSE c.perms]

\* UpdateRole: the role may be of any guild; writes back every column it has read.
UpdateRole(t) ==
  LET c == task[t].call
      r == task[t].row
  IN  /\ Calls(t, "UpdateRole")
      /\ UNCHANGED past
      /\ \/ Select(t, "start", ById("roles", c.role), "rank")
         \/ Require(t, "rank", Outranks(c.guild, c.by, r.position), "write")
         \/ Execute(t, "write", UpdateRoleRow(Edited(r, c)), "done")

AnyRole(role) == ById("roles", role)
Deletable(role) == {r \in ById("roles", role) : ~r.default}

DeleteRole(t) ==
  LET c == task[t].call IN
  /\ Calls(t, "DeleteRole")
  /\ UNCHANGED past
  /\ \/ Select(t, "start", Deletable(c.role), "rank")
     \/ Require(t, "rank", Outranks(c.guild, c.by, task[t].row.position), "delete")
     \/ Execute(t, "delete", DeleteRoleRow(c.role), "done")

OfAnyGuild(role, g) == ById("roles", role)
OfGuild(role, g) == {r \in ById("roles", role) : r.guild = g}

AssignRole(t) ==
  LET c == task[t].call IN
  /\ Calls(t, "AssignRole")
  /\ UNCHANGED past
  /\ \/ Require(t, "start", IsMember(c.guild, c.user), "role")
     \/ Select(t, "role", OfGuild(c.role, c.guild), "rank")
     \/ Require(t, "rank", Outranks(c.guild, c.by, task[t].row.position), "add")
     \/ Execute(t, "add", AddMemberRole(c.guild, c.user, c.role), "done")

\* RemoveRole: a role that is gone is removed without a test.
RemoveRole(t) ==
  LET c == task[t].call
      positions == {r.position : r \in ById("roles", c.role)}
  IN  /\ Calls(t, "RemoveRole")
      /\ UNCHANGED past
      /\ \/ Require(t, "start", \A p \in positions : Outranks(c.guild, c.by, p), "remove")
         \/ Execute(t, "remove", RemoveMemberRole(c.guild, c.user, c.role), "done")

SetChannelOverride(t) ==
  LET c == task[t].call
      row == [channel |-> c.channel, role |-> c.role, allow |-> c.allow, deny |-> c.deny]
  IN  /\ Calls(t, "SetChannelOverride")
      /\ UNCHANGED past
      /\ \/ Require(t, "start", HasChannel(c.channel), "set")
         \/ Execute(t, "set", SetOverride(row), "done")

DeleteChannelOverride(t) ==
  LET c == task[t].call IN
  /\ Calls(t, "DeleteChannelOverride")
  /\ UNCHANGED past
  /\ Execute(t, "start", DeleteOverride(c.channel, c.role), "done")
-----------------------------------------------------------------------------
CreateChannel(t) ==
  LET c == task[t].call
      row == [id |-> lastId + 1, guild |-> c.guild, name |-> c.name, type |-> c.type, parent |-> c.parent]
  IN  /\ Calls(t, "CreateChannel")
      /\ UNCHANGED past
      /\ \/ Require(t, "start", MayInGuild(c.guild, c.by, {"MANAGE_CHANNELS"}), "insert")
         \/ Create(t, "insert", InsertChannel(row), "done", None)

UpdateChannel(t) ==
  LET c == task[t].call
      r == task[t].row
  IN  /\ Calls(t, "UpdateChannel")
      /\ UNCHANGED past
      /\ \/ Select(t, "start", ById("channels", c.channel), "may")
         \/ Require(t, "may", MayInGuild(r.guild, c.by, {"MANAGE_CHANNELS"}), "write")
         \/ Execute(t, "write", UpdateChannelRow([r EXCEPT !.name = c.name]), "done")

DeleteChannel(t) ==
  LET c == task[t].call IN
  /\ Calls(t, "DeleteChannel")
  /\ UNCHANGED past
  /\ \/ Select(t, "start", ById("channels", c.channel), "may")
     \/ Require(t, "may", MayInGuild(task[t].row.guild, c.by, {"MANAGE_CHANNELS"}), "delete")
     \/ Execute(t, "delete", DeleteChannelRow(c.channel), "done")

RoleStep(t) ==
  \/ CreateRole(t) \/ UpdateRole(t) \/ DeleteRole(t) \/ AssignRole(t) \/ RemoveRole(t)
  \/ SetChannelOverride(t) \/ DeleteChannelOverride(t)
  \/ CreateChannel(t) \/ UpdateChannel(t) \/ DeleteChannel(t)
=============================================================================
