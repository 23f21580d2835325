--------------------------- MODULE ServicesProofs ---------------------------
EXTENDS Services, FiniteSetTheorems, TLAPS

Keeps(d, tables) == IsDatabase(d) /\ \A x \in tables : d[x] = db[x]

LEMMA CascadesKeep ==
  ASSUME NEW d, IsDatabase(d), NEW gone
  PROVE  /\ IsDatabase(WithoutMembers(d, gone))
         /\ \A x \in Tables \ {"members", "memberRoles"} : WithoutMembers(d, gone)[x] = d[x]
         /\ IsDatabase(WithoutRoles(d, gone))
         /\ \A x \in Tables \ {"roles", "memberRoles", "overrides"} : WithoutRoles(d, gone)[x] = d[x]
         /\ IsDatabase(WithoutChannels(d, gone))
         /\ \A x \in Tables \ {"channels", "overrides", "messages", "attachments"} : WithoutChannels(d, gone)[x] = d[x]
<1> USE DEF IsDatabase
<1>1. IsDatabase(WithoutMembers(d, gone))
  BY DEF WithoutMembers
<1>2. \A x \in Tables \ {"members", "memberRoles"} : WithoutMembers(d, gone)[x] = d[x]
  BY DEF WithoutMembers
<1>3. IsDatabase(WithoutRoles(d, gone))
  BY DEF WithoutRoles
<1>4. \A x \in Tables \ {"roles", "memberRoles", "overrides"} : WithoutRoles(d, gone)[x] = d[x]
  BY DEF WithoutRoles
<1>5. IsDatabase(WithoutChannels(d, gone))
  BY DEF WithoutChannels, WithoutMessages
<1>6. \A x \in Tables \ {"channels", "overrides", "messages", "attachments"} : WithoutChannels(d, gone)[x] = d[x]
  BY DEF WithoutChannels, WithoutMessages
<1> QED BY <1>1, <1>2, <1>3, <1>4, <1>5, <1>6

LEMMA GuildStatements ==
  ASSUME IsDatabase(db)
  PROVE
    /\ \A g, owner : Keeps(InsertGuild(g, owner).db, {"invites", "tokens", "members"})
    /\ \A row : Keeps(UpdateGuildRow(row).db, {"invites", "tokens", "members"})
    /\ \A g : Keeps(DeleteGuildRow(g).db, {"tokens"})
    /\ \A row : Keeps(InsertInvite(row).db, {"tokens", "members", "guilds"})
    /\ \A code : Keeps(IncrementUses(code).db, {"tokens", "members", "guilds"})
    /\ \A code : Keeps(DeleteInvite(code).db, {"tokens", "members", "guilds"})
    /\ \A g, u : Keeps(InsertMember(g, u).db, {"invites", "tokens", "guilds"})
    /\ \A g, u : Keeps(DeleteMember(g, u).db, {"invites", "tokens", "guilds"})
    /\ \A g, u : Keeps(InsertBan(g, u).db, {"invites", "tokens", "members", "guilds"})
    /\ \A g, u : Keeps(DeleteBan(g, u).db, {"invites", "tokens", "members", "guilds"})
    /\ \A g, u, role : Keeps(AddMemberRole(g, u, role).db, {"invites", "tokens", "members", "guilds"})
    /\ \A g, u, role : Keeps(RemoveMemberRole(g, u, role).db, {"invites", "tokens", "members", "guilds"})
<1> USE DEF Keeps, Tables, Insert, Delete, Statement
<1>1. \A g, owner : Keeps(InsertGuild(g, owner).db, {"invites", "tokens", "members"})
  BY DEF IsDatabase, InsertGuild
<1>2. \A row : Keeps(UpdateGuildRow(row).db, {"invites", "tokens", "members"})
  BY DEF IsDatabase, UpdateGuildRow
<1>3. \A g : Keeps(DeleteGuildRow(g).db, {"tokens"})
  <2>1. ASSUME NEW g
        PROVE  LET channels == {c \in db.channels : c.guild = g}
                   members == {m \in db.members : m.guild = g}
                   roles == {r \in db.roles : r.guild = g}
                   rest == WithoutMembers(WithoutRoles(WithoutChannels(db, channels), roles), members)
               IN  IsDatabase(rest) /\ rest["tokens"] = db["tokens"]
    BY CascadesKeep
  <2>2. ASSUME NEW g
        PROVE  Keeps(DeleteGuildRow(g).db, {"tokens"})
    <3> DEFINE channels == {c \in db.channels : c.guild = g}
               members == {m \in db.members : m.guild = g}
               roles == {r \in db.roles : r.guild = g}
               rest == WithoutMembers(WithoutRoles(WithoutChannels(db, channels), roles), members)
    <3>1. DeleteGuildRow(g).db = [rest EXCEPT !.guilds = {r \in @ : r.id # g},
                             !.invites = {i \in @ : i.guild # g},
                             !.bans = {b \in @ : b.guild # g}]
      BY DEF DeleteGuildRow
    <3>2. IsDatabase(rest) /\ rest["tokens"] = db["tokens"]
      BY <2>1
    <3> HIDE DEF rest
    <3> QED BY <3>1, <3>2 DEF IsDatabase
  <2> QED BY <2>2
<1>4. \A row : Keeps(InsertInvite(row).db, {"tokens", "members", "guilds"})
  BY DEF IsDatabase, InsertInvite
<1>5. \A code : Keeps(IncrementUses(code).db, {"tokens", "members", "guilds"})
  BY DEF IsDatabase, IncrementUses
<1>6. \A code : Keeps(DeleteInvite(code).db, {"tokens", "members", "guilds"})
  BY DEF IsDatabase, DeleteInvite
<1>7. \A g, u : Keeps(InsertMember(g, u).db, {"invites", "tokens", "guilds"})
  BY DEF IsDatabase, InsertMember
<1>8. \A g, u : Keeps(DeleteMember(g, u).db, {"invites", "tokens", "guilds"})
  <2>1. ASSUME NEW g, NEW u
        PROVE  LET rest == WithoutMembers(db, {[guild |-> g, user |-> u]})
               IN  /\ IsDatabase(rest)
                   /\ \A x \in Tables \ {"members", "memberRoles"} : rest[x] = db[x]
    BY CascadesKeep
  <2>2. ASSUME NEW g, NEW u
        PROVE  Keeps(DeleteMember(g, u).db, {"invites", "tokens", "guilds"})
    <3> DEFINE rest == WithoutMembers(db, {[guild |-> g, user |-> u]})
    <3>1. DeleteMember(g, u).db = rest
      BY DEF DeleteMember
    <3>2. IsDatabase(rest) /\ \A x \in Tables \ {"members", "memberRoles"} : rest[x] = db[x]
      BY <2>1
    <3> HIDE DEF rest
    <3> QED BY <3>1, <3>2
  <2> QED BY <2>2
<1>9. \A g, u : Keeps(InsertBan(g, u).db, {"invites", "tokens", "members", "guilds"})
  BY DEF IsDatabase, InsertBan
<1>10. \A g, u : Keeps(DeleteBan(g, u).db, {"invites", "tokens", "members", "guilds"})
  BY DEF IsDatabase, DeleteBan
<1>11. \A g, u, role : Keeps(AddMemberRole(g, u, role).db, {"invites", "tokens", "members", "guilds"})
  BY DEF IsDatabase, AddMemberRole
<1>12. \A g, u, role : Keeps(RemoveMemberRole(g, u, role).db, {"invites", "tokens", "members", "guilds"})
  BY DEF IsDatabase, RemoveMemberRole
<1> QED BY <1>1, <1>2, <1>3, <1>4, <1>5, <1>6, <1>7, <1>8, <1>9, <1>10, <1>11, <1>12

LEMMA RoleStatements ==
  ASSUME IsDatabase(db)
  PROVE
    /\ \A row : Keeps(InsertRole(row).db, {"invites", "tokens", "members", "guilds"})
    /\ \A row : Keeps(UpdateRoleRow(row).db, {"invites", "tokens", "members", "guilds"})
    /\ \A role : Keeps(DeleteRoleRow(role).db, {"invites", "tokens", "members", "guilds"})
    /\ \A row : Keeps(SetOverride(row).db, {"invites", "tokens", "members", "guilds"})
    /\ \A c, role : Keeps(DeleteOverride(c, role).db, {"invites", "tokens", "members", "guilds"})
    /\ \A row : Keeps(InsertChannel(row).db, {"invites", "tokens", "members", "guilds"})
    /\ \A row : Keeps(UpdateChannelRow(row).db, {"invites", "tokens", "members", "guilds"})
    /\ \A c : Keeps(DeleteChannelRow(c).db, {"invites", "tokens", "members", "guilds"})
<1> USE DEF Keeps, Tables, Insert, Delete, Statement
<1>1. \A row : Keeps(InsertRole(row).db, {"invites", "tokens", "members", "guilds"})
  BY DEF IsDatabase, InsertRole
<1>2. \A row : Keeps(UpdateRoleRow(row).db, {"invites", "tokens", "members", "guilds"})
  BY DEF IsDatabase, UpdateRoleRow
<1>3. \A role : Keeps(DeleteRoleRow(role).db, {"invites", "tokens", "members", "guilds"})
  BY CascadesKeep DEF DeleteRoleRow
<1>4. \A row : Keeps(SetOverride(row).db, {"invites", "tokens", "members", "guilds"})
  BY DEF IsDatabase, SetOverride
<1>5. \A c, role : Keeps(DeleteOverride(c, role).db, {"invites", "tokens", "members", "guilds"})
  BY DEF IsDatabase, DeleteOverride
<1>6. \A row : Keeps(InsertChannel(row).db, {"invites", "tokens", "members", "guilds"})
  BY DEF IsDatabase, InsertChannel
<1>7. \A row : Keeps(UpdateChannelRow(row).db, {"invites", "tokens", "members", "guilds"})
  BY DEF IsDatabase, UpdateChannelRow
<1>8. \A c : Keeps(DeleteChannelRow(c).db, {"invites", "tokens", "members", "guilds"})
  BY CascadesKeep DEF DeleteChannelRow
<1> QED BY <1>1, <1>2, <1>3, <1>4, <1>5, <1>6, <1>7, <1>8

LEMMA TalkStatements ==
  ASSUME IsDatabase(db)
  PROVE
    /\ \A row : Keeps(InsertMessage(row).db, {"invites", "tokens", "members", "guilds"})
    /\ \A id : Keeps(UpdateMessageRow(id).db, {"invites", "tokens", "members", "guilds"})
    /\ \A id : Keeps(DeleteMessageRow(id).db, {"invites", "tokens", "members", "guilds"})
    /\ \A message, u : Keeps(AddReactionRow(message, u).db, {"invites", "tokens", "members", "guilds"})
    /\ \A message, u : Keeps(RemoveReactionRow(message, u).db, {"invites", "tokens", "members", "guilds"})
    /\ \A u, channel, message : Keeps(UpsertReadState(u, channel, message).db, {"invites", "tokens", "members", "guilds"})
    /\ \A row : Keeps(InsertAttachment(row).db, {"invites", "tokens", "members", "guilds"})
    /\ \A id : Keeps(PutObject(id).db, {"invites", "tokens", "members", "guilds"})
    /\ \A g, u, channel : Keeps(UpsertVoice(g, u, channel).db, {"invites", "tokens", "members", "guilds"})
    /\ \A g, u : Keeps(DeleteVoice(g, u).db, {"invites", "tokens", "members", "guilds"})
    /\ \A row, users : Keeps(InsertDM(row, users).db, {"invites", "tokens", "members", "guilds"})
    /\ \A dm, u : Keeps(AddRecipient(dm, u).db, {"invites", "tokens", "members", "guilds"})
    /\ \A dm, u : Keeps(RemoveRecipient(dm, u).db, {"invites", "tokens", "members", "guilds"})
<1> USE DEF Keeps, Tables, Insert, Delete, Statement
<1>1. \A row : Keeps(InsertMessage(row).db, {"invites", "tokens", "members", "guilds"})
  BY DEF IsDatabase, InsertMessage
<1>2. \A id : Keeps(UpdateMessageRow(id).db, {"invites", "tokens", "members", "guilds"})
  BY DEF IsDatabase, UpdateMessageRow
<1>3. \A id : Keeps(DeleteMessageRow(id).db, {"invites", "tokens", "members", "guilds"})
  BY DEF IsDatabase, DeleteMessageRow, WithoutMessages
<1>4. \A message, u : Keeps(AddReactionRow(message, u).db, {"invites", "tokens", "members", "guilds"})
  BY DEF IsDatabase, AddReactionRow
<1>5. \A message, u : Keeps(RemoveReactionRow(message, u).db, {"invites", "tokens", "members", "guilds"})
  BY DEF IsDatabase, RemoveReactionRow
<1>6. \A u, channel, message : Keeps(UpsertReadState(u, channel, message).db, {"invites", "tokens", "members", "guilds"})
  BY DEF IsDatabase, UpsertReadState
<1>7. \A row : Keeps(InsertAttachment(row).db, {"invites", "tokens", "members", "guilds"})
  BY DEF IsDatabase, InsertAttachment
<1>8. \A id : Keeps(PutObject(id).db, {"invites", "tokens", "members", "guilds"})
  BY DEF IsDatabase, PutObject
<1>9. \A g, u, channel : Keeps(UpsertVoice(g, u, channel).db, {"invites", "tokens", "members", "guilds"})
  BY DEF IsDatabase, UpsertVoice
<1>10. \A g, u : Keeps(DeleteVoice(g, u).db, {"invites", "tokens", "members", "guilds"})
  BY DEF IsDatabase, DeleteVoice
<1>11. \A row, users : Keeps(InsertDM(row, users).db, {"invites", "tokens", "members", "guilds"})
  <2>1. ASSUME NEW row, NEW users
        PROVE  Keeps(InsertDM(row, users).db, {"invites", "tokens", "members", "guilds"})
    <3> DEFINE added == {[channel |-> row.id, user |-> u] : u \in users}
    <3>1. InsertDM(row, users).db = [db EXCEPT !.dms = @ \cup {row}, !.recipients = @ \cup added]
      BY DEF InsertDM
    <3> HIDE DEF added
    <3> QED BY <3>1 DEF IsDatabase
  <2> QED BY <2>1
<1>12. \A dm, u : Keeps(AddRecipient(dm, u).db, {"invites", "tokens", "members", "guilds"})
  BY DEF IsDatabase, AddRecipient
<1>13. \A dm, u : Keeps(RemoveRecipient(dm, u).db, {"invites", "tokens", "members", "guilds"})
  BY DEF IsDatabase, RemoveRecipient
<1> QED BY <1>1, <1>2, <1>3, <1>4, <1>5, <1>6, <1>7, <1>8, <1>9, <1>10, <1>11, <1>12, <1>13

LEMMA AccountStatements ==
  ASSUME IsDatabase(db)
  PROVE
    /\ \A u, name : Keeps(InsertUser(u, name).db, {"invites", "tokens", "members", "guilds"})
    /\ \A token, u : Keeps(StoreToken(token, u).db, {"invites", "members", "guilds"})
    /\ \A token : Keeps(DeleteToken(token).db, {"invites", "members", "guilds"})
<1> USE DEF Keeps, Tables, Insert, Delete, Statement
<1>1. \A u, name : Keeps(InsertUser(u, name).db, {"invites", "tokens", "members", "guilds"})
  BY DEF IsDatabase, InsertUser
<1>2. \A token, u : Keeps(StoreToken(token, u).db, {"invites", "members", "guilds"})
  BY DEF IsDatabase, StoreToken
<1>3. \A token : Keeps(DeleteToken(token).db, {"invites", "members", "guilds"})
  BY DEF IsDatabase, DeleteToken
<1> QED BY <1>1, <1>2, <1>3

-----------------------------------------------------------------------------
TasksShape == task = [t \in Tasks |-> [call |-> task[t].call, at |-> task[t].at, row |-> task[t].row]]

Moves(t) ==
  /\ TasksShape'
  /\ \A u \in Tasks \ {t} : task'[u] = task[u]
  /\ task'[t].call = task[t].call \/ task'[t] = Free

LEMMA Moving ==
  ASSUME TasksShape, NEW t \in Tasks
  PROVE  /\ \A next : Go(t, next) => Moves(t)
         /\ \A next, row : Carry(t, next, row) => Moves(t)
         /\ Return(t) => Moves(t)
<1> USE DEF TasksShape, Moves, Free
<1>1. \A next : Go(t, next) => Moves(t)
  BY DEF Go
<1>2. \A next, row : Carry(t, next, row) => Moves(t)
  BY DEF Carry
<1>3. Return(t) => Moves(t)
  BY DEF Return
<1> QED BY <1>1, <1>2, <1>3

\* A step that leaves the watched tables and the remembered past alone, of a
\* request that is not one of Others.
Watched == {"invites", "tokens", "members", "guilds"}
AccountCalls == {"Register", "Login", "Refresh", "Logout"}
InviteCalls == {"CreateInvite", "AcceptInvite", "RevokeInvite"}

Quietly(t, tables) ==
  /\ Moves(t) /\ Keeps(db', tables)
  /\ task[t].call.op \notin AccountCalls \cup InviteCalls

LEMMA RoleSteps ==
  ASSUME IsDatabase(db), TasksShape, NEW t \in Tasks, RoleStep(t)
  PROVE  Quietly(t, Watched) /\ past' = past
<1> USE RoleStatements, GuildStatements, Moving DEF Quietly, Watched, AccountCalls, InviteCalls, Calls, Require, Select, Execute, Create, NewId
<1>0. Keeps(db, Watched)
  BY DEF Keeps
<1>1. CASE CreateRole(t)
  BY <1>0, <1>1 DEF CreateRole
<1>2. CASE UpdateRole(t)
  BY <1>0, <1>2 DEF UpdateRole
<1>3. CASE DeleteRole(t)
  BY <1>0, <1>3 DEF DeleteRole
<1>4. CASE AssignRole(t)
  BY <1>0, <1>4 DEF AssignRole
<1>5. CASE RemoveRole(t)
  BY <1>0, <1>5 DEF RemoveRole
<1>6. CASE SetChannelOverride(t)
  BY <1>0, <1>6 DEF SetChannelOverride
<1>7. CASE DeleteChannelOverride(t)
  BY <1>0, <1>7 DEF DeleteChannelOverride
<1>8. CASE CreateChannel(t)
  BY <1>0, <1>8 DEF CreateChannel
<1>9. CASE UpdateChannel(t)
  BY <1>0, <1>9 DEF UpdateChannel
<1>10. CASE DeleteChannel(t)
  BY <1>0, <1>10 DEF DeleteChannel
<1> QED BY <1>1, <1>2, <1>3, <1>4, <1>5, <1>6, <1>7, <1>8, <1>9, <1>10 DEF RoleStep

LEMMA TalkSteps ==
  ASSUME IsDatabase(db), TasksShape, NEW t \in Tasks, TalkStep(t)
  PROVE  Quietly(t, Watched) /\ past' = past
<1> USE TalkStatements, Moving DEF Quietly, Watched, AccountCalls, InviteCalls, Calls, Require, Select, Execute, Create, NewId
<1>0. Keeps(db, Watched)
  BY DEF Keeps
<1>1. CASE SendMessage(t)
  BY <1>0, <1>1 DEF SendMessage
<1>2. CASE EditMessage(t)
  BY <1>0, <1>2 DEF EditMessage
<1>3. CASE DeleteMessage(t)
  BY <1>0, <1>3 DEF DeleteMessage
<1>4. CASE ReadHistory(t)
  BY <1>0, <1>4 DEF ReadHistory
<1>5. CASE AddReaction(t)
  BY <1>0, <1>5 DEF AddReaction
<1>6. CASE RemoveReaction(t)
  BY <1>0, <1>6 DEF RemoveReaction
<1>7. CASE Ack(t)
  BY <1>0, <1>7 DEF Ack
<1>8. CASE Typing(t)
  BY <1>0, <1>8 DEF Typing
<1>9. CASE JoinChannel(t)
  BY <1>0, <1>9 DEF JoinChannel
<1>10. CASE LeaveChannel(t)
  BY <1>0, <1>10 DEF LeaveChannel
<1>11. CASE UploadFile(t)
  BY <1>0, <1>11 DEF UploadFile
<1>12. CASE CreateDM(t)
  BY <1>0, <1>12 DEF CreateDM
<1>13. CASE CreateGroupDM(t)
  BY <1>0, <1>13 DEF CreateGroupDM
<1>14. CASE AddGroupDMMember(t)
  BY <1>0, <1>14 DEF AddGroupDMMember
<1>15. CASE RemoveGroupDMMember(t)
  BY <1>0, <1>15 DEF RemoveGroupDMMember
<1> QED BY <1>1, <1>2, <1>3, <1>4, <1>5, <1>6, <1>7, <1>8, <1>9, <1>10, <1>11, <1>12, <1>13, <1>14, <1>15 DEF TalkStep

LEMMA MemberSteps ==
  ASSUME IsDatabase(db), TasksShape, NEW t \in Tasks, UpdateMember(t) \/ UnbanMember(t)
  PROVE  Quietly(t, Watched) /\ past' = past
<1> USE GuildStatements, Moving DEF Quietly, Watched, AccountCalls, InviteCalls, Calls, Require, Select, Execute, Create, NewId
<1>0. Keeps(db, Watched)
  BY DEF Keeps
<1>1. CASE UpdateMember(t)
  <2>1. ASSUME NEW c, NEW u, NEW role
        PROVE  /\ Keeps(RemoveMemberRole(c, u, role).db, Watched)
               /\ Keeps(AddMemberRole(c, u, role).db, Watched)
    BY GuildStatements
  <2>2. Moves(t)
    BY <1>1 DEF UpdateMember
  <2>3. \/ db' = db
        \/ \E c, u, role : db' = RemoveMemberRole(c, u, role).db
        \/ \E c, u, role : db' = AddMemberRole(c, u, role).db
    BY <1>1 DEF UpdateMember
  <2>4. Keeps(db', Watched)
    BY <1>0, <2>1, <2>3
  <2> QED BY <1>1, <2>2, <2>4 DEF UpdateMember
<1>2. CASE UnbanMember(t)
  BY <1>0, <1>2 DEF UnbanMember
<1> QED BY <1>1, <1>2

LEMMA GuildQuiet ==
  ASSUME IsDatabase(db), TasksShape, NEW t \in Tasks, CreateGuild(t) \/ UpdateGuild(t) \/ KickMember(t) \/ LeaveGuild(t) \/ BanMember(t)
  PROVE  Quietly(t, {"invites", "tokens"})
<1> USE GuildStatements, RoleStatements, Moving DEF Quietly, Watched, AccountCalls, InviteCalls, Calls, Require, Select, Execute, Create, NewId
<1>0. /\ Keeps(db, {"invites", "tokens"})
      /\ \A d : Keeps(d, Watched) => Keeps(d, {"invites", "tokens"})
      /\ \A d : Keeps(d, {"invites", "tokens", "members"}) => Keeps(d, {"invites", "tokens"})
      /\ \A d : Keeps(d, {"invites", "tokens", "guilds"}) => Keeps(d, {"invites", "tokens"})
  BY DEF Keeps
<1>1. CASE CreateGuild(t)
  BY <1>0, <1>1 DEF CreateGuild
<1>2. CASE UpdateGuild(t)
  BY <1>0, <1>2 DEF UpdateGuild
<1>3. CASE KickMember(t)
  BY <1>0, <1>3 DEF KickMember
<1>4. CASE LeaveGuild(t)
  BY <1>0, <1>4 DEF LeaveGuild
<1>5. CASE BanMember(t)
  BY <1>0, <1>5 DEF BanMember
<1> QED BY <1>1, <1>2, <1>3, <1>4, <1>5

LEMMA AccountSteps ==
  ASSUME IsDatabase(db), TasksShape, NEW t \in Tasks, AccountStep(t)
  PROVE  Moves(t) /\ Keeps(db', {"invites", "members", "guilds"}) /\ task[t].call.op \in AccountCalls
<1> USE AccountStatements, Moving DEF AccountCalls, Calls, Require, Select, Execute, Create, IssueTokens
<1>0. /\ Keeps(db, {"invites", "members", "guilds"})
      /\ \A d : Keeps(d, Watched) => Keeps(d, {"invites", "members", "guilds"})
  BY DEF Keeps, Watched
<1>1. CASE Register(t)
  BY <1>0, <1>1 DEF Register, Watched
<1>2. CASE Login(t)
  BY <1>0, <1>2 DEF Login
<1>3. CASE Refresh(t)
  BY <1>0, <1>3 DEF Refresh
<1>4. CASE Logout(t)
  BY <1>0, <1>4 DEF Logout
<1> QED BY <1>1, <1>2, <1>3, <1>4 DEF AccountStep

-----------------------------------------------------------------------------
(***************************************************************************)
(* Permissions                                                             *)
(***************************************************************************)
MembersOfGuilds == \A m \in db.members : HasGuild(m.guild)

LEMMA Precedence ==
  ASSUME MembersOfGuilds
  PROVE  EffectiveMatchesDocs
<1> SUFFICES ASSUME NEW c \in db.channels, NEW u, NEW p \in AllPermissions, IsMember(c.guild, u)
             PROVE  Has(ChannelPermissions(c.guild, c.id, u), {p}) <=> Grants(c.guild, c.id, u, p)
  BY DEF EffectiveMatchesDocs, MayInChannel, MembersOfGuilds, IsMember
<1> DEFINE everyone == EveryoneRole(c.guild)
           roles == RolesOfMember(c.guild, u)
           perms == everyone.perms \cup Bits(roles)
           ofEveryone == {o \in OverridesOf(c.id) : o.role = everyone.id}
           ofRoles == {o \in OverridesOf(c.id) : o.role # everyone.id /\ \E r \in roles : r.id = o.role}
<1>1. \A bit : bit \in perms <=> \E r \in roles \cup {everyone} : bit \in r.perms
  BY DEF Bits
<1>2. CASE "ADMIN" \in perms
  <2>1. ChannelPermissions(c.guild, c.id, u) = AllPermissions
    BY <1>2, PermissionsAssumption DEF ChannelPermissions, ComputeBasePermissions, ComputeChannelPermissions
  <2>2. Grants(c.guild, c.id, u, p)
    BY <1>1, <1>2 DEF Grants
  <2> QED BY <2>1, <2>2 DEF Has
<1>3. CASE "ADMIN" \notin perms
  <2>1. ChannelPermissions(c.guild, c.id, u) = Applied(Applied(perms, ofEveryone), ofRoles)
    BY <1>3 DEF ChannelPermissions, ComputeBasePermissions, ComputeChannelPermissions
  <2>2. Has(ChannelPermissions(c.guild, c.id, u), {p}) <=>
          \/ \E o \in ofRoles : p \in o.allow
          \/ /\ ~\E o \in ofRoles : p \in o.deny
             /\ \/ \E o \in ofEveryone : p \in o.allow
                \/ p \in perms /\ ~\E o \in ofEveryone : p \in o.deny
    <3> HIDE DEF perms, ofEveryone, ofRoles
    <3> QED BY <2>1 DEF Has, Applied
  <2>3. Grants(c.guild, c.id, u, p) <=>
          \/ \E o \in ofRoles : p \in o.allow
          \/ /\ ~\E o \in ofRoles : p \in o.deny
             /\ \/ \E o \in ofEveryone : p \in o.allow
                \/ p \in perms /\ ~\E o \in ofEveryone : p \in o.deny
    BY <1>1, <1>3 DEF Grants, OverridesOf
  <2> QED BY <2>2, <2>3
<1> QED BY <1>2, <1>3
-----------------------------------------------------------------------------
(***************************************************************************)
(* Steps of the guild service that change what is watched                  *)
(***************************************************************************)
LEMMA GuildTables ==
  ASSUME IsDatabase(db), TasksShape, NEW t \in Tasks, GuildStep(t)
  PROVE  Moves(t) /\ Keeps(db', {"tokens"}) /\ task[t].call.op \notin AccountCalls
<1> USE Moving DEF AccountCalls, Calls, Require, Select, Execute, Create
<1>0. /\ Keeps(db, {"tokens"})
      /\ \A d : Keeps(d, {"invites", "tokens"}) => Keeps(d, {"tokens"})
      /\ \A d : Keeps(d, Watched) => Keeps(d, {"tokens"})
      /\ \A d : Keeps(d, {"tokens", "members", "guilds"}) => Keeps(d, {"tokens"})
      /\ \A d : Keeps(d, {"invites", "tokens", "guilds"}) => Keeps(d, {"tokens"})
  BY DEF Keeps, Watched
<1>1. CASE \/ CreateGuild(t) \/ UpdateGuild(t) \/ KickMember(t) \/ LeaveGuild(t) \/ BanMember(t)
  BY <1>0, <1>1, GuildQuiet DEF Quietly
<1>2. CASE UpdateMember(t) \/ UnbanMember(t)
  BY <1>0, <1>2, MemberSteps DEF Quietly
<1>3. CASE DeleteGuild(t)
  BY <1>0, <1>3, GuildStatements DEF DeleteGuild
<1>4. CASE CreateInvite(t)
  BY <1>0, <1>4, GuildStatements DEF CreateInvite
<1>5. CASE AcceptInvite(t)
  BY <1>0, <1>5, GuildStatements DEF AcceptInvite
<1>6. CASE RevokeInvite(t)
  BY <1>0, <1>6, GuildStatements DEF RevokeInvite
<1> QED BY <1>1, <1>2, <1>3, <1>4, <1>5, <1>6 DEF GuildStep

LEMMA RequestFrame ==
  ASSUME IsDatabase(db), TasksShape, NEW t \in Tasks, Serve(t)
  PROVE  Moves(t) /\ IsDatabase(db')
<1>1. CASE GuildStep(t)
  BY <1>1, GuildTables DEF Keeps
<1>2. CASE RoleStep(t) \/ TalkStep(t)
  BY <1>2, RoleSteps, TalkSteps DEF Keeps, Quietly
<1>3. CASE AccountStep(t)
  BY <1>3, AccountSteps DEF Keeps
<1> QED BY <1>1, <1>2, <1>3 DEF Serve

LEMMA BeginFrame ==
  ASSUME TasksShape, NEW t \in Tasks, Begin(t)
  PROVE  /\ TasksShape' /\ UNCHANGED <<db, past>>
         /\ \A u \in Tasks \ {t} : task'[u] = task[u]
         /\ \/ task'[t] = task[t]
            \/ \E call \in This.calls : task'[t] = [call |-> call, at |-> "start", row |-> None]
BY DEF Begin, Served, TasksShape

Shape == IsDatabase(db) /\ TasksShape /\ scenario \in DOMAIN Scenarios

LEMMA ShapeStep == Shape /\ [Next]_vars => Shape'
<1> SUFFICES ASSUME Shape, [Next]_vars PROVE Shape'
  OBVIOUS
<1>1. ASSUME NEW t \in Tasks, Begin(t) PROVE Shape'
  BY <1>1, BeginFrame DEF Shape, IsDatabase, Begin
<1>2. ASSUME NEW t \in Tasks, Serve(t) PROVE Shape'
  BY <1>2, RequestFrame DEF Shape, Moves, Serve
<1>3. ASSUME NEW t \in Tasks, Fail(t) PROVE Shape'
  BY <1>3, Moving DEF Shape, Moves, Fail, IsDatabase
<1>4. CASE ExpireInvite
  BY <1>4 DEF Shape, ExpireInvite, Expire, IsDatabase, TasksShape
<1>5. CASE TimePasses \/ Quiet \/ UNCHANGED vars
  BY <1>5 DEF Shape, TimePasses, Quiet, vars, requestVars, IsDatabase, TasksShape
<1> QED BY <1>1, <1>2, <1>3, <1>4, <1>5 DEF Next

LEMMA ShapeInit == Init => Shape
  BY ScenarioAssumption DEF Init, Shape, This, Initial, IsDatabase, TasksShape, Unserved, Free

-----------------------------------------------------------------------------
(***************************************************************************)
(* Every member is a member of a guild that exists.                        *)
(***************************************************************************)
GuildsHeld(d) == \A m \in d.members : \E g \in d.guilds : g.id = m.guild

LEMMA MembershipStatements ==
  ASSUME IsDatabase(db), GuildsHeld(db)
  PROVE  /\ \A d : Keeps(d, {"members", "guilds"}) => GuildsHeld(d)
         /\ \A g, owner : GuildsHeld(InsertGuild(g, owner).db)
         /\ \A row : GuildsHeld(UpdateGuildRow(row).db)
         /\ \A g : GuildsHeld(DeleteGuildRow(g).db)
         /\ \A g, u : InsertMember(g, u).ok => GuildsHeld(InsertMember(g, u).db)
         /\ \A g, u : GuildsHeld(DeleteMember(g, u).db)
<1> USE DEF GuildsHeld, Insert, Statement, Tables
<1>1. \A d : Keeps(d, {"members", "guilds"}) => GuildsHeld(d)
  BY DEF Keeps
<1>2. \A g, owner : GuildsHeld(InsertGuild(g, owner).db)
  BY DEF InsertGuild, IsDatabase
<1>3. \A row : GuildsHeld(UpdateGuildRow(row).db)
  <2> SUFFICES ASSUME NEW row PROVE GuildsHeld(UpdateGuildRow(row).db)
    OBVIOUS
  <2> DEFINE rows == {IF r.id = row.id THEN row ELSE r : r \in db.guilds}
  <2>1. UpdateGuildRow(row).db = [db EXCEPT !.guilds = rows]
    BY DEF UpdateGuildRow
  <2>2. \A g \in db.guilds : \E h \in rows : h.id = g.id
    OBVIOUS
  <2> HIDE DEF rows
  <2> QED BY <2>1, <2>2 DEF IsDatabase
<1>4. \A g : GuildsHeld(DeleteGuildRow(g).db)
  <2> SUFFICES ASSUME NEW g PROVE GuildsHeld(DeleteGuildRow(g).db)
    OBVIOUS
  <2> DEFINE channels == {c \in db.channels : c.guild = g}
             members == {m \in db.members : m.guild = g}
             roles == {r \in db.roles : r.guild = g}
             inner == WithoutRoles(WithoutChannels(db, channels), roles)
             rest == WithoutMembers(inner, members)
  <2>1. IsDatabase(inner) /\ inner["members"] = db["members"] /\ inner["guilds"] = db["guilds"]
    BY CascadesKeep
  <2>2. rest["members"] = db["members"] \ members /\ rest["guilds"] = db["guilds"] /\ IsDatabase(rest)
    <3> HIDE DEF inner, members
    <3> QED BY <2>1 DEF WithoutMembers, IsDatabase
  <2>3. DeleteGuildRow(g).db = [rest EXCEPT !.guilds = {r \in @ : r.id # g},
                             !.invites = {i \in @ : i.guild # g},
                             !.bans = {b \in @ : b.guild # g}]
    BY DEF DeleteGuildRow
  <2> HIDE DEF rest
  <2> QED BY <2>2, <2>3 DEF IsDatabase
<1>5. \A g, u : InsertMember(g, u).ok => GuildsHeld(InsertMember(g, u).db)
  <2> SUFFICES ASSUME NEW g, NEW u, InsertMember(g, u).ok PROVE GuildsHeld(InsertMember(g, u).db)
    OBVIOUS
  <2> DEFINE member == [guild |-> g, user |-> u]
  <2>1. InsertMember(g, u).db = [db EXCEPT !.members = @ \cup {member}]
    BY DEF InsertMember
  <2>2. \E h \in db.guilds : h.id = member.guild
    BY DEF InsertMember, HasGuild, ById
  <2> HIDE DEF member
  <2> QED BY <2>1, <2>2 DEF IsDatabase
<1>6. \A g, u : GuildsHeld(DeleteMember(g, u).db)
  <2> SUFFICES ASSUME NEW g, NEW u PROVE GuildsHeld(DeleteMember(g, u).db)
    OBVIOUS
  <2> DEFINE gone == {[guild |-> g, user |-> u]}
             rest == WithoutMembers(db, gone)
  <2>1. rest["members"] \subseteq db["members"] /\ rest["guilds"] = db["guilds"]
    <3> HIDE DEF gone
    <3> QED BY DEF WithoutMembers, IsDatabase
  <2>2. DeleteMember(g, u).db = rest
    BY DEF DeleteMember
  <2> HIDE DEF rest
  <2> QED BY <2>1, <2>2
<1> QED BY <1>1, <1>2, <1>3, <1>4, <1>5, <1>6

LEMMA MembershipStep == Shape /\ GuildsHeld(db) /\ [Next]_vars => GuildsHeld(db)'
<1> SUFFICES ASSUME Shape, GuildsHeld(db), [Next]_vars PROVE GuildsHeld(db')
  OBVIOUS
<1> USE DEF Shape
<1>0. /\ GuildsHeld(db)
      /\ \A d : Keeps(d, Watched) => GuildsHeld(d)
      /\ \A d : Keeps(d, {"invites", "members", "guilds"}) => GuildsHeld(d)
      /\ \A d : Keeps(d, {"tokens", "members", "guilds"}) => GuildsHeld(d)
  BY MembershipStatements DEF Keeps, Watched
<1>1. ASSUME NEW t \in Tasks, GuildStep(t) PROVE GuildsHeld(db')
  <2> USE <1>0, MembershipStatements DEF Require, Select, Execute, Create
  <2>1. CASE CreateGuild(t)
    <3>1. \/ db' = db
          \/ \E g, owner : db' = InsertGuild(g, owner).db
          \/ \E row : db' = InsertRole(row).db
          \/ \E g, u : InsertMember(g, u).ok /\ db' = InsertMember(g, u).db
          \/ \E g, u, role : db' = AddMemberRole(g, u, role).db
          \/ \E row : db' = InsertChannel(row).db
      BY <2>1 DEF CreateGuild
    <3>2. ASSUME NEW row
          PROVE  GuildsHeld(InsertRole(row).db) /\ GuildsHeld(InsertChannel(row).db)
      BY RoleStatements DEF Watched
    <3>3. ASSUME NEW g, NEW u, NEW role PROVE GuildsHeld(AddMemberRole(g, u, role).db)
      BY GuildStatements DEF Watched
    <3> QED BY <3>1, <3>2, <3>3
  <2>2. CASE UpdateGuild(t)
    BY <2>2 DEF UpdateGuild
  <2>3. CASE DeleteGuild(t)
    BY <2>3 DEF DeleteGuild
  <2>4. CASE CreateInvite(t)
    BY <2>4, GuildStatements DEF CreateInvite
  <2>5. CASE AcceptInvite(t)
    BY <2>5, GuildStatements DEF AcceptInvite
  <2>6. CASE RevokeInvite(t)
    BY <2>6, GuildStatements DEF RevokeInvite
  <2>7. CASE KickMember(t) \/ LeaveGuild(t)
    BY <2>7 DEF KickMember, LeaveGuild
  <2>8. CASE BanMember(t)
    <3>1. \/ db' = db
          \/ \E g, u : db' = InsertBan(g, u).db
          \/ \E g, u : db' = DeleteMember(g, u).db
      BY <2>8 DEF BanMember
    <3>2. ASSUME NEW g, NEW u PROVE GuildsHeld(InsertBan(g, u).db)
      BY GuildStatements DEF Watched
    <3> QED BY <3>1, <3>2
  <2>9. CASE UpdateMember(t) \/ UnbanMember(t)
    BY <2>9, MemberSteps DEF Quietly
  <2> QED BY <1>1, <2>1, <2>2, <2>3, <2>4, <2>5, <2>6, <2>7, <2>8, <2>9 DEF GuildStep
<1>2. ASSUME NEW t \in Tasks, Serve(t) PROVE GuildsHeld(db')
  BY <1>0, <1>1, <1>2, RoleSteps, TalkSteps, AccountSteps DEF Serve, Quietly
<1>3. ASSUME NEW t \in Tasks, Begin(t) \/ Fail(t) PROVE GuildsHeld(db')
  BY <1>0, <1>3 DEF Begin, Fail
<1>4. CASE ExpireInvite
  BY <1>4 DEF ExpireInvite, Expire, GuildsHeld, IsDatabase
<1>5. CASE TimePasses \/ Quiet \/ UNCHANGED vars
  BY <1>0, <1>5 DEF TimePasses, Quiet, vars, requestVars
<1> QED BY <1>2, <1>3, <1>4, <1>5 DEF Next

\* For every database the services can reach, and every set of permissions: a
\* check in a channel decides as docs/permissions.md says
\* (RequireChannelPermission, ComputeChannelPermissions).
THEOREM Resolution == Spec => []EffectiveMatchesDocs
<1> DEFINE Sound == Shape /\ GuildsHeld(db)
<1>1. Init => Sound
  <2> SUFFICES ASSUME Init PROVE Sound
    OBVIOUS
  <2>1. Consistent(db)
    BY ScenarioAssumption DEF Init, This, Initial
  <2> QED BY <2>1, ShapeInit DEF Consistent, IdsIn, GuildsHeld
<1>2. Sound /\ [Next]_vars => Sound'
  BY ShapeStep, MembershipStep
<1>3. Sound => EffectiveMatchesDocs
  BY Precedence DEF GuildsHeld, MembersOfGuilds, HasGuild, ById
<1> QED BY <1>1, <1>2, <1>3, PTL DEF Spec

-----------------------------------------------------------------------------
(***************************************************************************)
(* The limit of an invite.  InvitesCounted is inductive: the requests that *)
(* have tested the limit and not yet counted are part of the bound.        *)
(***************************************************************************)
InvitesCounted ==
  /\ \A i \in db.invites : IsInvite(i)
  /\ \A i, j \in db.invites : i.code = j.code => i = j
  /\ \A t \in Tasks : Calls(t, "CreateInvite") => task[t].call.max \in Nat
  /\ InviteOvershoot

LEMMA FlightSize ==
  \A S, T : S \subseteq T /\ T \subseteq Tasks =>
    /\ Cardinality(S) \in Nat /\ Cardinality(T) \in Nat
    /\ Cardinality(S) <= Cardinality(T) /\ Cardinality(T) <= Cardinality(Tasks)
    /\ Cardinality(Tasks) \in Nat /\ Cardinality(Tasks) >= 1
<1> SUFFICES ASSUME NEW S, NEW T, S \subseteq T, T \subseteq Tasks
             PROVE  /\ Cardinality(S) \in Nat /\ Cardinality(T) \in Nat
                    /\ Cardinality(S) <= Cardinality(T) /\ Cardinality(T) <= Cardinality(Tasks)
                    /\ Cardinality(Tasks) \in Nat /\ Cardinality(Tasks) >= 1
  OBVIOUS
<1>1. IsFiniteSet(Tasks) /\ IsFiniteSet(T) /\ IsFiniteSet(S)
  BY FS_Subset, TasksAssumption
<1>2. Cardinality(Tasks) \in Nat /\ Cardinality(T) \in Nat /\ Cardinality(S) \in Nat
  BY <1>1, FS_CardinalityType
<1>3. Cardinality(S) <= Cardinality(T) /\ Cardinality(T) <= Cardinality(Tasks)
  BY <1>1, FS_Subset
<1>4. Cardinality(Tasks) # 0
  BY <1>1, FS_EmptySet, TasksAssumption
<1> QED BY <1>2, <1>3, <1>4

LEMMA FlightShrinks ==
  ASSUME NEW t \in Tasks, Moves(t),
         task'[t] = Free \/ ~Calls(t, "AcceptInvite")
           \/ (task[t].at \in {"member", "ban", "join", "count"} /\ task'[t].row = task[t].row)
           \/ task'[t].at \notin {"member", "ban", "join", "count"}
  PROVE  \A code : InFlight(code)' \subseteq InFlight(code)
BY DEF Moves, InFlight, Calls, Free

\* A step that starts no request of AcceptInvite and only takes invites away.
LEMMA FewerInvites ==
  ASSUME InvitesCounted, \A code : InFlight(code)' \subseteq InFlight(code),
         \A t \in Tasks : Calls(t, "CreateInvite")' => task'[t].call.max \in Nat,
         db'.invites \subseteq db.invites
  PROVE  InvitesCounted'
<1>1. ASSUME NEW i \in db'.invites, i.max > 0
      PROVE  i.uses + Cardinality(InFlight(i.code)') <= i.max + Cardinality(Tasks) - 1
  <2>1. InFlight(i.code)' \subseteq InFlight(i.code) /\ InFlight(i.code) \subseteq Tasks
    BY DEF InFlight
  <2>2. i.uses + Cardinality(InFlight(i.code)) <= i.max + Cardinality(Tasks) - 1
    BY <1>1 DEF InvitesCounted, InviteOvershoot
  <2> QED BY <2>1, <2>2, FlightSize DEF InvitesCounted, IsInvite
<1> QED BY <1>1 DEF InvitesCounted, InviteOvershoot

\* The row of an invite after IncrementUses.
Incremented(i, code) == IF i.code = code THEN [i EXCEPT !.uses = @ + 1] ELSE i

\* What the statements of the invite repository do to the table of invites.
LEMMA InviteStatements ==
  ASSUME IsDatabase(db)
  PROVE  /\ \A row : /\ InsertInvite(row).db.invites = db.invites \cup {row}
                     /\ InsertInvite(row).ok => \A i \in db.invites : i.code # row.code
         /\ \A code : IncrementUses(code).db.invites
                       = {Incremented(i, code) : i \in db.invites}
         /\ \A code : DeleteInvite(code).db.invites \subseteq db.invites
         /\ \A g : DeleteGuildRow(g).db.invites \subseteq db.invites
<1> USE DEF Insert, Delete, Statement, Tables
<1>1. \A row : /\ InsertInvite(row).db.invites = db.invites \cup {row}
               /\ InsertInvite(row).ok => \A i \in db.invites : i.code # row.code
  BY DEF InsertInvite, InviteByCode, IsDatabase
<1>2. \A code : IncrementUses(code).db.invites
                = {Incremented(i, code) : i \in db.invites}
  BY DEF IncrementUses, IsDatabase, Incremented
<1>3. \A code : DeleteInvite(code).db.invites \subseteq db.invites
  BY DEF DeleteInvite, InviteByCode, IsDatabase
<1>4. \A g : DeleteGuildRow(g).db.invites \subseteq db.invites
  <2> SUFFICES ASSUME NEW g PROVE DeleteGuildRow(g).db.invites \subseteq db.invites
    OBVIOUS
  <2> DEFINE channels == {c \in db.channels : c.guild = g}
             members == {m \in db.members : m.guild = g}
             roles == {r \in db.roles : r.guild = g}
             rest == WithoutMembers(WithoutRoles(WithoutChannels(db, channels), roles), members)
  <2>1. IsDatabase(rest) /\ rest["invites"] = db["invites"]
    BY CascadesKeep
  <2>2. DeleteGuildRow(g).db = [rest EXCEPT !.guilds = {r \in @ : r.id # g},
                             !.invites = {i \in @ : i.guild # g},
                             !.bans = {b \in @ : b.guild # g}]
    BY DEF DeleteGuildRow
  <2> HIDE DEF rest
  <2> QED BY <2>1, <2>2 DEF IsDatabase
<1> HIDE DEF Insert, Delete, Statement, Tables
<1> QED BY <1>1, <1>2, <1>3, <1>4

\* The invites are rows of records, for IncrementUses to change one column.
LEMMA InviteStep == Shape /\ InvitesCounted /\ [Next]_vars => InvitesCounted'
<1> SUFFICES ASSUME Shape, InvitesCounted, [Next]_vars PROVE InvitesCounted'
  OBVIOUS
<1> USE DEF Shape
<1>1. ASSUME NEW t \in Tasks, Quietly(t, {"invites", "tokens"}) \/ Quietly(t, Watched)
      PROVE  InvitesCounted'
  <2>1. \A code : InFlight(code)' \subseteq InFlight(code)
    BY <1>1, FlightShrinks DEF Quietly, Calls, InviteCalls
  <2>2. \A u \in Tasks : Calls(u, "CreateInvite")' => task'[u].call.max \in Nat
    BY <1>1 DEF Quietly, Moves, Calls, InviteCalls, Free, InvitesCounted
  <2>3. db'.invites \subseteq db.invites
    BY <1>1 DEF Quietly, Keeps, Watched
  <2> QED BY <2>1, <2>2, <2>3, FewerInvites
<1>2. ASSUME NEW t \in Tasks, AccountStep(t) PROVE InvitesCounted'
  <2>1. \A code : InFlight(code)' \subseteq InFlight(code)
    BY <1>2, AccountSteps, FlightShrinks DEF Calls, AccountCalls
  <2>2. \A u \in Tasks : Calls(u, "CreateInvite")' => task'[u].call.max \in Nat
    BY <1>2, AccountSteps DEF Moves, Calls, AccountCalls, Free, InvitesCounted
  <2>3. db'.invites \subseteq db.invites
    BY <1>2, AccountSteps DEF Keeps
  <2> QED BY <2>1, <2>2, <2>3, FewerInvites
<1>3. ASSUME NEW t \in Tasks, DeleteGuild(t) \/ RevokeInvite(t) PROVE InvitesCounted'
  <2>0. Moves(t) /\ ~Calls(t, "AcceptInvite") /\ ~Calls(t, "CreateInvite")
    BY <1>3, GuildTables DEF GuildStep, DeleteGuild, RevokeInvite, Calls
  <2>1. \A code : InFlight(code)' \subseteq InFlight(code)
    BY <2>0, FlightShrinks
  <2>2. \A u \in Tasks : Calls(u, "CreateInvite")' => task'[u].call.max \in Nat
    BY <2>0 DEF Moves, Calls, Free, InvitesCounted
  <2>3. db'.invites \subseteq db.invites
    BY <1>3, InviteStatements DEF DeleteGuild, RevokeInvite, Require, Select, Execute
  <2> QED BY <2>1, <2>2, <2>3, FewerInvites
<1>4. ASSUME NEW t \in Tasks, CreateInvite(t) PROVE InvitesCounted'
  <2> DEFINE c == task[t].call
             invite == [code |-> lastId + 1, guild |-> c.guild, creator |-> c.by,
                        max |-> c.max, uses |-> 0, expired |-> FALSE]
  <2>0. Moves(t) /\ Calls(t, "CreateInvite") /\ ~Calls(t, "AcceptInvite") /\ c.max \in Nat
    BY <1>4, GuildTables DEF GuildStep, CreateInvite, Calls, InvitesCounted
  <2>1. \A code : InFlight(code)' \subseteq InFlight(code)
    BY <2>0, FlightShrinks
  <2>2. \A u \in Tasks : Calls(u, "CreateInvite")' => task'[u].call.max \in Nat
    BY <2>0 DEF Moves, Calls, Free, InvitesCounted
  <2>3. db'.invites = db.invites \/ (InsertInvite(invite).ok /\ db' = InsertInvite(invite).db)
    BY <1>4 DEF CreateInvite, Require, Create
  <2>4. CASE db'.invites = db.invites
    BY <2>1, <2>2, <2>4, FewerInvites
  <2>5. CASE InsertInvite(invite).ok /\ db' = InsertInvite(invite).db
    <3>1. db'.invites = db.invites \cup {invite} /\ \A i \in db.invites : i.code # invite.code
      BY <2>5, InviteStatements
    <3>2. ASSUME NEW i \in db'.invites, i.max > 0
          PROVE  i.uses + Cardinality(InFlight(i.code)') <= i.max + Cardinality(Tasks) - 1
      <4>1. InFlight(i.code)' \subseteq InFlight(i.code) /\ InFlight(i.code) \subseteq Tasks
        BY <2>1 DEF InFlight
      <4>2. CASE i \in db.invites
        BY <3>2, <4>1, <4>2, FlightSize DEF InvitesCounted, InviteOvershoot, IsInvite
      <4>3. CASE i = invite
        BY <2>0, <3>2, <4>1, <4>3, FlightSize
      <4> QED BY <3>1, <4>2, <4>3
    <3>3. \A i \in db'.invites : IsInvite(i)
      BY <2>0, <3>1 DEF InvitesCounted, IsInvite
    <3>4. \A i, j \in db'.invites : i.code = j.code => i = j
      BY <3>1 DEF InvitesCounted
    <3> QED BY <2>2, <3>2, <3>3, <3>4 DEF InvitesCounted, InviteOvershoot
  <2> QED BY <2>3, <2>4, <2>5
<1>5. ASSUME NEW t \in Tasks, AcceptInvite(t) PROVE InvitesCounted'
  <2> DEFINE code == task[t].row.code
  <2>0. Moves(t) /\ Calls(t, "AcceptInvite") /\ ~Calls(t, "CreateInvite")
    BY <1>5, GuildTables DEF GuildStep, AcceptInvite, Calls
  <2>1. \A u \in Tasks : Calls(u, "CreateInvite")' => task'[u].call.max \in Nat
    BY <2>0 DEF Moves, Calls, Free, InvitesCounted
  <2>2. CASE task[t].at = "start"
    <3>1. PICK r : \/ task'[t] = Free /\ db' = db
                   \/ r \in db.invites /\ ~UsedUp(r) /\ task'[t].row = r /\ db' = db
      BY <1>5, <2>2 DEF AcceptInvite, Select, Require, Execute, Carry, Return, InviteByCode, Shape, TasksShape
    <3>2. CASE task'[t] = Free /\ db' = db
      <4>1. \A k : InFlight(k)' \subseteq InFlight(k)
        BY <2>0, <3>2, FlightShrinks
      <4> QED BY <2>1, <3>2, <4>1, FewerInvites
    <3>3. CASE r \in db.invites /\ ~UsedUp(r) /\ task'[t].row = r /\ db' = db
      <4>1. ASSUME NEW i \in db.invites, i.max > 0
            PROVE  i.uses + Cardinality(InFlight(i.code)') <= i.max + Cardinality(Tasks) - 1
        <5>1. InFlight(i.code)' \subseteq Tasks /\ InFlight(i.code) \subseteq Tasks
          BY DEF InFlight
        <5>2. CASE i = r
          <6>1. i.uses + 1 <= i.max
            BY <3>3, <4>1, <5>2 DEF UsedUp, InvitesCounted, IsInvite
          <6> QED BY <5>1, <6>1, FlightSize DEF InvitesCounted, IsInvite
        <5>3. CASE i # r
          <6>1. i.code # r.code
            BY <3>3, <5>3 DEF InvitesCounted
          <6>2. InFlight(i.code)' \subseteq InFlight(i.code)
            BY <2>0, <3>3, <6>1 DEF Moves, InFlight, Calls
          <6>3. i.uses + Cardinality(InFlight(i.code)) <= i.max + Cardinality(Tasks) - 1
            BY <4>1 DEF InvitesCounted, InviteOvershoot
          <6> QED BY <5>1, <6>2, <6>3, FlightSize DEF InvitesCounted, IsInvite
        <5> QED BY <5>2, <5>3
      <4> QED BY <2>1, <3>3, <4>1 DEF InvitesCounted, InviteOvershoot
    <3> QED BY <3>1, <3>2, <3>3
  <2>3. CASE task[t].at \in {"member", "ban", "join", "guild"}
    <3>1. db' = db \/ \E g, u : db' = InsertMember(g, u).db
      BY <1>5, <2>3 DEF AcceptInvite, Select, Require, Execute
    <3>2. db'.invites = db.invites
      BY <3>1, GuildStatements DEF Keeps
    <3>3. \/ task'[t] = Free
          \/ task[t].at \in {"member", "ban", "join"} /\ task'[t].row = task[t].row
      BY <1>5, <2>3 DEF AcceptInvite, Select, Require, Execute, Go, Return, TasksShape
    <3>4. \A k : InFlight(k)' \subseteq InFlight(k)
      BY <2>0, <3>3, FlightShrinks
    <3> QED BY <2>1, <3>2, <3>4, FewerInvites
  <2>4. CASE task[t].at = "count"
    <3>1. db' = IncrementUses(code).db /\ task'[t].at = "guild"
      BY <1>5, <2>4 DEF AcceptInvite, Select, Require, Execute, Go, IncrementUses, Statement, TasksShape
    <3>2. db'.invites = {Incremented(i, code) : i \in db.invites}
      BY <3>1, InviteStatements
    <3>3. \A k : InFlight(k)' \subseteq InFlight(k) \ {t}
      BY <2>0, <3>1 DEF Moves, InFlight, Calls
    <3>4. t \in InFlight(code)
      BY <2>0, <2>4 DEF InFlight
    <3>5. ASSUME NEW i \in db.invites, NEW j, j = Incremented(i, code)
          PROVE  /\ IsInvite(j) /\ j.code = i.code
                 /\ j.max > 0 => j.uses + Cardinality(InFlight(j.code)') <= j.max + Cardinality(Tasks) - 1
      <4>1. IsInvite(i)
        BY DEF InvitesCounted
      <4>2. /\ IsInvite(j) /\ j.code = i.code /\ j.max = i.max
            /\ j.uses = IF i.code = code THEN i.uses + 1 ELSE i.uses
        BY <3>5, <4>1 DEF IsInvite, Incremented
      <4>3. /\ InFlight(i.code) \subseteq Tasks
            /\ InFlight(i.code) \ {t} \subseteq InFlight(i.code)
            /\ InFlight(i.code)' \subseteq InFlight(i.code) \ {t}
        BY <3>3 DEF InFlight
      <4>4. /\ Cardinality(InFlight(i.code)) \in Nat /\ Cardinality(InFlight(i.code)') \in Nat
            /\ Cardinality(InFlight(i.code) \ {t}) \in Nat /\ Cardinality(Tasks) \in Nat
            /\ Cardinality(InFlight(i.code)') <= Cardinality(InFlight(i.code) \ {t})
            /\ Cardinality(InFlight(i.code) \ {t}) <= Cardinality(InFlight(i.code))
        BY <4>3, FlightSize
      <4>5. i.code = code => Cardinality(InFlight(i.code) \ {t}) = Cardinality(InFlight(i.code)) - 1
        <5>1. IsFiniteSet(InFlight(code))
          BY FS_Subset, TasksAssumption DEF InFlight
        <5> QED BY <3>4, <5>1, FS_RemoveElement
      <4>6. i.max > 0 => i.uses + Cardinality(InFlight(i.code)) <= i.max + Cardinality(Tasks) - 1
        BY DEF InvitesCounted, InviteOvershoot
      <4> HIDE DEF code
      <4> QED BY <4>1, <4>2, <4>4, <4>5, <4>6 DEF IsInvite
    <3>6. \A j \in db'.invites : \E i \in db.invites :
            j = Incremented(i, code)
      BY <3>2
    <3>7. \A j, k \in db'.invites : j.code = k.code => j = k
      BY <3>5, <3>6 DEF InvitesCounted
    <3> QED BY <2>1, <3>5, <3>6, <3>7 DEF InvitesCounted, InviteOvershoot
  <2> QED BY <1>5, <2>2, <2>3, <2>4 DEF AcceptInvite, Select, Require, Execute
<1>6. ASSUME NEW t \in Tasks, Serve(t) PROVE InvitesCounted'
  <2>1. CASE GuildStep(t)
    BY <1>1, <1>3, <1>4, <1>5, <2>1, GuildQuiet, MemberSteps DEF GuildStep
  <2> QED BY <1>1, <1>2, <1>6, <2>1, RoleSteps, TalkSteps DEF Serve
<1>7. ASSUME NEW t \in Tasks, Begin(t) PROVE InvitesCounted'
  <2>1. \A u \in Tasks \ {t} : task'[u] = task[u]
    BY <1>7, BeginFrame
  <2>2. \/ task'[t] = task[t]
        \/ task'[t].at = "start" /\ (Calls(t, "CreateInvite")' => task'[t].call.max \in Nat)
    <3>1. \A call \in This.calls : call.op = "CreateInvite" => call.max \in Nat
      BY ScenarioAssumption DEF This
    <3>2. \/ task'[t] = task[t]
          \/ \E call \in This.calls : task'[t] = [call |-> call, at |-> "start", row |-> None]
      BY <1>7, BeginFrame
    <3>3. ASSUME NEW call \in This.calls, task'[t] = [call |-> call, at |-> "start", row |-> None]
          PROVE  task'[t].at = "start" /\ (Calls(t, "CreateInvite")' => task'[t].call.max \in Nat)
      BY <3>1, <3>3 DEF Calls
    <3> QED BY <3>2, <3>3
  <2>3. \A code : InFlight(code)' \subseteq InFlight(code)
    BY <2>1, <2>2 DEF InFlight, Calls
  <2>4. \A u \in Tasks : Calls(u, "CreateInvite")' => task'[u].call.max \in Nat
    BY <2>1, <2>2 DEF Calls, InvitesCounted
  <2> QED BY <1>7, <2>3, <2>4, BeginFrame, FewerInvites
<1>8. ASSUME NEW t \in Tasks, Fail(t) PROVE InvitesCounted'
  <2>1. Moves(t) /\ task'[t] = Free /\ db' = db
    BY <1>8, Moving DEF Fail, Return, TasksShape
  <2>2. \A code : InFlight(code)' \subseteq InFlight(code)
    BY <2>1, FlightShrinks
  <2>3. \A u \in Tasks : Calls(u, "CreateInvite")' => task'[u].call.max \in Nat
    BY <2>1 DEF Moves, Calls, Free, InvitesCounted
  <2> QED BY <2>1, <2>2, <2>3, FewerInvites
<1>9. CASE ExpireInvite
  <2>1. PICK i \in db.invites : \E late :
          /\ late = [i EXCEPT !.expired = TRUE]
          /\ db' = [db EXCEPT !.invites = (@ \ {i}) \cup {late}]
    BY <1>9 DEF ExpireInvite, Expire
  <2>0. PICK late :
          /\ late = [i EXCEPT !.expired = TRUE]
          /\ db' = [db EXCEPT !.invites = (@ \ {i}) \cup {late}]
    BY <2>1
  <2>2. IsInvite(i) /\ IsInvite(late) /\ late.code = i.code /\ late.uses = i.uses /\ late.max = i.max
    <3>1. IsInvite(i)
      BY DEF InvitesCounted
    <3> QED BY <2>0, <3>1 DEF IsInvite
  <2>3. db'.invites = (db.invites \ {i}) \cup {late}
    BY <2>0 DEF IsDatabase
  <2>4. task' = task /\ \A code : InFlight(code)' = InFlight(code)
    BY <1>9 DEF ExpireInvite, Expire, InFlight, Calls
  <2>5. InviteOvershoot'
    BY <2>2, <2>3, <2>4 DEF InvitesCounted, InviteOvershoot
  <2>6. \A j, k \in db'.invites : j.code = k.code => j = k
    BY <2>2, <2>3 DEF InvitesCounted
  <2> QED BY <2>2, <2>3, <2>4, <2>5, <2>6 DEF InvitesCounted, Calls
<1>10. CASE TimePasses \/ Quiet \/ UNCHANGED vars
  <2>1. task' = task /\ db' = db
    BY <1>10 DEF TimePasses, Quiet, vars, requestVars
  <2> QED BY <2>1 DEF InvitesCounted, InviteOvershoot, InFlight, Calls
<1> QED BY <1>6, <1>7, <1>8, <1>9, <1>10 DEF Next

LEMMA InviteInit == Init => InvitesCounted
<1> SUFFICES ASSUME Init PROVE InvitesCounted
  OBVIOUS
<1>1. \A t \in Tasks : task[t] = Free
  BY DEF Init, Unserved
<1>2. \A code : InFlight(code) = {}
  BY <1>1 DEF InFlight, Calls, Free
<1>3. ASSUME NEW i \in db.invites, i.max > 0
      PROVE  i.uses + Cardinality(InFlight(i.code)) <= i.max + Cardinality(Tasks) - 1
  <2>1. IsInvite(i) /\ i.uses <= i.max
    BY <1>3, ScenarioAssumption DEF Init, This, Initial
  <2>2. Cardinality(InFlight(i.code)) = 0
    BY <1>2, FS_EmptySet
  <2> QED BY <2>1, <2>2, FlightSize DEF IsInvite
<1>4. \A i, j \in db.invites : i.code = j.code => i = j
  BY ScenarioAssumption DEF Init, This, Initial
<1>5. \A i \in db.invites : IsInvite(i)
  BY ScenarioAssumption DEF Init, This, Initial
<1> QED BY <1>1, <1>3, <1>4, <1>5 DEF InvitesCounted, InviteOvershoot, Calls, Free

\* For any number of requests at once: no invite with a limit is used more often
\* than its limit and the other requests in flight allow (AcceptInvite).
THEOREM InviteLimit == Spec => []InviteOvershoot
<1>1. Init => Shape /\ InvitesCounted
  BY ShapeInit, InviteInit
<1>2. Shape /\ InvitesCounted /\ [Next]_vars => (Shape /\ InvitesCounted)'
  BY ShapeStep, InviteStep
<1>3. InvitesCounted => InviteOvershoot
  BY DEF InvitesCounted
<1> QED BY <1>1, <1>2, <1>3, PTL DEF Spec
-----------------------------------------------------------------------------
(***************************************************************************)
(* Sessions.  SessionKept is inductive: a refresh that has deleted a token *)
(* stands for its sessions until it stores the next one.                   *)
(***************************************************************************)
Storing(t) == Calls(t, "Refresh") /\ task[t].at = "store"

Kept(s) ==
  \/ \E k \in db.tokens : s \in SessionsOf(k.token)
  \/ \E t \in Tasks : Storing(t) /\ s \in SessionsOf(task[t].call.token)

SessionsHeld ==
  /\ past = [slipped |-> past.slipped, halfway |-> past.halfway,
             signedIn |-> past.signedIn, issued |-> past.issued]
  /\ \A s \in past.signedIn : Kept(s)

LEMMA KeptIsKept == SessionKept <=> \A s \in past.signedIn : Kept(s)
BY DEF SessionKept, Kept, Storing

\* No token is taken away, and no request that is about to store one moves.
LEMMA StillKept ==
  ASSUME SessionsHeld, past.issued \subseteq past'.issued, past'.signedIn \subseteq past.signedIn,
         db.tokens \subseteq db'.tokens, \A t \in Tasks : Storing(t) => task'[t] = task[t]
  PROVE  \A s \in past'.signedIn : Kept(s)'
<1>1. \A token : SessionsOf(token) \subseteq SessionsOf(token)'
  BY DEF SessionsOf
<1> SUFFICES ASSUME NEW s \in past'.signedIn
             PROVE  Kept(s)'
  OBVIOUS
<1>2. CASE \E k \in db.tokens : s \in SessionsOf(k.token)
  BY <1>1, <1>2 DEF Kept
<1>3. CASE \E t \in Tasks : Storing(t) /\ s \in SessionsOf(task[t].call.token)
  BY <1>1, <1>3 DEF Storing, Calls, Kept
<1> QED BY <1>2, <1>3 DEF SessionsHeld, Kept

\* What a request remembers that is not one of the accounts.
LEMMA PastFrame ==
  ASSUME SessionsHeld, NEW t \in Tasks, GuildStep(t)
  PROVE  /\ past' = [slipped |-> past'.slipped, halfway |-> past'.halfway,
                     signedIn |-> past.signedIn, issued |-> past.issued]
<1>1. CASE BanMember(t)
  BY <1>1 DEF BanMember, SessionsHeld
<1>2. CASE ~BanMember(t)
  BY <1>2 DEF GuildStep, SessionsHeld, CreateGuild, UpdateGuild, DeleteGuild, CreateInvite, AcceptInvite,
              RevokeInvite, UpdateMember, KickMember, LeaveGuild, UnbanMember
<1> QED BY <1>1, <1>2

\* What the statements on tokens do.
LEMMA TokenStatements ==
  ASSUME IsDatabase(db), NEW token
  PROVE  /\ \A u : StoreToken(token, u).ok
         /\ \A u : StoreToken(token, u).db.tokens = db.tokens \cup {[token |-> token, user |-> u]}
         /\ DeleteToken(token).ok
         /\ DeleteToken(token).db.tokens = {k \in db.tokens : k.token # token}
BY DEF IsDatabase, StoreToken, DeleteToken, TokensNamed, Insert, Delete, Statement, Tables

LEMMA SessionAccounts ==
  ASSUME Shape, SessionsHeld, NEW t \in Tasks, AccountStep(t)
  PROVE  SessionsHeld'
<1> USE DEF Shape
<1> DEFINE c == task[t].call
<1>a. PICK token : token = lastId + 1
  OBVIOUS
<1>0. Moves(t) /\ \A u \in Tasks \ {t} : task'[u] = task[u]
  BY AccountSteps DEF Moves
<1>1. ASSUME IssueTokens(t, "tokens", task[t].row.id), ~Calls(t, "Refresh") PROVE SessionsHeld'
  <2>1. db' = StoreToken(token, task[t].row.id).db
    BY <1>a, <1>1, TokenStatements DEF IssueTokens, Create
  <2>a. db'.tokens = db.tokens \cup {[token |-> token, user |-> task[t].row.id]}
    BY <2>1, TokenStatements
  <2>2. PICK k \in db'.tokens : k.token = token
    <3> DEFINE stored == [token |-> token, user |-> task[t].row.id]
    <3>1. stored \in db'.tokens /\ stored.token = token
      BY <2>a
    <3> HIDE DEF stored
    <3> QED BY <3>1
  <2>3. past' = [slipped |-> past.slipped, halfway |-> past.halfway,
                 signedIn |-> past.signedIn \cup {token},
                 issued |-> past.issued \cup {[token |-> token, session |-> token]}]
    BY <1>a, <1>1 DEF IssueTokens, SessionsHeld
  <2>4. \A x : SessionsOf(x) \subseteq SessionsOf(x)'
    BY <2>3 DEF SessionsOf
  <2>5. token \in SessionsOf(token)'
    <3> DEFINE pair == [token |-> token, session |-> token]
    <3>1. pair \in past'.issued /\ pair.token = token /\ pair.session = token
      BY <2>3
    <3> HIDE DEF pair
    <3> QED BY <3>1 DEF SessionsOf
  <2>6. db.tokens \subseteq db'.tokens
    BY <2>a
  <2>7. \A u \in Tasks : Storing(u) => Storing(u)' /\ task'[u] = task[u]
    BY <1>0, <1>1 DEF Storing, Calls, Kept
  <2>8. ASSUME NEW s \in past'.signedIn
        PROVE  Kept(s)'
    <3>1. CASE s = token
      BY <2>2, <2>5, <3>1 DEF Kept
    <3>2. CASE s # token
      <4>1. s \in past.signedIn
        BY <2>3, <2>8, <3>2
      <4> QED BY <2>4, <2>6, <2>7, <4>1 DEF SessionsHeld, Kept
    <3> QED BY <3>1, <3>2
  <2> QED BY <2>3, <2>8 DEF SessionsHeld, Kept
<1>2. ASSUME db'.tokens = db.tokens, past' = past, ~Storing(t) PROVE SessionsHeld'
  BY <1>0, <1>2, StillKept DEF SessionsHeld
<1>3. CASE Register(t)
  <2>1. \/ IssueTokens(t, "tokens", task[t].row.id) /\ ~Calls(t, "Refresh")
        \/ /\ db' = db \/ \E u, name : db' = InsertUser(u, name).db
           /\ past' = past /\ ~Storing(t)
    BY <1>3 DEF Register, Calls, Storing, Require, Create
  <2> QED BY <1>1, <1>2, <2>1, AccountStatements DEF Keeps
<1>4. CASE Login(t)
  <2>1. \/ IssueTokens(t, "tokens", task[t].row.id) /\ ~Calls(t, "Refresh")
        \/ db' = db /\ past' = past /\ ~Storing(t)
    BY <1>4 DEF Login, Calls, Storing, Select
  <2> QED BY <1>1, <1>2, <2>1
<1>5. CASE Logout(t)
  <2>1. db' = DeleteToken(c.token).db /\ ~Storing(t)
    BY <1>5, TokenStatements DEF Logout, Calls, Storing, Execute
  <2>2. past' = [slipped |-> past.slipped, halfway |-> past.halfway,
                 signedIn |-> past.signedIn \ SessionsOf(c.token),
                 issued |-> past.issued]
    BY <1>5 DEF Logout, SessionsHeld
  <2>3. db'.tokens = {k \in db.tokens : k.token # c.token}
    BY <2>1, TokenStatements
  <2>4. \A x : SessionsOf(x)' = SessionsOf(x)
    BY <2>2 DEF SessionsOf
  <2>5. ASSUME NEW s \in past'.signedIn
        PROVE  Kept(s)'
    <3>1. s \in past.signedIn /\ s \notin SessionsOf(c.token)
      BY <2>2, <2>5
    <3>2. CASE \E k \in db.tokens : s \in SessionsOf(k.token)
      BY <2>3, <2>4, <3>1, <3>2 DEF Kept
    <3>3. CASE \E u \in Tasks : Storing(u) /\ s \in SessionsOf(task[u].call.token)
      BY <1>0, <2>1, <2>4, <3>3 DEF Storing, Calls, Kept
    <3> QED BY <3>1, <3>2, <3>3 DEF SessionsHeld, Kept
  <2> QED BY <2>2, <2>5 DEF SessionsHeld, Kept
<1>6. CASE Refresh(t)
  <2>1. CASE task[t].at = "start"
    BY <1>2, <1>6, <2>1 DEF Refresh, Select, Execute, Create, Storing
  <2>2. CASE task[t].at = "delete"
    <3>1. db' = DeleteToken(c.token).db /\ past' = past /\ ~Storing(t)
      BY <1>6, <2>2, TokenStatements DEF Refresh, Select, Execute, Create, Storing
    <3>2. Storing(t)' /\ task'[t].call = c
      BY <1>6, <2>2, TokenStatements DEF Refresh, Select, Execute, Create, Go, Storing, Calls, TasksShape
    <3>3. db'.tokens = {k \in db.tokens : k.token # c.token}
      BY <3>1, TokenStatements
    <3>4. \A x : SessionsOf(x)' = SessionsOf(x)
      BY <3>1 DEF SessionsOf
    <3>5. ASSUME NEW s \in past'.signedIn
          PROVE  Kept(s)'
      <4>1. CASE s \in SessionsOf(c.token)
        BY <3>2, <3>4, <4>1 DEF Kept
      <4>2. CASE s \notin SessionsOf(c.token) /\ \E k \in db.tokens : s \in SessionsOf(k.token)
        BY <3>3, <3>4, <4>2 DEF Kept
      <4>3. CASE \E u \in Tasks : Storing(u) /\ s \in SessionsOf(task[u].call.token)
        BY <1>0, <3>1, <3>4, <4>3 DEF Storing, Calls, Kept
      <4> QED BY <3>1, <4>1, <4>2, <4>3 DEF SessionsHeld, Kept
    <3> QED BY <3>1, <3>5 DEF SessionsHeld, Kept
  <2>3. CASE task[t].at = "store"
    <3>1. db' = StoreToken(token, task[t].row.user).db
      BY <1>a, <1>6, <2>3, TokenStatements DEF Refresh, Select, Execute, Create
    <3>2. past' = [slipped |-> past.slipped, halfway |-> past.halfway, signedIn |-> past.signedIn,
                   issued |-> past.issued \cup {[token |-> token, session |-> s] : s \in SessionsOf(c.token)}]
      BY <1>a, <1>6, <2>3 DEF Refresh, Select, Execute, SessionsHeld
    <3>a. db'.tokens = db.tokens \cup {[token |-> token, user |-> task[t].row.user]}
      BY <3>1, TokenStatements
    <3>3. PICK k \in db'.tokens : k.token = token
      <4> DEFINE stored == [token |-> token, user |-> task[t].row.user]
      <4>1. stored \in db'.tokens /\ stored.token = token
        BY <3>a
      <4> HIDE DEF stored
      <4> QED BY <4>1
    <3>4. \A x : SessionsOf(x) \subseteq SessionsOf(x)'
      BY <3>2 DEF SessionsOf
    <3>5. ASSUME NEW s \in SessionsOf(c.token) PROVE s \in SessionsOf(token)'
      <4> DEFINE pair == [token |-> token, session |-> s]
      <4>1. pair \in past'.issued /\ pair.token = token /\ pair.session = s
        BY <3>2, <3>5
      <4> HIDE DEF pair
      <4> QED BY <4>1 DEF SessionsOf
    <3>6. db.tokens \subseteq db'.tokens
      BY <3>a
    <3>7. ASSUME NEW s \in past'.signedIn
          PROVE  Kept(s)'
      <4>1. CASE s \in SessionsOf(c.token)
        BY <3>3, <3>5, <4>1 DEF Kept
      <4>2. CASE \E x \in db.tokens : s \in SessionsOf(x.token)
        BY <3>4, <3>6, <4>2 DEF Kept
      <4>3. CASE s \notin SessionsOf(c.token)
                   /\ \E u \in Tasks : Storing(u) /\ s \in SessionsOf(task[u].call.token)
        BY <1>0, <3>4, <4>3 DEF Storing, Calls, Kept
      <4> QED BY <3>2, <4>1, <4>2, <4>3 DEF SessionsHeld, Kept
    <3> QED BY <3>2, <3>7 DEF SessionsHeld, Kept
  <2> QED BY <1>6, <2>1, <2>2, <2>3 DEF Refresh, Select, Execute, Create
<1> QED BY <1>3, <1>4, <1>5, <1>6 DEF AccountStep

LEMMA SessionStep == Shape /\ SessionsHeld /\ [Next]_vars => SessionsHeld'
<1> SUFFICES ASSUME Shape, SessionsHeld, [Next]_vars PROVE SessionsHeld'
  OBVIOUS
<1> USE DEF Shape
<1>1. ASSUME NEW t \in Tasks, Moves(t), ~Storing(t), db'.tokens = db.tokens,
             past' = [slipped |-> past'.slipped, halfway |-> past'.halfway,
                      signedIn |-> past.signedIn, issued |-> past.issued]
      PROVE  SessionsHeld'
  BY <1>1, StillKept DEF SessionsHeld, Moves
<1>2. ASSUME NEW t \in Tasks, GuildStep(t) PROVE SessionsHeld'
  <2>1. Moves(t) /\ db'.tokens = db.tokens /\ ~Storing(t)
    BY <1>2, GuildTables DEF Keeps, Storing, Calls, AccountCalls
  <2> QED BY <1>1, <1>2, <2>1, PastFrame
<1>3. ASSUME NEW t \in Tasks, RoleStep(t) \/ TalkStep(t) PROVE SessionsHeld'
  <2>1. Quietly(t, Watched) /\ past' = past
    BY <1>3, RoleSteps, TalkSteps
  <2>2. Moves(t) /\ db'.tokens = db.tokens /\ ~Storing(t)
    BY <2>1 DEF Quietly, Keeps, Watched, Storing, Calls, AccountCalls
  <2> QED BY <1>1, <2>1, <2>2 DEF SessionsHeld
<1>4. ASSUME NEW t \in Tasks, Begin(t) PROVE SessionsHeld'
  <2>1. db' = db /\ past' = past /\ \A u \in Tasks : Storing(u) => task'[u] = task[u]
    BY <1>4, BeginFrame DEF Begin, Storing
  <2> QED BY <2>1, StillKept DEF SessionsHeld
<1>5. ASSUME NEW t \in Tasks, Fail(t) PROVE SessionsHeld'
  <2>1. Moves(t) /\ db' = db
    BY <1>5, Moving DEF Fail
  <2>2. CASE Storing(t)
    <3>1. past' = [slipped |-> past.slipped, halfway |-> past.halfway,
                   signedIn |-> past.signedIn \ SessionsOf(task[t].call.token),
                   issued |-> past.issued]
      BY <1>5, <2>2 DEF Fail, SessionsHeld, Storing, Opening, Calls
    <3>2. \A x : SessionsOf(x)' = SessionsOf(x)
      BY <3>1 DEF SessionsOf
    <3>3. ASSUME NEW s \in past'.signedIn
          PROVE  Kept(s)'
      BY <2>1, <3>1, <3>2 DEF SessionsHeld, Kept, Storing, Calls, Moves
    <3> QED BY <3>1, <3>3 DEF SessionsHeld, Kept
  <2>3. CASE ~Storing(t)
    <3>1. past' = [slipped |-> past'.slipped, halfway |-> past'.halfway,
                   signedIn |-> past.signedIn, issued |-> past.issued]
      BY <1>5, <2>3 DEF Fail, SessionsHeld, Storing
    <3> QED BY <1>1, <2>1, <2>3, <3>1
  <2> QED BY <2>2, <2>3
<1>6. CASE ExpireInvite \/ TimePasses \/ Quiet \/ UNCHANGED vars
  <2>1. db'.tokens = db.tokens /\ past' = past /\ task' = task
    <3>1. CASE ExpireInvite
      BY <3>1 DEF ExpireInvite, Expire, IsDatabase
    <3>2. CASE TimePasses \/ Quiet \/ UNCHANGED vars
      BY <3>2 DEF TimePasses, Quiet, vars, requestVars
    <3> QED BY <1>6, <3>1, <3>2
  <2> QED BY <2>1, StillKept DEF SessionsHeld
<1> QED BY <1>2, <1>3, <1>4, <1>5, <1>6, SessionAccounts DEF Next, Serve

\* For any number of clients and sessions: a session that is signed in keeps a
\* refresh token, whatever else is refreshed or signed out (Refresh, Logout).
THEOREM Sessions == Spec => []SessionKept
<1>1. Init => Shape /\ SessionsHeld
  <2> SUFFICES ASSUME Init PROVE SessionsHeld
    BY ShapeInit
  <2>1. ASSUME NEW k \in db.tokens PROVE k.token \in SessionsOf(k.token)
    <3> DEFINE pair == [token |-> k.token, session |-> k.token]
    <3>1. pair \in past.issued /\ pair.token = k.token /\ pair.session = k.token
      BY DEF Init
    <3> HIDE DEF pair
    <3> QED BY <3>1 DEF SessionsOf
  <2> QED BY <2>1 DEF Init, SessionsHeld, Kept
<1>2. Shape /\ SessionsHeld /\ [Next]_vars => (Shape /\ SessionsHeld)'
  BY ShapeStep, SessionStep
<1>3. SessionsHeld => SessionKept
  BY KeptIsKept DEF SessionsHeld
<1> QED BY <1>1, <1>2, <1>3, PTL DEF Spec
-----------------------------------------------------------------------------
(***************************************************************************)
(* The rate limit.                                                         *)
(***************************************************************************)
Numbered(rows) == IsFiniteSet(rows) /\ \A a \in rows : a.count \in Nat

Pairs(rows) == UNION {{<<a, n>> : n \in 1..a.count} : a \in rows}

LEMMA InPairs ==
  ASSUME NEW rows
  PROVE  \A p : p \in Pairs(rows) <=> \E a \in rows : \E n \in 1..a.count : p = <<a, n>>
<1> DEFINE S(a) == {<<a, n>> : n \in 1..a.count}
<1>1. \A p, a : p \in S(a) <=> \E n \in 1..a.count : p = <<a, n>>
  OBVIOUS
<1>2. Pairs(rows) = UNION {S(a) : a \in rows}
  BY DEF Pairs
<1> HIDE DEF S
<1>3. \A p : p \in Pairs(rows) <=> \E a \in rows : p \in S(a)
  BY <1>2
<1> QED BY <1>1, <1>3

LEMMA PairsOfOne ==
  ASSUME NEW a, a.count \in Nat
  PROVE  /\ IsFiniteSet({<<a, n>> : n \in 1..a.count})
         /\ Cardinality({<<a, n>> : n \in 1..a.count}) = a.count
<1> DEFINE S == 1..a.count
           T == {<<a, n>> : n \in S}
           f == [n \in S |-> <<a, n>>]
<1>1. IsFiniteSet(S) /\ Cardinality(S) = a.count
  BY FS_Interval
<1>2. f \in Bijection(S, T)
  BY DEF Bijection, Injection, Surjection, IsInjective
<1>3. ExistsBijection(S, T)
  BY <1>2 DEF ExistsBijection
<1> QED BY <1>1, <1>3, FS_Bijection

LEMMA Sums ==
  ASSUME NEW rows, Numbered(rows)
  PROVE  IsFiniteSet(Pairs(rows)) /\ SumOf(rows) \in Nat /\ SumOf(rows) = Cardinality(Pairs(rows))
<1> DEFINE sets == {{<<a, n>> : n \in 1..a.count} : a \in rows}
           f == [a \in rows |-> {<<a, n>> : n \in 1..a.count}]
<1>1. f \in Surjection(rows, sets)
  BY DEF Surjection
<1>2. IsFiniteSet(sets)
  BY <1>1, FS_Surjection DEF Numbered
<1>3. \A T \in sets : IsFiniteSet(T)
  BY PairsOfOne DEF Numbered
<1>4. IsFiniteSet(UNION sets)
  BY <1>2, <1>3, FS_UNION
<1>5. IsFiniteSet(Pairs(rows))
  BY <1>4 DEF Pairs
<1> QED BY <1>5, FS_CardinalityType DEF Pairs, SumOf

LEMMA SumOfFewer ==
  ASSUME NEW rows, Numbered(rows), NEW some, some \subseteq rows
  PROVE  Numbered(some) /\ SumOf(some) <= SumOf(rows)
<1>1. Numbered(some)
  BY FS_Subset DEF Numbered
<1>2. Pairs(some) \subseteq Pairs(rows)
  BY DEF Pairs
<1>3. Cardinality(Pairs(some)) <= Cardinality(Pairs(rows))
  BY <1>2, Sums, FS_Subset
<1>4. SumOf(rows) = Cardinality(Pairs(rows)) /\ SumOf(some) = Cardinality(Pairs(some))
  BY <1>1, Sums
<1> QED BY <1>1, <1>3, <1>4

LEMMA SumOfBoth ==
  ASSUME NEW rows, NEW more, Numbered(rows), Numbered(more)
  PROVE  /\ Numbered(rows \cup more) /\ SumOf(rows \cup more) <= SumOf(rows) + SumOf(more)
         /\ rows \cap more = {} => SumOf(rows \cup more) = SumOf(rows) + SumOf(more)
<1>1. Numbered(rows \cup more)
  BY FS_Union DEF Numbered
<1>2. Pairs(rows \cup more) = Pairs(rows) \cup Pairs(more)
  <2>1. /\ \A p : p \in Pairs(rows) <=> \E a \in rows : \E n \in 1..a.count : p = <<a, n>>
        /\ \A p : p \in Pairs(more) <=> \E a \in more : \E n \in 1..a.count : p = <<a, n>>
        /\ \A p : p \in Pairs(rows \cup more) <=> \E a \in rows \cup more : \E n \in 1..a.count : p = <<a, n>>
    BY InPairs
  <2>2. \A p : p \in Pairs(rows \cup more) <=> p \in Pairs(rows) \/ p \in Pairs(more)
    BY <2>1
  <2> QED BY <2>2
<1>3. /\ IsFiniteSet(Pairs(rows)) /\ IsFiniteSet(Pairs(more)) /\ SumOf(rows) \in Nat /\ SumOf(more) \in Nat
      /\ SumOf(rows) = Cardinality(Pairs(rows)) /\ SumOf(more) = Cardinality(Pairs(more))
      /\ SumOf(rows \cup more) = Cardinality(Pairs(rows \cup more))
  BY <1>1, Sums
<1>4. SumOf(rows \cup more) = SumOf(rows) + SumOf(more) - Cardinality(Pairs(rows) \cap Pairs(more))
  <2>1. Cardinality(Pairs(rows) \cup Pairs(more))
          = Cardinality(Pairs(rows)) + Cardinality(Pairs(more)) - Cardinality(Pairs(rows) \cap Pairs(more))
    BY <1>3, FS_Union
  <2> QED BY <1>2, <1>3, <2>1
<1>5. Cardinality(Pairs(rows) \cap Pairs(more)) \in Nat
  <2>1. IsFiniteSet(Pairs(rows) \cap Pairs(more))
    BY <1>3, FS_Subset
  <2> QED BY <2>1, FS_CardinalityType
<1>6. ASSUME rows \cap more = {} PROVE Cardinality(Pairs(rows) \cap Pairs(more)) = 0
  <2>1. \A p : ~(p \in Pairs(rows) /\ p \in Pairs(more))
    <3> SUFFICES ASSUME NEW p, p \in Pairs(rows), p \in Pairs(more) PROVE FALSE
      OBVIOUS
    <3>0. /\ \A q : q \in Pairs(rows) <=> \E a \in rows : \E n \in 1..a.count : q = <<a, n>>
          /\ \A q : q \in Pairs(more) <=> \E a \in more : \E n \in 1..a.count : q = <<a, n>>
      BY InPairs
    <3>1. PICK a \in rows : \E n \in 1..a.count : p = <<a, n>>
      BY <3>0
    <3>2. PICK b \in more : \E n \in 1..b.count : p = <<b, n>>
      BY <3>0
    <3>3. a = b
      BY <3>1, <3>2
    <3> QED BY <1>6, <3>3
  <2>2. Pairs(rows) \cap Pairs(more) = {}
    BY <2>1
  <2> QED BY <2>2, FS_EmptySet
<1>7. \A x, y, z \in Nat : x + y - z <= x + y /\ (z = 0 => x + y - z = x + y)
  OBVIOUS
<1>8. /\ SumOf(rows) + SumOf(more) - Cardinality(Pairs(rows) \cap Pairs(more)) <= SumOf(rows) + SumOf(more)
      /\ Cardinality(Pairs(rows) \cap Pairs(more)) = 0 =>
           SumOf(rows) + SumOf(more) - Cardinality(Pairs(rows) \cap Pairs(more)) = SumOf(rows) + SumOf(more)
  BY <1>3, <1>5, <1>7
<1>9. SumOf(rows \cup more) <= SumOf(rows) + SumOf(more)
  BY <1>4, <1>8
<1>10. rows \cap more = {} => SumOf(rows \cup more) = SumOf(rows) + SumOf(more)
  BY <1>4, <1>6, <1>8
<1> QED BY <1>1, <1>9, <1>10

LEMMA SumOfOne ==
  ASSUME NEW a, a.count \in Nat
  PROVE  Numbered({a}) /\ SumOf({a}) = a.count
<1>1. Numbered({a})
  BY FS_Singleton DEF Numbered
<1>2. Pairs({a}) = {<<a, n>> : n \in 1..a.count}
  BY DEF Pairs
<1> QED BY <1>1, <1>2, Sums, PairsOfOne
\* What has been admitted of a key from one time until before another.
Taken(rows, k, lo, hi) == SumOf({b \in rows : b.key = k /\ lo <= b.at /\ b.at < hi})

IsCounted(c) == c = [key |-> c.key, count |-> c.count, expires |-> c.expires] /\ c.count \in Nat

\* One row per key and time, and one counter per key, which is still alive.
Admissions(rows, n) ==
  /\ IsFiniteSet(rows)
  /\ \A a \in rows : a.at \in 0..n /\ a.count \in Nat
  /\ \A a, b \in rows : a.key = b.key /\ a.at = b.at => a = b

Alive(cs, n) ==
  /\ \A c \in cs : IsCounted(c) /\ c.expires \in Int /\ n < c.expires
  /\ \A c, d \in cs : c.key = d.key => c = d

LEMMA TakenParts ==
  ASSUME NEW n \in Nat, NEW rows, Admissions(rows, n), NEW k
  PROVE  /\ \A lo, hi : Taken(rows, k, lo, hi) \in Nat
         /\ \A lo, mid, hi \in Int : Taken(rows, k, lo, hi) <= Taken(rows, k, lo, mid) + Taken(rows, k, mid, hi)
         /\ \A lo, hi, from, to : (\A a \in rows : a.key = k /\ lo <= a.at /\ a.at < hi => from <= a.at /\ a.at < to)
                                    => Taken(rows, k, lo, hi) <= Taken(rows, k, from, to)
         /\ \A lo, hi : (\A a \in rows : ~(a.key = k /\ lo <= a.at /\ a.at < hi)) => Taken(rows, k, lo, hi) = 0
<1> DEFINE Part(lo, hi) == {b \in rows : b.key = k /\ lo <= b.at /\ b.at < hi}
<1>1. Numbered(rows)
  BY DEF Admissions, Numbered
<1>2. \A lo, hi : Numbered(Part(lo, hi)) /\ Part(lo, hi) \subseteq rows
  BY <1>1, SumOfFewer
<1>3. \A lo, hi : Taken(rows, k, lo, hi) = SumOf(Part(lo, hi))
  BY DEF Taken
<1>4. \A lo, hi : SumOf(Part(lo, hi)) \in Nat
  BY <1>2, Sums
<1>5. ASSUME NEW lo \in Int, NEW mid \in Int, NEW hi \in Int
      PROVE  SumOf(Part(lo, hi)) <= SumOf(Part(lo, mid)) + SumOf(Part(mid, hi))
  <2>1. \A i \in Int : i < mid \/ mid <= i
    OBVIOUS
  <2>2. \A a \in rows : a.at < mid \/ mid <= a.at
    <3>1. \A a \in rows : a.at \in 0..n
      BY DEF Admissions
    <3>2. \A i \in 0..n : i \in Int
      OBVIOUS
    <3> QED BY <2>1, <3>1, <3>2
  <2>3. Part(lo, hi) \subseteq Part(lo, mid) \cup Part(mid, hi)
    BY <2>2
  <2> HIDE DEF Part
  <2>4. /\ Numbered(Part(lo, mid) \cup Part(mid, hi))
        /\ SumOf(Part(lo, mid) \cup Part(mid, hi)) <= SumOf(Part(lo, mid)) + SumOf(Part(mid, hi))
    BY <1>2, SumOfBoth
  <2>5. SumOf(Part(lo, hi)) <= SumOf(Part(lo, mid) \cup Part(mid, hi))
    BY <2>3, <2>4, SumOfFewer
  <2>6. SumOf(Part(lo, mid) \cup Part(mid, hi)) \in Nat
    BY <2>4, Sums
  <2> QED BY <1>4, <2>4, <2>5, <2>6
<1>6. ASSUME NEW lo, NEW hi, NEW from, NEW to,
             \A a \in rows : a.key = k /\ lo <= a.at /\ a.at < hi => from <= a.at /\ a.at < to
      PROVE  SumOf(Part(lo, hi)) <= SumOf(Part(from, to))
  <2>1. Part(lo, hi) \subseteq Part(from, to)
    BY <1>6
  <2> QED BY <1>2, <2>1, SumOfFewer
<1>7. ASSUME NEW lo, NEW hi, \A a \in rows : ~(a.key = k /\ lo <= a.at /\ a.at < hi)
      PROVE  SumOf(Part(lo, hi)) = 0
  <2>1. Part(lo, hi) = {}
    BY <1>7
  <2>2. Pairs({}) = {} /\ Numbered({})
    BY FS_EmptySet DEF Pairs, Numbered
  <2>3. SumOf({}) = 0
    BY <2>2, Sums, FS_EmptySet
  <2> QED BY <2>1, <2>3
<1> HIDE DEF Part
<1>8. \A lo, hi : Taken(rows, k, lo, hi) \in Nat
  BY <1>3, <1>4
<1>9. ASSUME NEW lo \in Int, NEW mid \in Int, NEW hi \in Int
      PROVE  Taken(rows, k, lo, hi) <= Taken(rows, k, lo, mid) + Taken(rows, k, mid, hi)
  <2>1. SumOf(Part(lo, hi)) <= SumOf(Part(lo, mid)) + SumOf(Part(mid, hi))
    BY <1>5
  <2> QED BY <1>3, <2>1
<1>10. ASSUME NEW lo, NEW hi, NEW from, NEW to,
              \A a \in rows : a.key = k /\ lo <= a.at /\ a.at < hi => from <= a.at /\ a.at < to
       PROVE  Taken(rows, k, lo, hi) <= Taken(rows, k, from, to)
  <2>1. SumOf(Part(lo, hi)) <= SumOf(Part(from, to))
    BY <1>6, <1>10
  <2> QED BY <1>3, <2>1
<1>11. \A lo, hi : (\A a \in rows : ~(a.key = k /\ lo <= a.at /\ a.at < hi)) => Taken(rows, k, lo, hi) = 0
  BY <1>3, <1>7
<1> QED BY <1>8, <1>9, <1>10, <1>11

\* The admissions of a key at a time, and the admissions with another row in
\* their place.
AdmittedThen(rows, key, n) == {a \in rows : a.key = key /\ a.at = n}
Admitting(rows, key, n, row) == {a \in rows : a.key # key \/ a.at # n} \cup {row}

\* One more is admitted now.
LEMMA OneAdmitted ==
  ASSUME NEW n \in Nat, NEW rows, Admissions(rows, n), NEW key, NEW row, row.key = key, row.at = n,
         \/ AdmittedThen(rows, key, n) = {} /\ row.count = 1
         \/ \E old \in AdmittedThen(rows, key, n) : row.count = old.count + 1
  PROVE  /\ Admissions(Admitting(rows, key, n, row), n)
         /\ \A lo, hi : Taken(Admitting(rows, key, n, row), key, lo, hi) <= Taken(rows, key, lo, hi) + 1
         /\ \A k, lo, hi :
              k # key \/ ~(n < hi) => Taken(Admitting(rows, key, n, row), k, lo, hi) = Taken(rows, k, lo, hi)
<1> USE DEF AdmittedThen, Admitting
<1> DEFINE here == AdmittedThen(rows, key, n)
           next == Admitting(rows, key, n, row)
           Part(s, k, lo, hi) == {b \in s : b.key = k /\ lo <= b.at /\ b.at < hi}
           rest == {a \in rows : a.key # key \/ a.at # n}
<1>1. /\ Numbered(rows)
      /\ \A a, b \in rows : a.key = b.key /\ a.at = b.at => a = b
      /\ \A a \in rows : a.at \in 0..n /\ a.count \in Nat
  BY DEF Admissions, Numbered
<1>2. \/ here = {} /\ row.count = 1
      \/ \E old \in rows : here = {old} /\ row.count = old.count + 1
  <2>1. \A old \in here : here = {old}
    BY <1>1
  <2> QED BY <2>1
<1>3. row.count \in Nat
  <2>1. \A old \in rows : old.count + 1 \in Nat
    BY <1>1
  <2> QED BY <1>2, <2>1
<1>4. Admissions(next, n)
  <2>1. IsFiniteSet(rest)
    BY <1>1, FS_Subset DEF Numbered
  <2>2. IsFiniteSet(next)
    BY <2>1, FS_AddElement
  <2>3. \A a \in next : a \in rest \/ a = row
    OBVIOUS
  <2>4. \A a \in next : a.at \in 0..n /\ a.count \in Nat
    <3>1. n \in 0..n
      OBVIOUS
    <3> QED BY <1>1, <1>3, <2>3, <3>1
  <2>5. \A a, b \in next : a.key = b.key /\ a.at = b.at => a = b
    BY <1>1, <2>3
  <2> QED BY <2>2, <2>4, <2>5 DEF Admissions
<1>5. ASSUME NEW k, NEW lo, NEW hi, k # key \/ ~(n < hi) PROVE Taken(next, k, lo, hi) = Taken(rows, k, lo, hi)
  <2>1. Part(next, k, lo, hi) = Part(rows, k, lo, hi)
    BY <1>5
  <2> QED BY <2>1 DEF Taken
<1>6. ASSUME NEW lo, NEW hi PROVE Taken(next, key, lo, hi) <= Taken(rows, key, lo, hi) + 1
  <2> DEFINE before == Part(rows, key, lo, hi)
             after == Part(next, key, lo, hi)
  <2>1. Taken(rows, key, lo, hi) = SumOf(before) /\ Taken(next, key, lo, hi) = SumOf(after)
    BY DEF Taken
  <2>2. Numbered(before) /\ SumOf(before) \in Nat
    BY <1>1, SumOfFewer, Sums
  <2>3. CASE ~(lo <= n /\ n < hi)
    <3>1. after = before
      BY <2>3
    <3>2. SumOf(before) <= SumOf(before) + 1
      BY <2>2
    <3> QED BY <2>1, <3>1, <3>2
  <2>4. CASE lo <= n /\ n < hi
    <3>1. after = (before \ here) \cup {row} /\ here \subseteq before
      BY <2>4
    <3> HIDE DEF before, after
    <3>2. Numbered(before \ here) /\ SumOf(before \ here) \in Nat
      BY <2>2, SumOfFewer, Sums
    <3>3. SumOf(after) <= SumOf(before \ here) + row.count
      <4>1. Numbered({row}) /\ SumOf({row}) = row.count
        BY <1>3, SumOfOne
      <4> QED BY <3>1, <3>2, <4>1, SumOfBoth
    <3>4. SumOf(before \ here) + row.count = SumOf(before) + 1
      <4>1. CASE here = {} /\ row.count = 1
        <5>1. before \ here = before
          BY <4>1
        <5> QED BY <4>1, <5>1
      <4>2. ASSUME NEW old \in rows, here = {old}, row.count = old.count + 1
            PROVE  SumOf(before \ here) + row.count = SumOf(before) + 1
        <5>1. Numbered({old}) /\ SumOf({old}) = old.count /\ old.count \in Nat
          BY <1>1, SumOfOne
        <5>2. (before \ here) \cup {old} = before /\ (before \ here) \cap {old} = {}
          BY <3>1, <4>2
        <5>3. SumOf(before) = SumOf(before \ here) + old.count
          BY <3>2, <5>1, <5>2, SumOfBoth
        <5>4. SumOf(before \ here) + (old.count + 1) = (SumOf(before \ here) + old.count) + 1
          BY <3>2, <5>1
        <5> QED BY <4>2, <5>3, <5>4
      <4> QED BY <1>2, <4>1, <4>2
    <3>5. Numbered(after) /\ SumOf(after) \in Nat
      <4>1. Numbered(next)
        BY <1>4 DEF Admissions, Numbered
      <4>2. after \subseteq next
        BY DEF after
      <4> QED BY <4>1, <4>2, SumOfFewer, Sums
    <3> QED BY <2>1, <2>2, <3>3, <3>4, <3>5
  <2> QED BY <2>3, <2>4
<1> QED BY <1>4, <1>5, <1>6
\* The last window of a key opens at o: its counter says how much has passed
\* since, and the window before it has ended by then.
LastWindow(k, o, rows, cs, n, limit) ==
  /\ o <= n
  /\ \A a \in rows : a.key = k => a.at < o + Window
  /\ Taken(rows, k, o, o + Window) <= limit
  /\ \A s \in Int : s > o - Window => Taken(rows, k, s, o) <= limit
  /\ \A c \in cs : c.key = k => c.expires = o + Window /\ Taken(rows, k, o, o + Window) <= c.count
  /\ (\A c \in cs : c.key # k) => o + Window <= n

Bursts(k, rows, limit) == \A s \in Int : Taken(rows, k, s, s + Window) <= 2 * limit

LimiterInv ==
  /\ now \in Nat /\ Admissions(admitted, now) /\ Alive(counters, now)
  /\ \A k : /\ \E o \in Int : LastWindow(k, o, admitted, counters, now, This.limit)
            /\ Bursts(k, admitted, This.limit)

\* A burst that reaches into the last window is in this window and the one before.
LEMMA LastBursts ==
  ASSUME NEW n \in Nat, NEW rows, Admissions(rows, n), NEW cs, NEW k, NEW o \in Int, NEW limit \in Nat,
         LastWindow(k, o, rows, cs, n, limit), NEW s \in Int, s > o - Window
  PROVE  Taken(rows, k, s, s + Window) <= 2 * limit
<1> USE WindowAssumption
<1>1. /\ Taken(rows, k, s, s + Window) \in Nat /\ Taken(rows, k, s, o) \in Nat
      /\ Taken(rows, k, o, s + Window) \in Nat /\ Taken(rows, k, o, o + Window) \in Nat
  BY TakenParts
<1>2. \A a \in rows : a.at \in Nat
  BY DEF Admissions
<1>3. Taken(rows, k, s, s + Window) <= Taken(rows, k, s, o) + Taken(rows, k, o, s + Window)
  <2>1. s + Window \in Int
    OBVIOUS
  <2> QED BY <2>1, TakenParts
<1>4. Taken(rows, k, o, s + Window) <= Taken(rows, k, o, o + Window)
  <2>1. \A a \in rows : a.key = k /\ o <= a.at /\ a.at < s + Window => o <= a.at /\ a.at < o + Window
    BY DEF LastWindow
  <2> QED BY <2>1, TakenParts
<1>5. Taken(rows, k, o, o + Window) <= limit /\ Taken(rows, k, s, o) <= limit
  BY DEF LastWindow
<1> QED BY <1>1, <1>3, <1>4, <1>5

\* Two sets of admissions that differ in nothing before now.
LEMMA BurstsStay ==
  ASSUME NEW n \in Nat, NEW rows, NEW next, Admissions(next, n), NEW cs, NEW k, NEW o \in Int, NEW limit \in Nat,
         Bursts(k, rows, limit), LastWindow(k, o, next, cs, n, limit),
         \A lo, hi : ~(n < hi) => Taken(next, k, lo, hi) = Taken(rows, k, lo, hi)
  PROVE  Bursts(k, next, limit)
<1> SUFFICES ASSUME NEW s \in Int PROVE Taken(next, k, s, s + Window) <= 2 * limit
  BY DEF Bursts
<1>1. CASE s > o - Window
  BY <1>1, LastBursts
<1>2. CASE ~(s > o - Window)
  <2>1. ~(n < s + Window)
    BY <1>2, WindowAssumption DEF LastWindow
  <2> QED BY <2>1 DEF Bursts
<1> QED BY <1>1, <1>2

\* A request that finds a counter.
LEMMA InWindow ==
  ASSUME NEW n \in Nat, NEW rows, Admissions(rows, n), NEW next, Admissions(next, n), NEW k, NEW o \in Int,
         NEW limit \in Nat, NEW cs, Alive(cs, n), NEW c \in cs, c.key = k, NEW new, new.key = k,
         new.count = c.count + 1, new.expires = c.expires,
         LastWindow(k, o, rows, cs, n, limit),
         \/ next = rows
         \/ new.count <= limit /\ \A lo, hi : Taken(next, k, lo, hi) <= Taken(rows, k, lo, hi) + 1,
         \A lo, hi : ~(n < hi) => Taken(next, k, lo, hi) = Taken(rows, k, lo, hi),
         NEW rest, \A d \in rest : d.key # k
  PROVE  LastWindow(k, o, next, rest \cup {new}, n, limit)
<1> USE WindowAssumption
<1>1. /\ c.count \in Nat /\ c.expires \in Int /\ n < c.expires
      /\ c.expires = o + Window /\ Taken(rows, k, o, o + Window) <= c.count
      /\ o <= n /\ Taken(rows, k, o, o + Window) <= limit
  BY DEF Alive, IsCounted, LastWindow
<1>2. Taken(next, k, o, o + Window) \in Nat /\ Taken(rows, k, o, o + Window) \in Nat
  BY TakenParts
<1>3. Taken(next, k, o, o + Window) <= limit /\ Taken(next, k, o, o + Window) <= new.count
  <2>1. CASE next = rows
    BY <1>1, <1>2, <2>1
  <2>2. CASE new.count <= limit /\ Taken(next, k, o, o + Window) <= Taken(rows, k, o, o + Window) + 1
    BY <1>1, <1>2, <2>2
  <2> QED BY <2>1, <2>2
<1>4. \A a \in next : a.at < o + Window
  <2>1. \A a \in next : a.at \in 0..n
    BY DEF Admissions
  <2> QED BY <1>1, <2>1
<1>5. \A s \in Int : s > o - Window => Taken(next, k, s, o) <= limit
  <2>1. ~(n < o)
    BY <1>1
  <2> QED BY <2>1 DEF LastWindow
<1>6. \A d \in rest \cup {new} : d.key = k => d = new
  OBVIOUS
<1>7. new \in rest \cup {new} /\ new.expires = o + Window
  BY <1>1
<1> QED BY <1>1, <1>3, <1>4, <1>5, <1>6, <1>7 DEF LastWindow

\* A request that finds none opens a window.
LEMMA OpensWindow ==
  ASSUME NEW n \in Nat, NEW rows, Admissions(rows, n), NEW next, Admissions(next, n), NEW k, NEW o \in Int,
         NEW limit \in Nat, NEW cs, \A c \in cs : c.key # k, NEW new, new.key = k,
         new.count = 1, new.expires = n + Window,
         LastWindow(k, o, rows, cs, n, limit),
         \/ next = rows
         \/ new.count <= limit /\ \A lo, hi : Taken(next, k, lo, hi) <= Taken(rows, k, lo, hi) + 1,
         \A lo, hi : ~(n < hi) => Taken(next, k, lo, hi) = Taken(rows, k, lo, hi)
  PROVE  LastWindow(k, n, next, cs \cup {new}, n, limit)
<1> USE WindowAssumption
<1>1. o + Window <= n /\ (\A a \in rows : a.key = k => a.at < o + Window) /\ Taken(rows, k, o, o + Window) <= limit
  BY DEF LastWindow
<1>2. \A a \in rows : a.at \in 0..n
  BY DEF Admissions
<1>3. Taken(next, k, n, n + Window) \in Nat /\ Taken(rows, k, o, o + Window) \in Nat
  BY TakenParts
<1>4. Taken(rows, k, n, n + Window) = 0
  <2>1. \A a \in rows : ~(a.key = k /\ n <= a.at /\ a.at < n + Window)
    BY <1>1, <1>2
  <2> QED BY <2>1, TakenParts
<1>5. Taken(next, k, n, n + Window) <= limit /\ Taken(next, k, n, n + Window) <= new.count
  <2>1. CASE next = rows
    BY <1>4, <2>1
  <2>2. CASE new.count <= limit /\ Taken(next, k, n, n + Window) <= Taken(rows, k, n, n + Window) + 1
    BY <1>3, <1>4, <2>2
  <2> QED BY <2>1, <2>2
<1>6. \A a \in next : a.at < n + Window
  <2>1. \A a \in next : a.at \in 0..n
    BY DEF Admissions
  <2> QED BY <2>1
<1>7. ASSUME NEW s \in Int, s > n - Window PROVE Taken(next, k, s, n) <= limit
  <2>1. Taken(next, k, s, n) = Taken(rows, k, s, n)
    OBVIOUS
  <2>2. \A a \in rows : a.key = k /\ s <= a.at /\ a.at < n => o <= a.at /\ a.at < o + Window
    BY <1>1, <1>2, <1>7
  <2>3. Taken(rows, k, s, n) <= Taken(rows, k, o, o + Window)
    BY <2>2, TakenParts
  <2>4. Taken(rows, k, s, n) \in Nat
    BY TakenParts
  <2> QED BY <1>1, <1>3, <2>1, <2>3, <2>4
<1>8. \A d \in cs \cup {new} : d.key = k => d = new
  OBVIOUS
<1>9. new \in cs \cup {new}
  OBVIOUS
<1> QED BY <1>5, <1>6, <1>7, <1>8, <1>9 DEF LastWindow

\* What CheckRateLimit counts, and what it adds to the admitted.
LEMMA CountedRow ==
  ASSUME now \in Nat, Alive(counters, now), NEW key
  PROVE  LET new == Counted(key) IN
         /\ IsCounted(new) /\ new.key = key /\ new.expires \in Int /\ now < new.expires
         /\ \/ (\A c \in counters : c.key # key) /\ new.count = 1 /\ new.expires = now + Window
            \/ \E c \in counters : c.key = key /\ new.count = c.count + 1 /\ new.expires = c.expires
<1> USE WindowAssumption
<1>1. \A c \in counters : IsCounted(c) /\ c.expires \in Int /\ now < c.expires
  BY DEF Alive
<1>2. CASE Live(key) = {}
  <2>1. \A c \in counters : c.key # key
    BY <1>1, <1>2 DEF Live
  <2>2. Counted(key) = [key |-> key, count |-> 1, expires |-> now + Window]
    BY <1>2 DEF Counted
  <2> QED BY <2>1, <2>2 DEF IsCounted
<1>3. CASE Live(key) # {}
  <2>1. PICK c \in Live(key) : TRUE
    BY <1>3
  <2>2. c \in counters /\ c.key = key
    BY <2>1 DEF Live
  <2>3. Live(key) = {c}
    BY <2>1, <2>2 DEF Live, Alive
  <2> DEFINE more(l) == [l EXCEPT !.count = @ + 1]
  <2>4. Counted(key) = CHOOSE x \in {more(l) : l \in Live(key)} : TRUE
    BY <1>3 DEF Counted
  <2>5. {more(l) : l \in Live(key)} = {more(c)}
    BY <2>3
  <2>6. Counted(key) = more(c)
    BY <2>4, <2>5
  <2>7. c = [key |-> c.key, count |-> c.count, expires |-> c.expires] /\ c.count \in Nat
        /\ c.expires \in Int /\ now < c.expires
    BY <1>1, <2>2 DEF IsCounted
  <2>8. more(c) = [key |-> c.key, count |-> c.count + 1, expires |-> c.expires]
    BY <2>7
  <2> HIDE DEF more
  <2> QED BY <2>2, <2>6, <2>7, <2>8 DEF IsCounted
<1> QED BY <1>2, <1>3

LEMMA AdmittedRow ==
  ASSUME NEW key
  PROVE  \/ AdmittedThen(admitted, key, now) = {} /\ AdmittedAt(key, now) = 0
         \/ \E old \in AdmittedThen(admitted, key, now) : AdmittedAt(key, now) = old.count
<1> DEFINE here == {a \in admitted : a.key = key /\ a.at = now}
<1>1. here = {} => AdmittedAt(key, now) = 0
  BY DEF AdmittedAt
<1>2. here # {} => AdmittedAt(key, now) = (CHOOSE a \in here : TRUE).count
  BY DEF AdmittedAt
<1>3. here # {} => (CHOOSE a \in here : TRUE) \in here
  OBVIOUS
<1> QED BY <1>1, <1>2, <1>3 DEF AdmittedThen

LEMMA CheckKeeps ==
  ASSUME LimiterInv, This.limit \in Nat, NEW key, NEW passes \in BOOLEAN, Check(key, This.limit, passes)
  PROVE  /\ now' = now /\ Admissions(admitted', now) /\ Alive(counters', now)
         /\ \A k : /\ \E o \in Int : LastWindow(k, o, admitted', counters', now, This.limit)
                   /\ Bursts(k, admitted', This.limit)
<1> DEFINE new == Counted(key)
           rest == {c \in counters : c.key # key}
           row == [key |-> key, at |-> now, count |-> AdmittedAt(key, now) + 1]
           next == {a \in admitted : a.key # key \/ a.at # now} \cup {row}
           limit == This.limit
<1>1. /\ now \in Nat /\ Admissions(admitted, now) /\ Alive(counters, now)
      /\ \A k : (\E o \in Int : LastWindow(k, o, admitted, counters, now, limit)) /\ Bursts(k, admitted, limit)
  BY DEF LimiterInv
<1>2. /\ counters' = rest \cup {new} /\ now' = now
      /\ admitted' = admitted \/ (new.count <= limit /\ admitted' = next)
  BY DEF Check, Within
<1>3. /\ IsCounted(new) /\ new.key = key /\ new.expires \in Int /\ now < new.expires
      /\ \/ (\A c \in counters : c.key # key) /\ new.count = 1 /\ new.expires = now + Window
         \/ \E c \in counters : c.key = key /\ new.count = c.count + 1 /\ new.expires = c.expires
  BY <1>1, CountedRow
<1>4. /\ Admissions(next, now)
      /\ \A lo, hi : Taken(next, key, lo, hi) <= Taken(admitted, key, lo, hi) + 1
      /\ \A k, lo, hi : k # key \/ ~(now < hi) => Taken(next, k, lo, hi) = Taken(admitted, k, lo, hi)
  <2>1. PICK r : r = row
    OBVIOUS
  <2>2. r.key = key /\ r.at = now /\ r.count = AdmittedAt(key, now) + 1
    BY <2>1
  <2>3. \/ AdmittedThen(admitted, key, now) = {} /\ r.count = 1
        \/ \E old \in AdmittedThen(admitted, key, now) : r.count = old.count + 1
    BY <2>2, AdmittedRow
  <2>4. next = Admitting(admitted, key, now, r)
    BY <2>1 DEF Admitting
  <2> HIDE DEF next, row
  <2> QED BY <1>1, <2>2, <2>3, <2>4, OneAdmitted
<1> HIDE DEF new, next, row, limit
<1>5. /\ Admissions(admitted', now)
      /\ \/ admitted' = admitted
         \/ new.count <= limit /\ \A lo, hi : Taken(admitted', key, lo, hi) <= Taken(admitted, key, lo, hi) + 1
      /\ \A k, lo, hi : k # key \/ ~(now < hi) => Taken(admitted', k, lo, hi) = Taken(admitted, k, lo, hi)
  BY <1>1, <1>2, <1>4
<1>6. Alive(counters', now)
  BY <1>1, <1>2, <1>3 DEF Alive
<1>7. limit \in Nat
  BY DEF limit
<1>8. \E o \in Int : LastWindow(key, o, admitted', counters', now, limit)
  <2>1. PICK o \in Int : LastWindow(key, o, admitted, counters, now, limit)
    BY <1>1
  <2>2. \A d \in rest : d.key # key
    OBVIOUS
  <2>3. CASE (\A c \in counters : c.key # key) /\ new.count = 1 /\ new.expires = now + Window
    <3>1. counters' = counters \cup {new}
      BY <1>2, <2>3
    <3>2. LastWindow(key, now, admitted', counters \cup {new}, now, limit)
      BY <1>1, <1>3, <1>5, <1>7, <2>1, <2>3, OpensWindow
    <3> QED BY <1>1, <3>1, <3>2
  <2>4. ASSUME NEW c \in counters, c.key = key, new.count = c.count + 1, new.expires = c.expires
        PROVE  LastWindow(key, o, admitted', rest \cup {new}, now, limit)
    <3> HIDE DEF rest
    <3> QED BY <1>1, <1>3, <1>5, <1>7, <2>1, <2>2, <2>4, InWindow
  <2> QED BY <1>2, <1>3, <2>1, <2>3, <2>4
<1>9. ASSUME NEW k, k # key PROVE \E o \in Int : LastWindow(k, o, admitted', counters', now, limit)
  <2>1. PICK o \in Int : LastWindow(k, o, admitted, counters, now, limit)
    BY <1>1
  <2>2. \A lo, hi : Taken(admitted', k, lo, hi) = Taken(admitted, k, lo, hi)
    BY <1>5, <1>9
  <2>3. \A c : c.key = k => (c \in counters' <=> c \in counters)
    BY <1>2, <1>3, <1>9
  <2>4. \A a \in admitted' : a.key = k => a \in admitted
    <3>1. row.key = key
      BY DEF row
    <3> QED BY <1>2, <1>9, <3>1 DEF next
  <2> QED BY <2>1, <2>2, <2>3, <2>4 DEF LastWindow
<1>10. \A k : \E o \in Int : LastWindow(k, o, admitted', counters', now, limit)
  BY <1>8, <1>9
<1>11. ASSUME NEW k PROVE Bursts(k, admitted', limit)
  <2>1. PICK o \in Int : LastWindow(k, o, admitted', counters', now, limit)
    BY <1>10
  <2>2. \A lo, hi : ~(now < hi) => Taken(admitted', k, lo, hi) = Taken(admitted, k, lo, hi)
    BY <1>5
  <2>3. Bursts(k, admitted, limit)
    BY <1>1
  <2> QED BY <1>1, <1>5, <1>7, <2>1, <2>2, <2>3, BurstsStay
<1> QED BY <1>2, <1>5, <1>6, <1>10, <1>11 DEF limit

LEMMA TickKeeps ==
  ASSUME LimiterInv, Tick
  PROVE  /\ now' \in Nat /\ Admissions(admitted, now') /\ Alive(counters', now')
         /\ \A k : \E o \in Int : LastWindow(k, o, admitted, counters', now', This.limit)
<1>1. /\ now \in Nat /\ Admissions(admitted, now) /\ Alive(counters, now)
      /\ now' = now + 1 /\ counters' = {c \in counters : now' < c.expires}
  BY DEF LimiterInv, Tick
<1>2. Admissions(admitted, now')
  <2>1. \A i \in 0..now : i \in 0..now'
    BY <1>1
  <2> QED BY <1>1, <2>1 DEF Admissions
<1>3. Alive(counters', now')
  BY <1>1 DEF Alive
<1>4. ASSUME NEW k PROVE \E o \in Int : LastWindow(k, o, admitted, counters', now', This.limit)
  <2>1. PICK o \in Int : LastWindow(k, o, admitted, counters, now, This.limit)
    BY DEF LimiterInv
  <2>2. o <= now' /\ (o + Window <= now => o + Window <= now')
    BY <1>1, <2>1, WindowAssumption DEF LastWindow
  <2>3. (\A c \in counters' : c.key # k) => o + Window <= now'
    <3>1. CASE \A c \in counters : c.key # k
      BY <2>1, <2>2, <3>1 DEF LastWindow
    <3>2. ASSUME NEW c \in counters, c.key = k, c \notin counters' PROVE o + Window <= now'
      <4>1. c.expires = o + Window /\ ~(now' < c.expires)
        BY <1>1, <2>1, <3>2 DEF LastWindow
      <4> QED BY <1>1, <4>1, WindowAssumption
    <3> QED BY <3>1, <3>2
  <2>4. counters' \subseteq counters
    BY <1>1
  <2>5. LastWindow(k, o, admitted, counters', now', This.limit)
    BY <2>1, <2>2, <2>3, <2>4 DEF LastWindow
  <2> QED BY <2>5
<1>5. now' \in Nat
  BY <1>1
<1> QED BY <1>2, <1>3, <1>4, <1>5

LEMMA LimiterStep == Shape /\ LimiterInv /\ [Next]_vars => LimiterInv'
<1> SUFFICES ASSUME Shape, LimiterInv, [Next]_vars PROVE LimiterInv'
  OBVIOUS
<1>0. This.limit \in Nat
  BY ScenarioAssumption DEF Shape, This
<1>1. scenario' = scenario
  BY DEF Next, Begin, Serve, Fail, ExpireInvite, TimePasses, Quiet, vars
<1>2. This' = This
  BY <1>1 DEF This
<1>3. ASSUME UNCHANGED limiterVars PROVE LimiterInv'
  BY <1>2, <1>3 DEF limiterVars, LimiterInv
<1>4. ASSUME NEW t \in Tasks, Begin(t) PROVE LimiterInv'
  <2>1. ASSUME NEW key, NEW passes \in BOOLEAN, Check(key, This.limit, passes) PROVE LimiterInv'
    <3>1. /\ now' = now /\ Admissions(admitted', now) /\ Alive(counters', now)
          /\ \A k : /\ \E o \in Int : LastWindow(k, o, admitted', counters', now, This.limit)
                    /\ Bursts(k, admitted', This.limit)
      BY <1>0, <2>1, CheckKeeps
    <3>2. now' \in Nat
      BY <3>1 DEF LimiterInv
    <3> QED BY <1>2, <3>1, <3>2 DEF LimiterInv
  <2> QED BY <1>3, <1>4, <2>1 DEF Begin
<1>5. CASE TimePasses
  <2>1. /\ now' \in Nat /\ Admissions(admitted, now') /\ Alive(counters', now') /\ admitted' = admitted
        /\ \A k : \E o \in Int : LastWindow(k, o, admitted, counters', now', This.limit)
    BY <1>5, TickKeeps DEF TimePasses, Tick
  <2> QED BY <1>2, <2>1 DEF LimiterInv
<1>6. ASSUME NEW t \in Tasks, Serve(t) \/ Fail(t) PROVE LimiterInv'
  BY <1>3, <1>6 DEF Serve, Fail
<1>7. CASE ExpireInvite \/ Quiet \/ UNCHANGED vars
  BY <1>3, <1>7 DEF ExpireInvite, Quiet, vars, limiterVars
<1> QED BY <1>4, <1>5, <1>6, <1>7 DEF Next

LEMMA LimiterInit == Init => LimiterInv
<1> SUFFICES ASSUME Init PROVE LimiterInv
  OBVIOUS
<1> USE WindowAssumption
<1>0. This.limit \in Nat
  BY ScenarioAssumption DEF Init, This
<1>1. now = 0 /\ admitted = {} /\ counters = {}
  BY DEF Init
<1>2. Admissions(admitted, now)
  BY <1>1, FS_EmptySet DEF Admissions
<1>3. \A k, lo, hi : Taken(admitted, k, lo, hi) = 0
  BY <1>1, <1>2, TakenParts
<1>4. \A k : LastWindow(k, -Window, admitted, counters, now, This.limit)
  BY <1>0, <1>1, <1>3 DEF LastWindow
<1>5. \A k : Bursts(k, admitted, This.limit)
  BY <1>0, <1>3 DEF Bursts
<1>6. Alive(counters, now)
  BY <1>1 DEF Alive
<1> QED BY <1>1, <1>2, <1>4, <1>5, <1>6 DEF LimiterInv

\* Within the length of a window at most twice the limit of a caller's requests
\* pass, whenever it begins: the counter expires a window after its first
\* increment, and requests that are refused count too (redis/client.go,
\* api/ratelimit.go).
THEOREM BurstsCorrect == Spec => []BurstsBounded
<1>1. Init => Shape /\ LimiterInv
  BY ShapeInit, LimiterInit
<1>2. Shape /\ LimiterInv /\ [Next]_vars => (Shape /\ LimiterInv)'
  BY ShapeStep, LimiterStep
<1>3. LimiterInv => BurstsBounded
  <2> SUFFICES ASSUME LimiterInv, NEW a \in admitted
               PROVE  Taken(admitted, a.key, a.at, a.at + Window) <= 2 * This.limit
    BY DEF BurstsBounded, BurstBounded, Taken
  <2>1. a.at \in Int
    BY DEF LimiterInv, Admissions
  <2>2. Bursts(a.key, admitted, This.limit)
    BY DEF LimiterInv
  <2> QED BY <2>1, <2>2 DEF Bursts
<1> QED BY <1>1, <1>2, <1>3, PTL DEF Spec

=============================================================================
