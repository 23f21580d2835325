------------------------------- MODULE Store -------------------------------
(***************************************************************************)
(* The tables of PostgreSQL, the refresh tokens of Redis and the objects   *)
(* of the object store, as sets of rows, with an operator for each         *)
(* statement the repositories of internal/database send.  A statement is   *)
(* atomic.  An operator that writes returns whether the constraints of the *)
(* migrations admit the statement and the database after it.               *)
(*                                                                         *)
(* A row has the columns that some condition of the services tests: names, *)
(* colours, topics and times are left out, a set of permission bits is a   *)
(* set of names, and all ids are numbers of one generator (Snowflake).     *)
(***************************************************************************)
EXTENDS Integers, FiniteSets

VARIABLE db

Tables == {"users", "guilds", "members", "memberRoles", "roles", "channels", "overrides",
           "invites", "bans", "messages", "attachments", "reactions", "readStates",
           "dms", "recipients", "voice", "tokens", "objects"}

IsDatabase(d) == d = [t \in Tables |-> d[t]]

\* The row of an invite: a maximum of 0 is no limit.
IsInvite(i) ==
  /\ i = [code |-> i.code, guild |-> i.guild, creator |-> i.creator,
          max |-> i.max, uses |-> i.uses, expired |-> i.expired]
  /\ i.max \in Nat /\ i.uses \in Nat

\* The rows of roles and of messages.
IsRole(r) == r = [id |-> r.id, guild |-> r.guild, position |-> r.position, perms |-> r.perms, default |-> r.default]
IsMessage(m) == m = [id |-> m.id, channel |-> m.channel, author |-> m.author, edited |-> m.edited]

NoRows == [t \in Tables |-> {}]

Statement(admitted, after) == [ok |-> admitted, db |-> after]

Insert(table, row, admitted) == Statement(admitted, [db EXCEPT ![table] = @ \cup {row}])

Delete(table, rows) == Statement(TRUE, [db EXCEPT ![table] = @ \ rows])

\* The rows with an id: one or none.
ById(table, id) == {r \in db[table] : r.id = id}

HasUser(u) == ById("users", u) # {}
HasGuild(g) == ById("guilds", g) # {}
HasChannel(c) == ById("channels", c) # {}
-----------------------------------------------------------------------------
(***************************************************************************)
(* Cascades: what else leaves the tables with the rows of a parent.        *)
(***************************************************************************)
WithoutMembers(d, gone) ==
  [d EXCEPT !.members = @ \ gone,
            !.memberRoles = {r \in @ : [guild |-> r.guild, user |-> r.user] \notin gone}]

KeepingOverrides(d, gone) ==
  [d EXCEPT !.roles = @ \ gone, !.memberRoles = {r \in @ : \A x \in gone : x.id # r.role}]

WithoutRoles(d, gone) ==
  [d EXCEPT !.roles = @ \ gone,
            !.memberRoles = {r \in @ : \A x \in gone : x.id # r.role},
            !.overrides = {o \in @ : \A x \in gone : x.id # o.role}]

WithoutMessages(d, gone) ==
  [d EXCEPT !.messages = @ \ gone,
            !.attachments = {a \in @ : \A m \in gone : m.id # a.message}]

WithoutChannels(d, gone) ==
  LET emptied == WithoutMessages(d, {m \in d.messages : \E c \in gone : c.id = m.channel})
  IN  [emptied EXCEPT !.channels = @ \ gone,
                      !.overrides = {o \in @ : \A c \in gone : c.id # o.channel}]

\* parent_id refers to channels without a cascade: a parent stays while a child does.
Childless(gone) == \A c \in db.channels \ gone : \A p \in gone : c.parent # p.id
-----------------------------------------------------------------------------
(* Users *)
UserByName(name) == {r \in db.users : r.name = name}

InsertAnyName(u, name) == Insert("users", [id |-> u, name |-> name], ~HasUser(u))

InsertUser(u, name) ==
  Insert("users", [id |-> u, name |-> name], ~HasUser(u) /\ UserByName(name) = {})

(* Guilds *)
Owns(g, u) == \E r \in db.guilds : r.id = g /\ r.owner = u

InsertGuild(g, owner) == Insert("guilds", [id |-> g, owner |-> owner], HasUser(owner) /\ ~HasGuild(g))

UpdateGuildRow(row) ==
  Statement(TRUE, [db EXCEPT !.guilds = {IF r.id = row.id THEN row ELSE r : r \in @}])

DeleteGuildRow(g) ==
  LET channels == {c \in db.channels : c.guild = g}
      members == {m \in db.members : m.guild = g}
      roles == {r \in db.roles : r.guild = g}
      rest == WithoutMembers(WithoutRoles(WithoutChannels(db, channels), roles), members)
  IN  Statement(Childless(channels),
                [rest EXCEPT !.guilds = {r \in @ : r.id # g},
                             !.invites = {i \in @ : i.guild # g},
                             !.bans = {b \in @ : b.guild # g}])

(* Members and their roles *)
IsMember(g, u) == [guild |-> g, user |-> u] \in db.members

InsertMember(g, u) ==
  Insert("members", [guild |-> g, user |-> u], HasGuild(g) /\ HasUser(u) /\ ~IsMember(g, u))

DeleteMember(g, u) == Statement(TRUE, WithoutMembers(db, {[guild |-> g, user |-> u]}))

RoleIdsOf(g, u) == {r.role : r \in {x \in db.memberRoles : x.guild = g /\ x.user = u}}

\* ON CONFLICT DO NOTHING; no constraint compares the guilds of the role and the member.
AddMemberRole(g, u, role) ==
  Insert("memberRoles", [guild |-> g, user |-> u, role |-> role],
         IsMember(g, u) /\ ById("roles", role) # {})

RemoveMemberRole(g, u, role) == Delete("memberRoles", {[guild |-> g, user |-> u, role |-> role]})

(* Roles *)
InsertRole(row) == Insert("roles", row, HasGuild(row.guild) /\ ById("roles", row.id) = {})

RolesOfGuild(g) == {r \in db.roles : r.guild = g}

RolesOfMember(g, u) == {r \in db.roles : r.id \in RoleIdsOf(g, u)}

\* The guild of a role is not a column of the update.
UpdateRoleRow(row) ==
  Statement(TRUE, [db EXCEPT !.roles = {IF r.id = row.id THEN [row EXCEPT !.guild = r.guild] ELSE r : r \in @}])

DeleteRoleRow(role) == Statement(TRUE, WithoutRoles(db, ById("roles", role)))
-----------------------------------------------------------------------------
(* Invites *)
InviteByCode(code) == {i \in db.invites : i.code = code}

InsertInvite(row) ==
  Insert("invites", row, HasGuild(row.guild) /\ HasUser(row.creator) /\ InviteByCode(row.code) = {})

IncrementUses(code) ==
  Statement(TRUE, [db EXCEPT !.invites = {IF i.code = code THEN [i EXCEPT !.uses = @ + 1] ELSE i : i \in @}])

DeleteInvite(code) == Delete("invites", InviteByCode(code))

(* Bans *)
IsBanned(g, u) == [guild |-> g, user |-> u] \in db.bans

InsertBan(g, u) ==
  Insert("bans", [guild |-> g, user |-> u], HasGuild(g) /\ HasUser(u) /\ ~IsBanned(g, u))

DeleteBan(g, u) == Delete("bans", {[guild |-> g, user |-> u]})

(* Channels and their overrides *)
ChannelsOfGuild(g) == {c \in db.channels : c.guild = g}

\* UNIQUE(guild_id, name); the parent may be a channel of any guild.
ChannelAdmitted(row, others) ==
  /\ HasGuild(row.guild)
  /\ row.parent # 0 => HasChannel(row.parent)
  /\ \A c \in others : c.guild = row.guild => c.name # row.name

InsertChannel(row) == Insert("channels", row, ChannelAdmitted(row, db.channels) /\ ~HasChannel(row.id))

UpdateChannelRow(row) ==
  LET others == {c \in db.channels : c.id # row.id}
  IN  Statement(HasChannel(row.id) => ChannelAdmitted(row, others),
                [db EXCEPT !.channels = {IF c.id = row.id THEN row ELSE c : c \in @}])

DeleteChannelRow(c) == Statement(Childless(ById("channels", c)), WithoutChannels(db, ById("channels", c)))

OverridesOf(c) == {o \in db.overrides : o.channel = c}

SetOverride(row) ==
  Statement(HasChannel(row.channel) /\ ById("roles", row.role) # {},
            [db EXCEPT !.overrides = {o \in @ : o.channel # row.channel \/ o.role # row.role} \cup {row}])

DeleteOverride(c, role) == Delete("overrides", {o \in OverridesOf(c) : o.role = role})
-----------------------------------------------------------------------------
(* Messages, reactions, read states, attachments *)

\* messages.channel_id refers to channels: a direct-message channel has no row there.
InsertMessage(row) ==
  Insert("messages", row, HasChannel(row.channel) /\ HasUser(row.author) /\ ById("messages", row.id) = {})

UpdateMessageRow(id) ==
  Statement(TRUE, [db EXCEPT !.messages = {IF m.id = id THEN [m EXCEPT !.edited = TRUE] ELSE m : m \in @}])

DeleteMessageRow(id) == Statement(TRUE, WithoutMessages(db, ById("messages", id)))

OldestFirst(channel, before, limit) ==
  LET below == {m.id : m \in {x \in db.messages : x.channel = channel /\ x.id < before}}
  IN  {id \in below : Cardinality({n \in below : n < id}) < limit}

\* The newest messages of a channel below a cursor, at most limit of them.
Page(channel, before, limit) ==
  LET below == {m.id : m \in {x \in db.messages : x.channel = channel /\ x.id < before}}
  IN  {id \in below : Cardinality({n \in below : n > id}) < limit}

\* reactions, read_states and voice_states refer to no other table.
AddReactionRow(message, u) == Insert("reactions", [message |-> message, user |-> u], TRUE)

RemoveReactionRow(message, u) == Delete("reactions", {[message |-> message, user |-> u]})

UpsertReadState(u, channel, message) ==
  Statement(TRUE, [db EXCEPT !.readStates = {r \in @ : r.user # u \/ r.channel # channel}
                                              \cup {[user |-> u, channel |-> channel, last |-> message]}])

InsertAttachment(row) == Insert("attachments", row, ById("messages", row.message) # {})

(* Voice states: one per guild and user *)
VoiceOf(g, u) == {v \in db.voice : v.guild = g /\ v.user = u}

UpsertVoice(g, u, channel) ==
  Statement(TRUE, [db EXCEPT !.voice = (@ \ VoiceOf(g, u)) \cup {[guild |-> g, user |-> u, channel |-> channel]}])

DeleteVoice(g, u) == Delete("voice", VoiceOf(g, u))

(* Direct messages *)
IsRecipient(dm, u) == [channel |-> dm, user |-> u] \in db.recipients

RecipientsOf(dm) == {r.user : r \in {x \in db.recipients : x.channel = dm}}

\* The channels of two users that GetOrCreateDM may find.
DMsBetween(u, v) == {r \in db.dms : r.type = "dm" /\ IsRecipient(r.id, u) /\ IsRecipient(r.id, v)}

\* One transaction: the channel and all its recipients.
InsertDM(row, users) ==
  Statement(ById("dms", row.id) = {} /\ \A u \in users : HasUser(u),
            [db EXCEPT !.dms = @ \cup {row},
                       !.recipients = @ \cup {[channel |-> row.id, user |-> u] : u \in users}])

AddRecipient(dm, u) ==
  Insert("recipients", [channel |-> dm, user |-> u], ById("dms", dm) # {} /\ HasUser(u))

RemoveRecipient(dm, u) == Delete("recipients", {[channel |-> dm, user |-> u]})

(* Refresh tokens and objects *)
TokensNamed(token) == {k \in db.tokens : k.token = token}

StoreToken(token, u) == Insert("tokens", [token |-> token, user |-> u], TRUE)

DeleteTokensOfUser(token) ==
  Delete("tokens", {k \in db.tokens : \E x \in TokensNamed(token) : x.user = k.user})

DeleteToken(token) == Delete("tokens", TokensNamed(token))

PutObject(id) == Insert("objects", id, TRUE)
=============================================================================
