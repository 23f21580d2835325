----------------------------- MODULE MCServices -----------------------------
(* Instances of Services for TLC: small databases, and calls on them.       *)
EXTENDS Services, TLC

CONSTANTS t1, t2, t3

MCTasks2 == {t1, t2}
MCTasks3 == {t1, t2, t3}
Symmetry == Permutations(Tasks)

MCPermissions == {"VIEW", "SEND", "HISTORY", "ADMIN", "CREATE_INVITE", "KICK", "BAN", "MANAGE_GUILD",
                  "MANAGE_ROLES", "MANAGE_CHANNELS", "MANAGE_MESSAGES", "CONNECT", "ATTACH"}
\* Those that the calls on guilds ask for or change.
MCGuildPermissions == {"VIEW", "SEND", "HISTORY", "ADMIN", "CREATE_INVITE", "KICK", "BAN", "MANAGE_GUILD",
                       "MANAGE_ROLES", "MANAGE_CHANNELS"}
-----------------------------------------------------------------------------
\* Guild 10 of user 1, with user 2 as a moderator; users 3 and 4 are outside.
Role(id, guild, position, perms) ==
  [id |-> id, guild |-> guild, position |-> position, perms |-> perms, default |-> position = 0]
Member(g, u) == [guild |-> g, user |-> u]
HasRole(g, u, r) == [guild |-> g, user |-> u, role |-> r]
Channel(id, name, type, parent) ==
  [id |-> id, guild |-> 10, name |-> name, type |-> type, parent |-> parent]

Moderates == {"KICK", "BAN", "MANAGE_GUILD", "MANAGE_ROLES", "MANAGE_CHANNELS", "CREATE_INVITE"}

Guild10 ==
  [NoRows EXCEPT
     !.users = {[id |-> u, name |-> u] : u \in 1..4},
     !.guilds = {[id |-> 10, owner |-> 1]},
     !.roles = {Role(11, 10, 0, {"VIEW", "SEND"}), Role(12, 10, 2, Moderates), Role(13, 10, 1, {"HISTORY"})},
     !.members = {Member(10, 1), Member(10, 2)},
     !.memberRoles = {HasRole(10, 2, 12)},
     !.channels = {Channel(21, "a", "text", 0)}]

Scenario(db_, calls, most, faults) ==
  [db |-> db_, ids |-> 50, calls |-> calls, most |-> most, faults |-> faults, away |-> faults,
   limit |-> 5, time |-> 0]

\* Joining asks for no channel.
WithInvite ==
  [Guild10 EXCEPT
     !.channels = {},
     !.invites = {[code |-> 31, guild |-> 10, creator |-> 2, max |-> 1, uses |-> 0, expired |-> FALSE]}]

Accept(u) == [op |-> "AcceptInvite", by |-> u, code |-> 31]
Leave(u) == [op |-> "LeaveGuild", by |-> u, guild |-> 10]
Against(op, u) == [op |-> op, by |-> 2, guild |-> 10, user |-> u]

Inviting ==
  Scenario(WithInvite,
    {Accept(3), Accept(4), Leave(3), Against("KickMember", 3),
     [op |-> "CreateInvite", by |-> 2, guild |-> 10, max |-> 1],
     [op |-> "RevokeInvite", by |-> 2, code |-> 31]}, 3, TRUE)

Banning == Scenario(WithInvite, {Accept(3), Against("BanMember", 3), Against("UnbanMember", 3)}, 4, TRUE)

Founding ==
  Scenario(Guild10,
    {[op |-> "CreateGuild", by |-> 3],
     [op |-> "DeleteGuild", by |-> 3, guild |-> 51],
     [op |-> "DeleteRole", by |-> 3, guild |-> 51, role |-> 52]}, 3, FALSE)

\* One guild is created, 51, and its creation may stop anywhere; when it does so
\* before the default role, the owner's invite is 52.
Stopping ==
  [Scenario(Guild10,
     {[op |-> "CreateGuild", by |-> 3], Leave(3),
      [op |-> "CreateInvite", by |-> 3, guild |-> 51, max |-> 0],
      [op |-> "AcceptInvite", by |-> 4, code |-> 52],
      [op |-> "LeaveGuild", by |-> 4, guild |-> 51]}, 4, TRUE) EXCEPT !.limit = 1, !.away = FALSE]

Owning ==
  Scenario(Guild10,
    {[op |-> "UpdateGuild", by |-> 2, guild |-> 10],
     [op |-> "DeleteGuild", by |-> 1, guild |-> 10],
     Leave(1), Against("KickMember", 1), Against("BanMember", 1)}, 4, FALSE)

\* A second guild with a role of its own; nobody is outside guild 10.
TwoGuilds ==
  [Guild10 EXCEPT !.users = {u \in @ : u.id # 4},
                  !.guilds = @ \cup {[id |-> 20, owner |-> 1]},
                  !.roles = @ \cup {Role(23, 20, 1, {})},
                  !.members = @ \cup {Member(10, 3)}]

Ranking ==
  Scenario(TwoGuilds,
    {[op |-> "CreateRole", by |-> 2, guild |-> 10, position |-> 1, perms |-> {"SEND"}],
     [op |-> "UpdateRole", by |-> 1, guild |-> 10, role |-> 13, position |-> 3, perms |-> None],
     [op |-> "UpdateRole", by |-> 1, guild |-> 10, role |-> 13, position |-> None, perms |-> {"ADMIN"}],
     [op |-> "DeleteRole", by |-> 2, guild |-> 10, role |-> 13],
     [op |-> "DeleteRole", by |-> 1, guild |-> 10, role |-> 11],
     [op |-> "AssignRole", by |-> 2, guild |-> 10, user |-> 3, role |-> 13],
     [op |-> "AssignRole", by |-> 2, guild |-> 10, user |-> 3, role |-> 23],
     [op |-> "RemoveRole", by |-> 2, guild |-> 10, user |-> 3, role |-> 13],
     [op |-> "UpdateMember", by |-> 2, guild |-> 10, user |-> 3, roles |-> {13, 23}],
     Leave(3)}, 4, FALSE)

Overriding ==
  Scenario([TwoGuilds EXCEPT !.memberRoles = @ \cup {HasRole(10, 3, 13), HasRole(10, 2, 13)},
                             !.overrides = {[channel |-> 21, role |-> 12, allow |-> {}, deny |-> {"VIEW"}]}],
    {[op |-> "SetChannelOverride", by |-> 2, channel |-> 21, role |-> 13, allow |-> {"VIEW"}, deny |-> {"SEND"}],
     [op |-> "SetChannelOverride", by |-> 2, channel |-> 21, role |-> 11, allow |-> {"SEND"}, deny |-> {"VIEW"}],
     [op |-> "DeleteChannelOverride", by |-> 2, channel |-> 21, role |-> 11],
     [op |-> "CreateChannel", by |-> 2, guild |-> 10, name |-> "b", type |-> "text", parent |-> 21],
     [op |-> "UpdateChannel", by |-> 2, channel |-> 21, name |-> "b"],
     [op |-> "DeleteChannel", by |-> 2, channel |-> 21],
     [op |-> "DeleteRole", by |-> 2, guild |-> 10, role |-> 13],
     [op |-> "DeleteGuild", by |-> 1, guild |-> 10]}, 4, FALSE)

GuildScenarios ==
  [inviting |-> Inviting, banning |-> Banning, founding |-> Founding, stopping |-> Stopping,
   owning |-> Owning, ranking |-> Ranking, overriding |-> Overriding]
-----------------------------------------------------------------------------
\* The guild with messages in channel 21 and a voice channel; user 2 may use both.
Talks == {"HISTORY", "CONNECT", "ATTACH"}

Message(id, author) == [id |-> id, channel |-> 21, author |-> author, edited |-> FALSE]

Chat ==
  [Guild10 EXCEPT !.roles = @ \cup {Role(14, 10, 1, Talks)},
                  !.memberRoles = @ \cup {HasRole(10, 2, 14)},
                  !.channels = @ \cup {Channel(22, "v", "voice", 0)},
                  !.messages = {Message(31, 1), Message(32, 2), Message(33, 2)}]

In21(op, u) == [op |-> op, by |-> u, channel |-> 21]
On32(op, u) == [op |-> op, by |-> u, channel |-> 21, message |-> 32]

Reading ==
  Scenario(Chat, {In21("ReadHistory", 2), In21("SendMessage", 2), On32("DeleteMessage", 1)}, 4, FALSE)

Chatting ==
  Scenario(Chat,
    {In21("SendMessage", 2), On32("EditMessage", 2), On32("DeleteMessage", 2), On32("AddReaction", 2),
     On32("RemoveReaction", 2), On32("Ack", 2), In21("Typing", 2), In21("UploadFile", 2),
     [op |-> "JoinChannel", by |-> 2, channel |-> 22], In21("LeaveChannel", 2),
     [op |-> "DeleteChannel", by |-> 1, channel |-> 21]}, 2, TRUE)

\* Channel 41 is between users 1 and 2, group 42 is user 1's.
DirectMessages ==
  [NoRows EXCEPT !.users = {[id |-> u, name |-> u] : u \in 1..4},
                 !.dms = {[id |-> 41, type |-> "dm", owner |-> 0], [id |-> 42, type |-> "group", owner |-> 1]},
                 !.recipients = [channel : {41, 42}, user : {1, 2}]]

In41(op, u) == [op |-> op, by |-> u, channel |-> 41, user |-> u]
In42(op, u) == [op |-> op, by |-> 1, channel |-> 42, user |-> u]
Pair(u, v) == [op |-> "CreateDM", by |-> u, user |-> v]

Pairing ==
  Scenario(DirectMessages,
    {Pair(1, 2), Pair(3, 4), Pair(4, 3), In41("SendMessage", 1), In41("RemoveGroupDMMember", 2),
     [op |-> "AddGroupDMMember", by |-> 1, channel |-> 41, user |-> 3]}, 3, TRUE)

Grouping ==
  Scenario(DirectMessages,
    {In42("AddGroupDMMember", 3), In42("AddGroupDMMember", 4), In42("RemoveGroupDMMember", 2),
     [op |-> "CreateGroupDM", by |-> 2, users |-> {3, 4}],
     [op |-> "CreateGroupDM", by |-> 2, users |-> {1, 3, 4}]}, 4, FALSE)

SigningIn ==
  Scenario([NoRows EXCEPT !.users = {[id |-> 1, name |-> "a"]}, !.tokens = {[token |-> 45, user |-> 1]}],
    {[op |-> "Register", by |-> 0, name |-> "b"], [op |-> "Login", by |-> 0, name |-> "a"],
     [op |-> "Login", by |-> 0, name |-> "b"],
     [op |-> "Refresh", by |-> 0, token |-> 45], [op |-> "Refresh", by |-> 0, token |-> 51],
     [op |-> "Logout", by |-> 1, token |-> 45], [op |-> "Logout", by |-> 1, token |-> 51]}, 4, TRUE)

\* Two requests per window and path, over two windows.
Limiting ==
  [Scenario(Chat, {In21("Typing", 1), In21("Typing", 2)}, 6, FALSE) EXCEPT !.limit = 2, !.time = 4]

TalkScenarios ==
  [reading |-> Reading, chatting |-> Chatting, pairing |-> Pairing, grouping |-> Grouping,
   signing |-> SigningIn, limiting |-> Limiting]

\* Users 3 and 4 have no channel yet and write to each other first.
UpsertScenarios == [meeting |-> Scenario(DirectMessages, {Pair(3, 4), Pair(4, 3)}, 2, FALSE)]
=============================================================================
