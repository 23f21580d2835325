---------------------------- MODULE StoreProofs ----------------------------
(***************************************************************************)
(* The tables stay consistent, whatever requests run at the same time and  *)
(* wherever they stop.                                                     *)
(*                                                                         *)
(* Each statement keeps what the constraints say, given a consistent       *)
(* database; only the row that UpdateGuild writes back has been read       *)
(* before, and its owner is still a user since users are never deleted.    *)
(***************************************************************************)
EXTENDS ServicesProofs
Keyed == {"users", "guilds", "roles", "channels", "messages", "attachments", "dms"}

\* A database that differs from db in some tables only.
Only(d, tables) == IsDatabase(d) /\ \A x \in Tables \ tables : d[x] = db[x]

\* What the columns of a row are and what its foreign keys refer to.
Refers(d, t, r) ==
  /\ t = "guilds" => r.owner \in IdsIn(d, "users")
  /\ t = "members" => r.guild \in IdsIn(d, "guilds") /\ r.user \in IdsIn(d, "users")
  /\ t = "memberRoles" => [guild |-> r.guild, user |-> r.user] \in d.members /\ r.role \in IdsIn(d, "roles")
  /\ t = "roles" => IsRole(r) /\ r.guild \in IdsIn(d, "guilds")
  /\ t = "channels" => r.guild \in IdsIn(d, "guilds") /\ r.parent \in IdsIn(d, "channels") \cup {0}
  /\ t = "overrides" => r.channel \in IdsIn(d, "channels") /\ r.role \in IdsIn(d, "roles")
  /\ t = "invites" => IsInvite(r) /\ r.guild \in IdsIn(d, "guilds")
  /\ t = "bans" => r.guild \in IdsIn(d, "guilds")
  /\ t = "messages" => /\ IsMessage(r) /\ r.id \in Nat \ {0}
                       /\ r.channel \in IdsIn(d, "channels") /\ r.author \in IdsIn(d, "users")
  /\ t = "recipients" => r.channel \in IdsIn(d, "dms") /\ r.user \in IdsIn(d, "users")

\* The primary keys, and the names of users.
Same(t, r, s) == r.id = s.id \/ (t = "users" /\ r.name = s.name)

Unique(t, rows) == \A r, s \in rows : Same(t, r, s) => r = s

Sound(d) ==
  /\ IsDatabase(d)
  /\ \A t \in Keyed : Unique(t, d[t])
  /\ \A t \in Tables : \A r \in d[t] : Refers(d, t, r)

\* What StoreOK and NamesUnique say, from the rows.
LEMMA SoundIsConsistent ==
  ASSUME NEW d, Sound(d)
  PROVE  Consistent(d) /\ \A u, v \in d.users : u.name = v.name => u = v
<1>1. /\ "guilds" \in Tables /\ "members" \in Tables /\ "memberRoles" \in Tables /\ "roles" \in Tables
      /\ "channels" \in Tables /\ "overrides" \in Tables /\ "invites" \in Tables
      /\ "bans" \in Tables /\ "messages" \in Tables /\ "recipients" \in Tables
  BY DEF Tables
<1>2. \A t \in {"users", "guilds", "roles", "channels", "messages", "attachments", "dms"} :
        \A r, s \in d[t] : r.id = s.id => r = s
  BY DEF Sound, Keyed, Unique, Same
<1>3. \A u, v \in d.users : u.name = v.name => u = v
  BY DEF Sound, Keyed, Unique, Same
<1>4. \A t \in Tables : \A r \in d[t] : Refers(d, t, r)
  BY DEF Sound
<1> QED BY <1>1, <1>2, <1>3, <1>4 DEF Consistent, Refers

LEMMA InitialIsSound ==
  ASSUME NEW d, NEW ids, Initial(d, ids)
  PROVE  Sound(d)
<1>1. ASSUME NEW t \in Keyed PROVE Unique(t, d[t])
  BY <1>1 DEF Initial, Consistent, Keyed, Unique, Same
<1>2. ASSUME NEW t \in Tables, NEW r \in d[t] PROVE Refers(d, t, r)
  <2>1. /\ t = "roles" => IsRole(r)
        /\ t = "invites" => IsInvite(r)
        /\ t = "messages" => IsMessage(r) /\ r.id \in Nat \ {0}
    BY <1>2 DEF Initial
  <2> QED BY <1>2, <2>1 DEF Initial, Consistent, Refers
<1> QED BY <1>1, <1>2 DEF Sound, Initial

\* A row's references still hold when nothing they name is gone.
LEMMA StillRefers ==
  ASSUME NEW d, NEW e, NEW t, NEW r, Refers(d, t, r),
         \A x \in {"users", "guilds", "roles", "channels", "dms"} : IdsIn(d, x) \subseteq IdsIn(e, x),
         d.members \subseteq e.members
  PROVE  Refers(e, t, r)
  BY DEF Refers
-----------------------------------------------------------------------------
(***************************************************************************)
(* The three kinds of statements.                                          *)
(***************************************************************************)
\* A sound database after a statement; no statement deletes users.
Fine(d) == Sound(d) /\ db.users \subseteq d.users

LEMMA InsertKeeps ==
  ASSUME Sound(db), NEW t \in Tables, NEW row, NEW ok, Refers(db, t, row),
         t \in Keyed => \A r \in db[t] : ~Same(t, r, row)
  PROVE  Fine(Insert(t, row, ok).db)
<1> DEFINE d == Insert(t, row, ok).db
<1>1. Only(d, {t}) /\ d[t] = db[t] \cup {row}
  BY DEF Only, Sound, IsDatabase, Insert, Statement
<1> HIDE DEF d
<1>2. \A x \in Tables : db[x] \subseteq d[x]
  BY <1>1 DEF Only
<1>3. /\ \A x \in {"users", "guilds", "roles", "channels", "dms"} : IdsIn(db, x) \subseteq IdsIn(d, x)
      /\ db.members \subseteq d.members
  BY <1>2 DEF IdsIn, Tables
<1>4. ASSUME NEW x \in Tables, NEW r \in d[x] PROVE Refers(d, x, r)
  <2>1. CASE x = t /\ r = row
    BY <1>3, <2>1, StillRefers
  <2>2. CASE r \in db[x]
    <3>1. Refers(db, x, r)
      BY <2>2 DEF Sound
    <3> QED BY <1>3, <3>1, StillRefers
  <2> QED BY <1>1, <2>1, <2>2 DEF Only
<1>5. ASSUME NEW x \in Keyed PROVE Unique(x, d[x])
  <2>1. Unique(x, db[x]) /\ x \in Tables
    BY DEF Sound, Keyed, Tables
  <2>2. CASE x = t
    BY <1>1, <2>1, <2>2 DEF Unique, Same
  <2>3. CASE x # t
    BY <1>1, <2>1, <2>3 DEF Only
  <2> QED BY <2>2, <2>3
<1> QED BY <1>1, <1>2, <1>4, <1>5 DEF Sound, Fine, Only, Tables, d

\* A table that no other refers to loses rows.
Leaves == {"memberRoles", "invites", "bans", "overrides", "reactions", "voice", "recipients",
           "tokens", "attachments", "readStates", "objects", "messages"}

LEMMA ReplaceKeeps ==
  ASSUME Sound(db), NEW t \in Tables \ {"members", "users"}, NEW rows,
         t \in Keyed => Unique(t, rows),
         t \notin Leaves => {r.id : r \in db[t]} \subseteq {r.id : r \in rows},
         \A r \in rows : Refers(db, t, r)
  PROVE  Fine([db EXCEPT ![t] = rows])
<1> DEFINE d == [db EXCEPT ![t] = rows]
<1>1. Only(d, {t}) /\ d[t] = rows
  BY DEF Only, Sound, IsDatabase
<1> HIDE DEF d
<1>2. \A x \in {"users", "guilds", "roles", "channels", "dms"} : IdsIn(db, x) \subseteq IdsIn(d, x)
  <2> SUFFICES ASSUME NEW x \in {"users", "guilds", "roles", "channels", "dms"}
               PROVE  IdsIn(db, x) \subseteq IdsIn(d, x)
    OBVIOUS
  <2>1. x \notin Leaves /\ x \in Tables
    BY DEF Leaves, Tables
  <2>2. CASE x = t
    BY <1>1, <2>1, <2>2 DEF IdsIn
  <2>3. CASE x # t
    BY <1>1, <2>1, <2>3 DEF IdsIn, Only
  <2> QED BY <2>2, <2>3
<1>3. d.members = db.members /\ d.users = db.users
  BY <1>1 DEF Only, Tables
<1>4. ASSUME NEW x \in Tables, NEW r \in d[x] PROVE Refers(d, x, r)
  <2>1. CASE x = t
    <3>1. Refers(db, t, r)
      BY <1>1, <2>1
    <3> QED BY <1>2, <1>3, <2>1, <3>1, StillRefers
  <2>2. CASE x # t
    <3>1. Refers(db, x, r)
      BY <1>1, <2>2 DEF Only, Sound
    <3> QED BY <1>2, <1>3, <3>1, StillRefers
  <2> QED BY <2>1, <2>2
<1>5. ASSUME NEW x \in Keyed PROVE Unique(x, d[x])
  <2>1. Unique(x, db[x]) /\ x \in Tables
    BY DEF Sound, Keyed, Tables
  <2> QED BY <1>1, <2>1 DEF Only
<1> QED BY <1>1, <1>3, <1>4, <1>5 DEF Sound, Fine, Only, d

\* Rows leave some tables, and with them those that refer to them.
LEMMA ShrinkKeeps ==
  ASSUME Sound(db), NEW d, IsDatabase(d), \A x \in Tables : d[x] \subseteq db[x], d.users = db.users,
         \A x \in Tables : \A r \in d[x] : Refers(d, x, r)
  PROVE  Fine(d)
<1>1. ASSUME NEW x \in Keyed PROVE Unique(x, d[x])
  <2>1. Unique(x, db[x]) /\ x \in Tables
    BY DEF Sound, Keyed, Tables
  <2> QED BY <2>1 DEF Unique
<1> QED BY <1>1 DEF Sound, Fine

LEMMA DeleteKeeps ==
  ASSUME Sound(db), NEW t \in Leaves, NEW rows
  PROVE  Fine(Delete(t, rows).db)
<1> DEFINE d == Delete(t, rows).db
<1>1. Only(d, {t}) /\ d[t] = db[t] \ rows /\ t \in Tables
  BY DEF Only, Sound, IsDatabase, Delete, Statement, Leaves, Tables
<1> HIDE DEF d
<1>2. \A x \in {"users", "guilds", "roles", "channels", "dms", "members"} : d[x] = db[x]
  BY <1>1 DEF Only, Tables, Leaves
<1>3. \A x \in {"users", "guilds", "roles", "channels", "dms"} : IdsIn(db, x) \subseteq IdsIn(d, x)
  BY <1>2 DEF IdsIn
<1>4. \A x \in Tables : d[x] \subseteq db[x]
  BY <1>1 DEF Only
<1>5. ASSUME NEW x \in Tables, NEW r \in d[x] PROVE Refers(d, x, r)
  <2>1. Refers(db, x, r)
    BY <1>4 DEF Sound
  <2> QED BY <1>2, <1>3, <2>1, StillRefers
<1>6. IsDatabase(d)
  BY <1>1 DEF Only
<1> QED BY <1>2, <1>4, <1>5, <1>6, ShrinkKeeps DEF d
-----------------------------------------------------------------------------
(***************************************************************************)
(* Each statement that is admitted keeps the database consistent.          *)
(***************************************************************************)
LEMMA SoundInserts ==
  ASSUME Sound(db)
  PROVE  /\ \A u, name : InsertUser(u, name).ok => Fine(InsertUser(u, name).db)
         /\ \A g, u : InsertGuild(g, u).ok => Fine(InsertGuild(g, u).db)
         /\ \A g, u : InsertMember(g, u).ok => Fine(InsertMember(g, u).db)
         /\ \A g, u, r : AddMemberRole(g, u, r).ok => Fine(AddMemberRole(g, u, r).db)
         /\ \A row : IsRole(row) /\ InsertRole(row).ok => Fine(InsertRole(row).db)
         /\ \A row : IsInvite(row) /\ InsertInvite(row).ok => Fine(InsertInvite(row).db)
         /\ \A g, u : InsertBan(g, u).ok => Fine(InsertBan(g, u).db)
         /\ \A row : InsertChannel(row).ok => Fine(InsertChannel(row).db)
         /\ \A row : IsMessage(row) /\ row.id \in Nat \ {0} /\ InsertMessage(row).ok => Fine(InsertMessage(row).db)
         /\ \A m, u : Fine(AddReactionRow(m, u).db)
         /\ \A id : Fine(PutObject(id).db)
         /\ \A k, u : Fine(StoreToken(k, u).db)
         /\ \A dm, u : AddRecipient(dm, u).ok => Fine(AddRecipient(dm, u).db)
<1> USE DEF HasUser, HasGuild, HasChannel, ById, IdsIn
<1>0. /\ \A t, row, ok : Insert(t, row, ok).ok = ok
      /\ Tables \subseteq Tables
  BY DEF Insert, Statement
<1>t. {"users", "guilds", "members", "memberRoles", "roles", "invites", "bans", "channels", "messages",
       "reactions", "objects", "tokens", "recipients"} \subseteq Tables
  BY DEF Tables
<1>1. ASSUME NEW u, NEW name, InsertUser(u, name).ok PROVE Fine(InsertUser(u, name).db)
  <2> DEFINE row == [id |-> u, name |-> name]
  <2>1. Refers(db, "users", row) /\ \A r \in db.users : ~Same("users", r, row)
    BY <1>0, <1>1 DEF InsertUser, UserByName, Same, Refers
  <2> QED BY <1>t, <2>1, InsertKeeps DEF InsertUser
<1>2. ASSUME NEW g, NEW u, InsertGuild(g, u).ok PROVE Fine(InsertGuild(g, u).db)
  <2> DEFINE row == [id |-> g, owner |-> u]
  <2>1. Refers(db, "guilds", row) /\ \A r \in db.guilds : ~Same("guilds", r, row)
    BY <1>0, <1>2 DEF Same, InsertGuild, Refers
  <2> QED BY <1>t, <2>1, InsertKeeps DEF InsertGuild
<1>3. ASSUME NEW g, NEW u, InsertMember(g, u).ok PROVE Fine(InsertMember(g, u).db)
  <2> DEFINE row == [guild |-> g, user |-> u]
  <2>1. Refers(db, "members", row) /\ "members" \notin Keyed
    BY <1>0, <1>3 DEF InsertMember, Refers, Keyed
  <2> QED BY <1>t, <2>1, InsertKeeps DEF InsertMember
<1>4. ASSUME NEW g, NEW u, NEW role, AddMemberRole(g, u, role).ok PROVE Fine(AddMemberRole(g, u, role).db)
  <2> DEFINE row == [guild |-> g, user |-> u, role |-> role]
  <2>1. Refers(db, "memberRoles", row) /\ "memberRoles" \notin Keyed
    BY <1>0, <1>4 DEF AddMemberRole, IsMember, Refers, Keyed
  <2> QED BY <1>t, <2>1, InsertKeeps DEF AddMemberRole
<1>5. ASSUME NEW row, IsRole(row), InsertRole(row).ok PROVE Fine(InsertRole(row).db)
  <2>1. Refers(db, "roles", row) /\ \A r \in db.roles : ~Same("roles", r, row)
    BY <1>0, <1>5 DEF Same, InsertRole, Refers
  <2> QED BY <1>t, <2>1, InsertKeeps DEF InsertRole
<1>6. ASSUME NEW row, IsInvite(row), InsertInvite(row).ok PROVE Fine(InsertInvite(row).db)
  <2>1. Refers(db, "invites", row) /\ "invites" \notin Keyed
    BY <1>0, <1>6 DEF InsertInvite, Refers, Keyed
  <2> QED BY <1>t, <2>1, InsertKeeps DEF InsertInvite
<1>7. ASSUME NEW g, NEW u, InsertBan(g, u).ok PROVE Fine(InsertBan(g, u).db)
  <2> DEFINE row == [guild |-> g, user |-> u]
  <2>1. Refers(db, "bans", row) /\ "bans" \notin Keyed
    BY <1>0, <1>7 DEF InsertBan, Refers, Keyed
  <2> QED BY <1>t, <2>1, InsertKeeps DEF InsertBan
<1>8. ASSUME NEW row, InsertChannel(row).ok PROVE Fine(InsertChannel(row).db)
  <2>1. Refers(db, "channels", row) /\ \A r \in db.channels : ~Same("channels", r, row)
    BY <1>0, <1>8 DEF Same, InsertChannel, ChannelAdmitted, Refers
  <2> QED BY <1>t, <2>1, InsertKeeps DEF InsertChannel
<1>9. ASSUME NEW row, IsMessage(row), row.id \in Nat \ {0}, InsertMessage(row).ok PROVE Fine(InsertMessage(row).db)
  <2>1. Refers(db, "messages", row) /\ \A r \in db.messages : ~Same("messages", r, row)
    BY <1>0, <1>9 DEF Same, InsertMessage, Refers
  <2> QED BY <1>t, <2>1, InsertKeeps DEF InsertMessage
<1>10. ASSUME NEW m, NEW u PROVE Fine(AddReactionRow(m, u).db)
  <2>1. \A row : Refers(db, "reactions", row) /\ "reactions" \notin Keyed
    BY DEF Refers, Keyed
  <2> QED BY <1>t, <2>1, InsertKeeps DEF AddReactionRow
<1>11. ASSUME NEW id PROVE Fine(PutObject(id).db)
  <2>1. Refers(db, "objects", id) /\ "objects" \notin Keyed
    BY DEF Refers, Keyed
  <2> QED BY <1>t, <2>1, InsertKeeps DEF PutObject
<1>12. ASSUME NEW k, NEW u PROVE Fine(StoreToken(k, u).db)
  <2>1. \A row : Refers(db, "tokens", row) /\ "tokens" \notin Keyed
    BY DEF Refers, Keyed
  <2> QED BY <1>t, <2>1, InsertKeeps DEF StoreToken
<1>13. ASSUME NEW dm, NEW u, AddRecipient(dm, u).ok PROVE Fine(AddRecipient(dm, u).db)
  <2> DEFINE row == [channel |-> dm, user |-> u]
  <2>1. Refers(db, "recipients", row) /\ "recipients" \notin Keyed
    BY <1>0, <1>13 DEF AddRecipient, Refers, Keyed
  <2> QED BY <1>t, <2>1, InsertKeeps DEF AddRecipient
<1> QED BY <1>1, <1>2, <1>3, <1>4, <1>5, <1>6, <1>7, <1>8, <1>9, <1>10, <1>11, <1>12, <1>13
LEMMA SoundUpdates ==
  ASSUME Sound(db)
  PROVE  /\ \A row : row.owner \in IdsIn(db, "users") => Fine(UpdateGuildRow(row).db)
         /\ \A row : IsRole(row) => Fine(UpdateRoleRow(row).db)
         /\ \A code : Fine(IncrementUses(code).db)
         /\ \A row : UpdateChannelRow(row).ok => Fine(UpdateChannelRow(row).db)
         /\ \A row : SetOverride(row).ok => Fine(SetOverride(row).db)
         /\ \A id : Fine(UpdateMessageRow(id).db)
         /\ \A u, channel, message : Fine(UpsertReadState(u, channel, message).db)
         /\ \A g, u, channel : Fine(UpsertVoice(g, u, channel).db)
<1>0. \A t \in Tables : \A r \in db[t] : Refers(db, t, r)
  BY DEF Sound
<1>k. \A t \in Keyed : Unique(t, db[t])
  BY DEF Sound
<1>t. /\ \A t \in {"guilds", "roles", "channels", "overrides", "invites", "messages", "readStates", "voice"} :
           t \in Tables \ {"members", "users"}
      /\ \A t \in {"invites", "messages", "readStates", "voice", "overrides"} : t \in Leaves
      /\ \A t \in {"invites", "readStates", "voice", "overrides"} : t \notin Keyed
      /\ \A t \in {"guilds", "roles", "channels", "messages"} : t \in Keyed
  BY DEF Tables, Leaves, Keyed
<1>1. ASSUME NEW row, row.owner \in IdsIn(db, "users") PROVE Fine(UpdateGuildRow(row).db)
  <2> DEFINE rows == {IF r.id = row.id THEN row ELSE r : r \in db.guilds}
  <2>1. \A r \in rows : Refers(db, "guilds", r)
    BY <1>0, <1>1, <1>t DEF Refers
  <2>2. Unique("guilds", rows)
    BY <1>k, <1>t DEF Unique, Same
  <2>3. {r.id : r \in db.guilds} \subseteq {r.id : r \in rows}
    OBVIOUS
  <2>4. UpdateGuildRow(row).db = [db EXCEPT !.guilds = rows]
    BY DEF UpdateGuildRow, Statement
  <2> HIDE DEF rows
  <2> QED BY <1>t, <2>1, <2>2, <2>3, <2>4, ReplaceKeeps
<1>2. ASSUME NEW row, IsRole(row) PROVE Fine(UpdateRoleRow(row).db)
  <2> DEFINE new(r) == IF r.id = row.id THEN [row EXCEPT !.guild = r.guild] ELSE r
             rows == {new(r) : r \in db.roles}
  <2>0. ASSUME NEW r \in db.roles
        PROVE  IsRole(new(r)) /\ new(r).id = r.id /\ new(r).guild = r.guild
    <3>1. IsRole(r)
      BY <1>0, <1>t DEF Refers
    <3> QED BY <1>2, <3>1 DEF IsRole
  <2>4. UpdateRoleRow(row).db = [db EXCEPT !.roles = rows]
    BY DEF UpdateRoleRow, Statement
  <2> HIDE DEF new
  <2>1. ASSUME NEW x \in rows PROVE Refers(db, "roles", x)
    <3>1. PICK r \in db.roles : x = new(r)
      OBVIOUS
    <3>2. Refers(db, "roles", r)
      BY <1>0, <1>t
    <3> QED BY <2>0, <3>1, <3>2 DEF Refers
  <2>2. Unique("roles", rows)
    BY <1>k, <1>t, <2>0 DEF Unique, Same
  <2>3. {r.id : r \in db.roles} \subseteq {r.id : r \in rows}
    BY <2>0
  <2> HIDE DEF rows
  <2> QED BY <1>t, <2>1, <2>2, <2>3, <2>4, ReplaceKeeps
<1>3. ASSUME NEW code PROVE Fine(IncrementUses(code).db)
  <2> DEFINE rows == {Incremented(i, code) : i \in db.invites}
  <2>1. ASSUME NEW x \in rows PROVE Refers(db, "invites", x)
    <3>1. PICK i \in db.invites : x = Incremented(i, code)
      OBVIOUS
    <3>2. Refers(db, "invites", i)
      BY <1>0, <1>t
    <3>3. IsInvite(i)
      BY <3>2 DEF Refers
    <3>4. IsInvite(Incremented(i, code)) /\ Incremented(i, code).guild = i.guild
      BY <3>3 DEF Incremented, IsInvite
    <3> QED BY <3>1, <3>2, <3>4 DEF Refers
  <2>4. IncrementUses(code).db = [db EXCEPT !.invites = rows]
    BY DEF IncrementUses, Statement, Incremented
  <2> HIDE DEF rows
  <2>5. "invites" \in Tables \ {"members", "users"} /\ "invites" \in Leaves /\ "invites" \notin Keyed
    BY <1>t
  <2>6. Fine([db EXCEPT !["invites"] = rows])
    BY <2>1, <2>5, ReplaceKeeps
  <2> QED BY <2>4, <2>6
<1>4. ASSUME NEW row, UpdateChannelRow(row).ok PROVE Fine(UpdateChannelRow(row).db)
  <2> DEFINE rows == {IF c.id = row.id THEN row ELSE c : c \in db.channels}
  <2>0. (\E c \in db.channels : c.id = row.id) => Refers(db, "channels", row)
    BY <1>4 DEF UpdateChannelRow, Statement, ChannelAdmitted, HasChannel, HasGuild, ById, Refers, IdsIn
  <2>1. \A r \in rows : Refers(db, "channels", r)
    BY <1>0, <1>t, <2>0
  <2>2. Unique("channels", rows)
    BY <1>k, <1>t DEF Unique, Same
  <2>3. {r.id : r \in db.channels} \subseteq {r.id : r \in rows}
    OBVIOUS
  <2>4. UpdateChannelRow(row).db = [db EXCEPT !.channels = rows]
    BY DEF UpdateChannelRow, Statement
  <2> HIDE DEF rows
  <2> QED BY <1>t, <2>1, <2>2, <2>3, <2>4, ReplaceKeeps
<1>5. ASSUME NEW row, SetOverride(row).ok PROVE Fine(SetOverride(row).db)
  <2> DEFINE rows == {o \in db.overrides : o.channel # row.channel \/ o.role # row.role} \cup {row}
  <2>0. Refers(db, "overrides", row)
    BY <1>5 DEF SetOverride, Statement, HasChannel, ById, Refers, IdsIn
  <2>1. \A r \in rows : Refers(db, "overrides", r)
    BY <1>0, <1>t, <2>0
  <2>4. SetOverride(row).db = [db EXCEPT !.overrides = rows]
    BY DEF SetOverride, Statement
  <2> HIDE DEF rows
  <2> QED BY <1>t, <2>1, <2>4, ReplaceKeeps
<1>6. ASSUME NEW id PROVE Fine(UpdateMessageRow(id).db)
  <2> DEFINE new(m) == IF m.id = id THEN [m EXCEPT !.edited = TRUE] ELSE m
             rows == {new(m) : m \in db.messages}
  <2>0. ASSUME NEW m \in db.messages
        PROVE  IsMessage(new(m)) /\ new(m).id = m.id /\ new(m).channel = m.channel /\ new(m).author = m.author
    <3>1. IsMessage(m)
      BY <1>0, <1>t DEF Refers
    <3> QED BY <3>1 DEF IsMessage
  <2>4. UpdateMessageRow(id).db = [db EXCEPT !.messages = rows]
    BY DEF UpdateMessageRow, Statement
  <2> HIDE DEF new
  <2>1. ASSUME NEW x \in rows PROVE Refers(db, "messages", x)
    <3>1. PICK m \in db.messages : x = new(m)
      OBVIOUS
    <3>2. Refers(db, "messages", m)
      BY <1>0, <1>t
    <3> QED BY <2>0, <3>1, <3>2 DEF Refers
  <2>2. Unique("messages", rows)
    BY <1>k, <1>t, <2>0 DEF Unique, Same
  <2> HIDE DEF rows
  <2> QED BY <1>t, <2>1, <2>2, <2>4, ReplaceKeeps
<1>7. ASSUME NEW u, NEW channel, NEW message PROVE Fine(UpsertReadState(u, channel, message).db)
  <2>1. \A r : Refers(db, "readStates", r)
    BY DEF Refers
  <2> QED BY <1>t, <2>1, ReplaceKeeps DEF UpsertReadState, Statement
<1>8. ASSUME NEW g, NEW u, NEW channel PROVE Fine(UpsertVoice(g, u, channel).db)
  <2>1. \A r : Refers(db, "voice", r)
    BY DEF Refers
  <2> QED BY <1>t, <2>1, ReplaceKeeps DEF UpsertVoice, Statement
<1> QED BY <1>1, <1>2, <1>3, <1>4, <1>5, <1>6, <1>7, <1>8
-----------------------------------------------------------------------------
\* What the cascades do to the tables that lose rows.
LEMMA CascadeRows ==
  ASSUME NEW d, IsDatabase(d), NEW gone
  PROVE  /\ WithoutMembers(d, gone).members = d.members \ gone
         /\ WithoutMembers(d, gone).memberRoles
              = {r \in d.memberRoles : [guild |-> r.guild, user |-> r.user] \notin gone}
         /\ WithoutRoles(d, gone).roles = d.roles \ gone
         /\ WithoutRoles(d, gone).memberRoles = {r \in d.memberRoles : \A x \in gone : x.id # r.role}
         /\ WithoutRoles(d, gone).overrides = {o \in d.overrides : \A x \in gone : x.id # o.role}
         /\ WithoutChannels(d, gone).channels = d.channels \ gone
         /\ WithoutChannels(d, gone).overrides = {o \in d.overrides : \A c \in gone : c.id # o.channel}
         /\ WithoutChannels(d, gone).messages = {m \in d.messages : \A c \in gone : c.id # m.channel}
         /\ WithoutChannels(d, gone).attachments \subseteq d.attachments
<1> USE DEF IsDatabase, Tables
<1>1. /\ WithoutMembers(d, gone).members = d.members \ gone
      /\ WithoutMembers(d, gone).memberRoles
           = {r \in d.memberRoles : [guild |-> r.guild, user |-> r.user] \notin gone}
  BY DEF WithoutMembers
<1>2. /\ WithoutRoles(d, gone).roles = d.roles \ gone
      /\ WithoutRoles(d, gone).memberRoles = {r \in d.memberRoles : \A x \in gone : x.id # r.role}
      /\ WithoutRoles(d, gone).overrides = {o \in d.overrides : \A x \in gone : x.id # o.role}
  BY DEF WithoutRoles
<1>3. /\ WithoutChannels(d, gone).channels = d.channels \ gone
      /\ WithoutChannels(d, gone).overrides = {o \in d.overrides : \A c \in gone : c.id # o.channel}
      /\ WithoutChannels(d, gone).messages = {m \in d.messages : \A c \in gone : c.id # m.channel}
      /\ WithoutChannels(d, gone).attachments \subseteq d.attachments
  BY DEF WithoutChannels, WithoutMessages
<1> QED BY <1>1, <1>2, <1>3

\* What goes with a guild: its rows and the rows that refer to them.
LEMMA GuildGone ==
  ASSUME IsDatabase(db), NEW g, NEW d, d = DeleteGuildRow(g).db
  PROVE  /\ IsDatabase(d)
         /\ \A x \in {"users", "reactions", "readStates", "dms", "recipients", "voice", "tokens", "objects"} :
              d[x] = db[x]
         /\ d.guilds = {r \in db.guilds : r.id # g}
         /\ d.invites = {i \in db.invites : i.guild # g}
         /\ d.bans = {b \in db.bans : b.guild # g}
         /\ d.channels = {c \in db.channels : c.guild # g}
         /\ d.roles = {r \in db.roles : r.guild # g}
         /\ d.members = {m \in db.members : m.guild # g}
         /\ d.memberRoles = {r \in db.memberRoles :
                               /\ [guild |-> r.guild, user |-> r.user] \notin {m \in db.members : m.guild = g}
                               /\ \A x \in db.roles : x.guild = g => x.id # r.role}
         /\ d.overrides = {o \in db.overrides :
                             /\ \A c \in db.channels : c.guild = g => c.id # o.channel
                             /\ \A x \in db.roles : x.guild = g => x.id # o.role}
         /\ d.messages = {m \in db.messages : \A c \in db.channels : c.guild = g => c.id # m.channel}
         /\ d.attachments \subseteq db.attachments
<1> DEFINE channels == {c \in db.channels : c.guild = g}
           members == {m \in db.members : m.guild = g}
           roles == {r \in db.roles : r.guild = g}
           one == WithoutChannels(db, channels)
           two == WithoutRoles(one, roles)
           rest == WithoutMembers(two, members)
<1>1. d = [rest EXCEPT !.guilds = {r \in @ : r.id # g},
                       !.invites = {i \in @ : i.guild # g},
                       !.bans = {b \in @ : b.guild # g}]
  BY DEF DeleteGuildRow, Statement
<1>a. channels \subseteq db.channels /\ members \subseteq db.members /\ roles \subseteq db.roles
  OBVIOUS
<1>2. /\ IsDatabase(one)
      /\ \A x \in Tables \ {"channels", "overrides", "messages", "attachments"} : one[x] = db[x]
      /\ one.channels = db.channels \ channels
      /\ one.overrides = {o \in db.overrides : \A c \in channels : c.id # o.channel}
      /\ one.messages = {m \in db.messages : \A c \in channels : c.id # m.channel}
      /\ one.attachments \subseteq db.attachments
  <2> HIDE DEF channels
  <2> QED BY CascadesKeep, CascadeRows
<1>3. /\ IsDatabase(two)
      /\ \A x \in Tables \ {"roles", "memberRoles", "overrides"} : two[x] = one[x]
      /\ two.roles = one.roles \ roles
      /\ two.memberRoles = {r \in one.memberRoles : \A x \in roles : x.id # r.role}
      /\ two.overrides = {o \in one.overrides : \A x \in roles : x.id # o.role}
  <2> HIDE DEF roles, one
  <2> QED BY <1>2, CascadesKeep, CascadeRows
<1>4. /\ IsDatabase(rest)
      /\ \A x \in Tables \ {"members", "memberRoles"} : rest[x] = two[x]
      /\ rest.members = two.members \ members
      /\ rest.memberRoles = {r \in two.memberRoles : [guild |-> r.guild, user |-> r.user] \notin members}
  <2> HIDE DEF members, two
  <2> QED BY <1>3, CascadesKeep, CascadeRows
<1> HIDE DEF rest, two, one
<1>5. /\ IsDatabase(d)
      /\ \A x \in Tables \ {"guilds", "invites", "bans"} : d[x] = rest[x]
      /\ d.guilds = {r \in rest.guilds : r.id # g}
      /\ d.invites = {i \in rest.invites : i.guild # g}
      /\ d.bans = {b \in rest.bans : b.guild # g}
  BY <1>1, <1>4 DEF IsDatabase, Tables
<1>6. /\ \A x \in {"users", "reactions", "readStates", "dms", "recipients", "voice", "tokens", "objects"} :
           d[x] = db[x]
      /\ \A x \in {"guilds", "invites", "bans"} : rest[x] = db[x]
      /\ one.roles = db.roles /\ one.memberRoles = db.memberRoles /\ two.members = db.members
  BY <1>2, <1>3, <1>4, <1>5 DEF Tables
<1>7. /\ d.channels = one.channels /\ d.messages = one.messages /\ d.attachments = one.attachments
      /\ d.roles = two.roles /\ d.overrides = two.overrides
      /\ d.members = rest.members /\ d.memberRoles = rest.memberRoles
  BY <1>2, <1>3, <1>4, <1>5 DEF Tables
<1>8. /\ d.channels = {c \in db.channels : c.guild # g}
      /\ d.messages = {m \in db.messages : \A c \in db.channels : c.guild = g => c.id # m.channel}
      /\ d.attachments \subseteq db.attachments
  BY <1>2, <1>7
<1>9. /\ d.roles = {r \in db.roles : r.guild # g}
      /\ d.members = {m \in db.members : m.guild # g}
  BY <1>3, <1>4, <1>6, <1>7
<1>10. d.overrides = {o \in db.overrides :
                             /\ \A c \in db.channels : c.guild = g => c.id # o.channel
                             /\ \A x \in db.roles : x.guild = g => x.id # o.role}
  BY <1>2, <1>3, <1>7
<1>11. d.memberRoles = {r \in db.memberRoles :
                               /\ [guild |-> r.guild, user |-> r.user] \notin {m \in db.members : m.guild = g}
                               /\ \A x \in db.roles : x.guild = g => x.id # r.role}
  BY <1>3, <1>4, <1>6, <1>7
<1>12. /\ d.guilds = {r \in db.guilds : r.id # g}
       /\ d.invites = {i \in db.invites : i.guild # g}
       /\ d.bans = {b \in db.bans : b.guild # g}
  BY <1>5, <1>6
<1> QED BY <1>5, <1>6, <1>8, <1>9, <1>10, <1>11, <1>12
\* A statement that only deletes, from the tables it leaves rows in.
LEMMA RestRefers ==
  ASSUME Sound(db), NEW d, \A x \in Tables : d[x] \subseteq db[x],
         NEW t \in Tables, NEW r \in d[t]
  PROVE  Refers(db, t, r)
BY DEF Sound

LEMMA SoundDeletes ==
  ASSUME Sound(db)
  PROVE  /\ \A g, u : Fine(DeleteMember(g, u).db)
         /\ \A role : Fine(DeleteRoleRow(role).db)
         /\ \A c : DeleteChannelRow(c).ok => Fine(DeleteChannelRow(c).db)
         /\ \A id : Fine(DeleteMessageRow(id).db)
         /\ \A g : DeleteGuildRow(g).ok => Fine(DeleteGuildRow(g).db)
<1>0. IsDatabase(db)
  BY DEF Sound
<1>1. ASSUME NEW g, NEW u PROVE Fine(DeleteMember(g, u).db)
  <2> DEFINE gone == {[guild |-> g, user |-> u]}
             d == WithoutMembers(db, gone)
  <2>1. /\ IsDatabase(d) /\ \A x \in Tables \ {"members", "memberRoles"} : d[x] = db[x]
        /\ d.members = db.members \ gone
        /\ d.memberRoles = {r \in db.memberRoles : [guild |-> r.guild, user |-> r.user] \notin gone}
    <3> HIDE DEF gone
    <3> QED BY <1>0, CascadesKeep, CascadeRows
  <2> HIDE DEF d, gone
  <2>2. (\A x \in Tables : d[x] \subseteq db[x]) /\ d.users = db.users
    BY <2>1 DEF Tables
  <2>3. ASSUME NEW t \in Tables, NEW r \in d[t] PROVE Refers(d, t, r)
    <3>1. Refers(db, t, r)
      BY <2>2, RestRefers
    <3>2. t = "memberRoles" => [guild |-> r.guild, user |-> r.user] \in d.members
      BY <2>1, <2>3, <3>1 DEF Refers
    <3>3. \A x \in {"users", "guilds", "roles", "channels", "dms"} : IdsIn(d, x) = IdsIn(db, x)
      BY <2>1 DEF IdsIn, Tables
    <3> QED BY <3>1, <3>2, <3>3 DEF Refers
  <2>4. Fine(d)
    BY <2>1, <2>2, <2>3, ShrinkKeeps
  <2> QED BY <2>4 DEF DeleteMember, Statement, d, gone
<1>2. ASSUME NEW role PROVE Fine(DeleteRoleRow(role).db)
  <2> DEFINE gone == ById("roles", role)
             d == WithoutRoles(db, gone)
  <2>1. /\ IsDatabase(d) /\ \A x \in Tables \ {"roles", "memberRoles", "overrides"} : d[x] = db[x]
        /\ d.roles = db.roles \ gone
        /\ d.memberRoles = {r \in db.memberRoles : \A x \in gone : x.id # r.role}
        /\ d.overrides = {o \in db.overrides : \A x \in gone : x.id # o.role}
    <3> HIDE DEF gone
    <3> QED BY <1>0, CascadesKeep, CascadeRows
  <2> HIDE DEF d, gone
  <2>2. (\A x \in Tables : d[x] \subseteq db[x]) /\ d.users = db.users
    BY <2>1 DEF Tables
  <2>3. ASSUME NEW t \in Tables, NEW r \in d[t] PROVE Refers(d, t, r)
    <3>1. Refers(db, t, r)
      BY <2>2, RestRefers
    <3>2. t \in {"memberRoles", "overrides"} => r.role \in IdsIn(d, "roles")
      BY <2>1, <2>3, <3>1 DEF Refers, IdsIn
    <3>3. (\A x \in {"users", "guilds", "channels", "dms"} : IdsIn(d, x) = IdsIn(db, x)) /\ d.members = db.members
      BY <2>1 DEF IdsIn, Tables
    <3> QED BY <3>1, <3>2, <3>3 DEF Refers
  <2>4. Fine(d)
    BY <2>1, <2>2, <2>3, ShrinkKeeps
  <2> QED BY <2>4 DEF DeleteRoleRow, Statement, d, gone
<1>3. ASSUME NEW c, DeleteChannelRow(c).ok PROVE Fine(DeleteChannelRow(c).db)
  <2> DEFINE gone == ById("channels", c)
             d == WithoutChannels(db, gone)
  <2>1. /\ IsDatabase(d)
        /\ \A x \in Tables \ {"channels", "overrides", "messages", "attachments"} : d[x] = db[x]
        /\ d.channels = db.channels \ gone
        /\ d.overrides = {o \in db.overrides : \A x \in gone : x.id # o.channel}
        /\ d.messages = {m \in db.messages : \A x \in gone : x.id # m.channel}
        /\ d.attachments \subseteq db.attachments
    <3> HIDE DEF gone
    <3> QED BY <1>0, CascadesKeep, CascadeRows
  <2>a. \A x \in db.channels \ gone : \A p \in gone : x.parent # p.id
    BY <1>3 DEF DeleteChannelRow, Statement, Childless
  <2> HIDE DEF d, gone
  <2>2. (\A x \in Tables : d[x] \subseteq db[x]) /\ d.users = db.users
    BY <2>1 DEF Tables
  <2>3. ASSUME NEW t \in Tables, NEW r \in d[t] PROVE Refers(d, t, r)
    <3>1. Refers(db, t, r)
      BY <2>2, RestRefers
    <3>2. t \in {"overrides", "messages"} => r.channel \in IdsIn(d, "channels")
      BY <2>1, <2>3, <3>1 DEF Refers, IdsIn
    <3>3. t = "channels" => r.parent \in IdsIn(d, "channels") \cup {0}
      BY <2>1, <2>3, <2>a, <3>1 DEF Refers, IdsIn
    <3>4. (\A x \in {"users", "guilds", "roles", "dms"} : IdsIn(d, x) = IdsIn(db, x)) /\ d.members = db.members
      BY <2>1 DEF IdsIn, Tables
    <3> QED BY <3>1, <3>2, <3>3, <3>4 DEF Refers
  <2>4. Fine(d)
    BY <2>1, <2>2, <2>3, ShrinkKeeps
  <2> QED BY <2>4 DEF DeleteChannelRow, Statement, d, gone
<1>4. ASSUME NEW id PROVE Fine(DeleteMessageRow(id).db)
  <2> DEFINE gone == ById("messages", id)
             d == WithoutMessages(db, gone)
  <2>1. /\ IsDatabase(d) /\ \A x \in Tables \ {"messages", "attachments"} : d[x] = db[x]
        /\ d.messages \subseteq db.messages /\ d.attachments \subseteq db.attachments
    <3> HIDE DEF gone
    <3> QED BY <1>0 DEF WithoutMessages, IsDatabase, Tables
  <2> HIDE DEF d, gone
  <2>2. (\A x \in Tables : d[x] \subseteq db[x]) /\ d.users = db.users
    BY <2>1 DEF Tables
  <2>3. ASSUME NEW t \in Tables, NEW r \in d[t] PROVE Refers(d, t, r)
    <3>1. Refers(db, t, r)
      BY <2>2, RestRefers
    <3>2. (\A x \in {"users", "guilds", "roles", "channels", "dms"} : IdsIn(d, x) = IdsIn(db, x))
          /\ d.members = db.members
      BY <2>1 DEF IdsIn, Tables
    <3> QED BY <3>1, <3>2 DEF Refers
  <2>4. Fine(d)
    BY <2>1, <2>2, <2>3, ShrinkKeeps
  <2> QED BY <2>4 DEF DeleteMessageRow, Statement, d, gone
<1>5. ASSUME NEW g, DeleteGuildRow(g).ok PROVE Fine(DeleteGuildRow(g).db)
  <2> DEFINE d == DeleteGuildRow(g).db
  <2>a. \A c \in db.channels : c.guild # g => \A p \in db.channels : p.guild = g => c.parent # p.id
    BY <1>5 DEF DeleteGuildRow, Statement, Childless
  <2> HIDE DEF d
  <2>1. /\ IsDatabase(d)
        /\ \A x \in {"users", "reactions", "readStates", "dms", "recipients", "voice", "tokens", "objects"} :
             d[x] = db[x]
        /\ d.guilds = {r \in db.guilds : r.id # g}
        /\ d.invites = {i \in db.invites : i.guild # g}
        /\ d.bans = {b \in db.bans : b.guild # g}
        /\ d.channels = {c \in db.channels : c.guild # g}
        /\ d.roles = {r \in db.roles : r.guild # g}
        /\ d.members = {m \in db.members : m.guild # g}
        /\ d.memberRoles = {r \in db.memberRoles :
                              /\ [guild |-> r.guild, user |-> r.user] \notin {m \in db.members : m.guild = g}
                              /\ \A x \in db.roles : x.guild = g => x.id # r.role}
        /\ d.overrides = {o \in db.overrides :
                            /\ \A c \in db.channels : c.guild = g => c.id # o.channel
                            /\ \A x \in db.roles : x.guild = g => x.id # o.role}
        /\ d.messages = {m \in db.messages : \A c \in db.channels : c.guild = g => c.id # m.channel}
        /\ d.attachments \subseteq db.attachments
    BY <1>0, GuildGone DEF d
  <2>2. \A x \in Tables : d[x] \subseteq db[x]
    BY <2>1 DEF Tables
  <2>3. ASSUME NEW t \in Tables, NEW r \in d[t] PROVE Refers(d, t, r)
    <3>1. Refers(db, t, r)
      BY <2>2, RestRefers
    <3>2. t \in {"members", "roles", "channels", "invites", "bans"} => r.guild \in IdsIn(d, "guilds")
      BY <2>1, <2>3, <3>1 DEF Refers, IdsIn
    <3>3. t \in {"overrides", "messages"} => r.channel \in IdsIn(d, "channels")
      BY <2>1, <2>3, <3>1 DEF Refers, IdsIn
    <3>4. t \in {"memberRoles", "overrides"} => r.role \in IdsIn(d, "roles")
      BY <2>1, <2>3, <3>1 DEF Refers, IdsIn
    <3>5. t = "memberRoles" => [guild |-> r.guild, user |-> r.user] \in d.members
      BY <2>1, <2>3, <3>1 DEF Refers
    <3>6. t = "channels" => r.parent \in IdsIn(d, "channels") \cup {0}
      BY <2>1, <2>3, <2>a, <3>1 DEF Refers, IdsIn
    <3>7. IdsIn(d, "users") = IdsIn(db, "users") /\ IdsIn(d, "dms") = IdsIn(db, "dms")
      BY <2>1 DEF IdsIn
    <3> QED BY <3>1, <3>2, <3>3, <3>4, <3>5, <3>6, <3>7 DEF Refers
  <2>4. Fine(d)
    BY <2>1, <2>2, <2>3, ShrinkKeeps
  <2> QED BY <2>4 DEF d
<1> QED BY <1>1, <1>2, <1>3, <1>4, <1>5

\* Rows of tables that no other refers to.
LEMMA SoundRemovals ==
  ASSUME Sound(db)
  PROVE  /\ \A g, u, r : Fine(RemoveMemberRole(g, u, r).db)
         /\ \A code : Fine(DeleteInvite(code).db)
         /\ \A g, u : Fine(DeleteBan(g, u).db)
         /\ \A c, r : Fine(DeleteOverride(c, r).db)
         /\ \A m, u : Fine(RemoveReactionRow(m, u).db)
         /\ \A g, u : Fine(DeleteVoice(g, u).db)
         /\ \A dm, u : Fine(RemoveRecipient(dm, u).db)
         /\ \A k : Fine(DeleteToken(k).db)
<1>1. \A t \in Leaves : \A rows : Fine(Delete(t, rows).db)
  BY DeleteKeeps
<1>2. {"memberRoles", "invites", "bans", "overrides", "reactions", "voice", "recipients", "tokens"} \subseteq Leaves
  BY DEF Leaves
<1> QED BY <1>1, <1>2 DEF RemoveMemberRole, DeleteInvite, DeleteBan, DeleteOverride, RemoveReactionRow,
                         DeleteVoice, RemoveRecipient, DeleteToken

\* A channel with its recipients; an attachment of message 0, which is never there.
LEMMA SoundOthers ==
  ASSUME Sound(db)
  PROVE  /\ \A row, users : InsertDM(row, users).ok => Fine(InsertDM(row, users).db)
         /\ \A id : ~InsertAttachment([id |-> id, message |-> 0]).ok
<1>1. ASSUME NEW row, NEW users, InsertDM(row, users).ok PROVE Fine(InsertDM(row, users).db)
  <2> DEFINE added == {[channel |-> row.id, user |-> u] : u \in users}
             d == InsertDM(row, users).db
  <2>0. (\A r \in db.dms : r.id # row.id) /\ \A u \in users : u \in IdsIn(db, "users")
    BY <1>1 DEF InsertDM, Statement, HasUser, ById, IdsIn
  <2>1. d = [db EXCEPT !.dms = @ \cup {row}, !.recipients = @ \cup added]
    BY DEF InsertDM, Statement
  <2>2. \A r \in added : r.channel = row.id /\ r.user \in IdsIn(db, "users")
    BY <2>0
  <2> HIDE DEF added, d
  <2>3. /\ IsDatabase(d) /\ \A x \in Tables \ {"dms", "recipients"} : d[x] = db[x]
        /\ d.dms = db.dms \cup {row} /\ d.recipients = db.recipients \cup added
    BY <2>1 DEF Sound, IsDatabase, Tables
  <2>4. /\ \A x \in {"users", "guilds", "roles", "channels", "dms"} : IdsIn(db, x) \subseteq IdsIn(d, x)
        /\ db.members = d.members /\ db.users = d.users /\ row.id \in IdsIn(d, "dms")
    BY <2>3 DEF IdsIn, Tables
  <2>5. ASSUME NEW t \in Tables, NEW r \in d[t] PROVE Refers(d, t, r)
    <3>1. CASE r \in db[t]
      <4>1. Refers(db, t, r)
        BY <3>1 DEF Sound
      <4> QED BY <2>4, <4>1, StillRefers
    <3>2. CASE t = "dms"
      BY <3>2 DEF Refers
    <3>3. CASE t = "recipients" /\ r \in added
      BY <2>2, <2>4, <3>3 DEF Refers
    <3> QED BY <2>3, <3>1, <3>2, <3>3
  <2>6. ASSUME NEW t \in Keyed PROVE Unique(t, d[t])
    <3>1. Unique(t, db[t]) /\ t \in Tables \ {"recipients"}
      BY DEF Sound, Keyed, Tables
    <3>2. CASE t = "dms"
      BY <2>0, <2>3, <3>1, <3>2 DEF Unique, Same
    <3>3. CASE t # "dms"
      BY <2>3, <3>1, <3>3
    <3> QED BY <3>2, <3>3
  <2>7. Fine(d)
    BY <2>3, <2>4, <2>5, <2>6 DEF Fine, Sound
  <2> QED BY <2>7 DEF d
<1>2. ASSUME NEW id PROVE ~InsertAttachment([id |-> id, message |-> 0]).ok
  <2>1. \A m \in db.messages : m.id # 0
    BY DEF Sound, Refers, Tables
  <2> QED BY <2>1 DEF InsertAttachment, Insert, Statement, ById
<1> QED BY <1>1, <1>2
-----------------------------------------------------------------------------
(***************************************************************************)
(* What a request carries into a later statement: the owner that           *)
(* UpdateGuild writes back is a user, the role that UpdateRole writes back *)
(* has the columns of one, a message has a new id.                         *)
(***************************************************************************)
Carried(call, at, row, d) ==
  /\ call.op = "UpdateGuild" /\ at = "write" => row.owner \in IdsIn(d, "users")
  /\ call.op = "UpdateRole" /\ at \in {"rank", "write"} => IsRole(row)
  /\ call.op = "SendMessage" /\ at = "insert" => row.id \in Nat \ {0}
  /\ call.op = "CreateInvite" => call.max \in Nat

StoreInv ==
  /\ TasksShape /\ lastId \in Nat
  /\ Sound(db)
  /\ \A t \in Tasks : Carried(task[t].call, task[t].at, task[t].row, db)

\* A step of a request that sends one admitted statement or none.
StoreMove(t) ==
  /\ db' = db \/ Fine(db')
  /\ Moves(t)
  /\ lastId' \in {lastId, lastId + 1}
  /\ Carried(task'[t].call, task'[t].at, task'[t].row, db')

LEMMA StoreMoves ==
  ASSUME StoreInv, NEW t \in Tasks, StoreMove(t)
  PROVE  StoreInv'
<1>1. Sound(db') /\ IdsIn(db, "users") \subseteq IdsIn(db', "users")
  BY DEF StoreInv, StoreMove, Fine, IdsIn
<1>2. \A u \in Tasks : Carried(task[u].call, task[u].at, task[u].row, db)
  BY DEF StoreInv
<1>3. \A u \in Tasks : Carried(task'[u].call, task'[u].at, task'[u].row, db')
  <2> SUFFICES ASSUME NEW u \in Tasks PROVE Carried(task'[u].call, task'[u].at, task'[u].row, db')
    OBVIOUS
  <2>1. CASE u = t
    BY <2>1 DEF StoreMove
  <2>2. CASE u # t
    BY <1>1, <1>2, <2>2 DEF StoreMove, Moves, Carried
  <2> QED BY <2>1, <2>2
<1>4. lastId' \in Nat /\ TasksShape'
  BY DEF StoreInv, StoreMove, Moves
<1> QED BY <1>1, <1>3, <1>4 DEF StoreInv
Watchful == {"UpdateGuild", "UpdateRole", "SendMessage", "CreateInvite"}

LEMMA Ordinary ==
  ASSUME NEW t \in Tasks, task[t].call.op \notin Watchful, Moves(t), lastId' \in {lastId, lastId + 1},
         db' = db \/ Fine(db')
  PROVE  StoreMove(t)
BY DEF StoreMove, Carried, Watchful, Moves, Free

\* Where a request is after a step, and with which row.
Comes(t, next, row) ==
  /\ Moves(t)
  /\ \/ task'[t] = Free
     \/ task'[t].call = task[t].call /\ task'[t].at = next /\ task'[t].row = row

LEMMA Coming ==
  ASSUME TasksShape, NEW t \in Tasks
  PROVE  /\ \A next : Go(t, next) => Comes(t, next, task[t].row)
         /\ \A next, row : Carry(t, next, row) => Comes(t, next, row)
         /\ Return(t) => Moves(t) /\ task'[t] = Free
<1> USE Moving DEF Comes, TasksShape
<1>1. \A next : Go(t, next) => Comes(t, next, task[t].row)
  BY DEF Go
<1>2. \A next, row : Carry(t, next, row) => Comes(t, next, row)
  BY DEF Carry
<1>3. Return(t) => Moves(t) /\ task'[t] = Free
  BY DEF Return
<1> QED BY <1>1, <1>2, <1>3

LEMMA StoreGuilds ==
  ASSUME StoreInv, NEW t \in Tasks, DeleteGuild(t) \/ AcceptInvite(t) \/ RevokeInvite(t) \/ KickMember(t) \/ LeaveGuild(t) \/ BanMember(t) \/ UnbanMember(t)
  PROVE  StoreMove(t)
<1> USE Ordinary, Moving DEF Calls, Require, Select, Execute, Create, NewId
<1>0. TasksShape /\ Sound(db)
  BY DEF StoreInv
<1>1. CASE DeleteGuild(t)
  BY <1>0, <1>1, SoundDeletes DEF DeleteGuild, Watchful
<1>2. CASE AcceptInvite(t)
  BY <1>0, <1>2, SoundInserts, SoundUpdates DEF AcceptInvite, Watchful
<1>3. CASE RevokeInvite(t)
  BY <1>0, <1>3, SoundRemovals DEF RevokeInvite, Watchful
<1>4. CASE KickMember(t)
  BY <1>0, <1>4, SoundDeletes DEF KickMember, Watchful
<1>5. CASE LeaveGuild(t)
  BY <1>0, <1>5, SoundDeletes DEF LeaveGuild, Watchful
<1>6. CASE BanMember(t)
  BY <1>0, <1>6, SoundInserts, SoundDeletes DEF BanMember, Watchful
<1>7. CASE UnbanMember(t)
  BY <1>0, <1>7, SoundRemovals DEF UnbanMember, Watchful
<1> QED BY <1>1, <1>2, <1>3, <1>4, <1>5, <1>6, <1>7

LEMMA StoreRoles ==
  ASSUME StoreInv, NEW t \in Tasks, DeleteRole(t) \/ AssignRole(t) \/ RemoveRole(t) \/ SetChannelOverride(t) \/ DeleteChannelOverride(t) \/ CreateChannel(t) \/ UpdateChannel(t) \/ DeleteChannel(t)
  PROVE  StoreMove(t)
<1> USE Ordinary, Moving DEF Calls, Require, Select, Execute, Create, NewId
<1>0. TasksShape /\ Sound(db)
  BY DEF StoreInv
<1>1. CASE DeleteRole(t)
  BY <1>0, <1>1, SoundDeletes DEF DeleteRole, Watchful
<1>2. CASE AssignRole(t)
  BY <1>0, <1>2, SoundInserts DEF AssignRole, Watchful
<1>3. CASE RemoveRole(t)
  BY <1>0, <1>3, SoundRemovals DEF RemoveRole, Watchful
<1>4. CASE SetChannelOverride(t)
  BY <1>0, <1>4, SoundUpdates DEF SetChannelOverride, Watchful
<1>5. CASE DeleteChannelOverride(t)
  BY <1>0, <1>5, SoundRemovals DEF DeleteChannelOverride, Watchful
<1>6. CASE CreateChannel(t)
  BY <1>0, <1>6, SoundInserts DEF CreateChannel, Watchful
<1>7. CASE UpdateChannel(t)
  BY <1>0, <1>7, SoundUpdates DEF UpdateChannel, Watchful
<1>8. CASE DeleteChannel(t)
  BY <1>0, <1>8, SoundDeletes DEF DeleteChannel, Watchful
<1> QED BY <1>1, <1>2, <1>3, <1>4, <1>5, <1>6, <1>7, <1>8

LEMMA StoreTalks ==
  ASSUME StoreInv, NEW t \in Tasks, EditMessage(t)
           \/ DeleteMessage(t)
           \/ ReadHistory(t)
           \/ AddReaction(t)
           \/ RemoveReaction(t)
           \/ Ack(t)
           \/ Typing(t)
           \/ JoinChannel(t)
           \/ LeaveChannel(t)
           \/ UploadFile(t)
           \/ CreateDM(t)
           \/ CreateGroupDM(t)
           \/ AddGroupDMMember(t)
           \/ RemoveGroupDMMember(t)
  PROVE  StoreMove(t)
<1> USE Ordinary, Moving DEF Calls, Require, Select, Execute, Create, NewId
<1>0. TasksShape /\ Sound(db)
  BY DEF StoreInv
<1>1. CASE EditMessage(t)
  BY <1>0, <1>1, SoundUpdates DEF EditMessage, Watchful
<1>2. CASE DeleteMessage(t)
  BY <1>0, <1>2, SoundDeletes DEF DeleteMessage, Watchful
<1>3. CASE ReadHistory(t)
  BY <1>0, <1>3 DEF ReadHistory, Watchful
<1>4. CASE AddReaction(t)
  BY <1>0, <1>4, SoundInserts DEF AddReaction, Watchful
<1>5. CASE RemoveReaction(t)
  BY <1>0, <1>5, SoundRemovals DEF RemoveReaction, Watchful
<1>6. CASE Ack(t)
  BY <1>0, <1>6, SoundUpdates DEF Ack, Watchful
<1>7. CASE Typing(t)
  BY <1>0, <1>7 DEF Typing, Watchful
<1>8. CASE JoinChannel(t)
  BY <1>0, <1>8, SoundUpdates DEF JoinChannel, Watchful
<1>9. CASE LeaveChannel(t)
  BY <1>0, <1>9, SoundRemovals DEF LeaveChannel, Watchful
<1>10. CASE UploadFile(t)
  BY <1>0, <1>10, SoundInserts, SoundOthers DEF UploadFile, Watchful
<1>11. CASE CreateDM(t)
  BY <1>0, <1>11, SoundOthers DEF CreateDM, Watchful
<1>12. CASE CreateGroupDM(t)
  BY <1>0, <1>12, SoundOthers DEF CreateGroupDM, Watchful
<1>13. CASE AddGroupDMMember(t)
  BY <1>0, <1>13, SoundInserts DEF AddGroupDMMember, Watchful
<1>14. CASE RemoveGroupDMMember(t)
  BY <1>0, <1>14, SoundRemovals DEF RemoveGroupDMMember, Watchful
<1> QED BY <1>1, <1>2, <1>3, <1>4, <1>5, <1>6, <1>7, <1>8, <1>9, <1>10, <1>11, <1>12, <1>13, <1>14

LEMMA StoreAccounts ==
  ASSUME StoreInv, NEW t \in Tasks, AccountStep(t)
  PROVE  StoreMove(t)
<1> USE Ordinary, Moving DEF Calls, Require, Select, Execute, Create, NewId
<1>0. TasksShape /\ Sound(db)
  BY DEF StoreInv
<1>1. CASE Register(t)
  BY <1>0, <1>1, SoundInserts DEF Register, Watchful, IssueTokens
<1>2. CASE Login(t)
  BY <1>0, <1>2, SoundInserts DEF Login, Watchful, IssueTokens
<1>3. CASE Refresh(t)
  BY <1>0, <1>3, SoundInserts, SoundRemovals DEF Refresh, Watchful
<1>4. CASE Logout(t)
  BY <1>0, <1>4, SoundRemovals DEF Logout, Watchful
<1> QED BY <1>1, <1>2, <1>3, <1>4 DEF AccountStep
\* The statements of CreateGuild: rows with new ids.
LEMMA StoreCreateGuild ==
  ASSUME StoreInv, NEW t \in Tasks, CreateGuild(t)
  PROVE  StoreMove(t)
<1> USE Moving DEF Calls, Execute, Create
<1>0. TasksShape /\ Sound(db)
  BY DEF StoreInv
<1> DEFINE u == task[t].call.by
           r == task[t].row
           new == lastId + 1
           role(position, perms, default) ==
             [id |-> new, guild |-> r.guild, position |-> position, perms |-> perms, default |-> default]
           channel(name, type) ==
             [id |-> new, guild |-> r.guild, name |-> name, type |-> type, parent |-> 0]
<1>1. \A position, perms, default : IsRole(role(position, perms, default))
  BY DEF IsRole
<1>2. Moves(t) /\ lastId' \in {lastId, lastId + 1} /\ task[t].call.op \notin Watchful
  BY <1>0 DEF CreateGuild, Watchful
<1>3. \/ db' = db
      \/ InsertGuild(new, u).ok /\ db' = InsertGuild(new, u).db
      \/ \E position, perms, default :
           InsertRole(role(position, perms, default)).ok /\ db' = InsertRole(role(position, perms, default)).db
      \/ InsertMember(r.guild, u).ok /\ db' = InsertMember(r.guild, u).db
      \/ \E x : AddMemberRole(r.guild, u, x).ok /\ db' = AddMemberRole(r.guild, u, x).db
      \/ \E name, type : InsertChannel(channel(name, type)).ok /\ db' = InsertChannel(channel(name, type)).db
  BY <1>0 DEF CreateGuild
<1>4. db' = db \/ Fine(db')
  <2> HIDE DEF role, channel, new, u, r
  <2> QED BY <1>0, <1>1, <1>3, SoundInserts
<1> QED BY <1>2, <1>4, Ordinary

\* A row that UpdateGuild has read is of a guild, so its owner is a user.
LEMMA StoreUpdateGuild ==
  ASSUME StoreInv, NEW t \in Tasks, UpdateGuild(t)
  PROVE  StoreMove(t)
<1>0. TasksShape /\ Sound(db) /\ Calls(t, "UpdateGuild") /\ Carried(task[t].call, task[t].at, task[t].row, db)
  BY DEF StoreInv, UpdateGuild
<1>1. ASSUME NEW next \in {"read", "write", "done"}, NEW row, Comes(t, next, row), lastId' = lastId,
             db' = db \/ Fine(db'), next = "write" => row.owner \in IdsIn(db', "users")
      PROVE  StoreMove(t)
  BY <1>0, <1>1 DEF StoreMove, Comes, Carried, Calls, Free
<1>2. CASE Require(t, "start", MayInGuild(task[t].call.guild, task[t].call.by, {"MANAGE_GUILD"}), "read")
  BY <1>0, <1>1, <1>2, Coming DEF Require, Comes
<1>3. CASE Select(t, "read", ById("guilds", task[t].call.guild), "write")
  <2>1. \A g \in ById("guilds", task[t].call.guild) : g.owner \in IdsIn(db, "users")
    BY <1>0 DEF ById, Sound, Refers, Tables
  <2>2. CASE Return(t)
    BY <1>0, <1>1, <1>3, <2>2, Coming DEF Select, Comes
  <2>3. CASE \E g \in ById("guilds", task[t].call.guild) : Carry(t, "write", g)
    BY <1>0, <1>1, <1>3, <2>1, <2>3, Coming DEF Select
  <2> QED BY <1>3, <2>2, <2>3 DEF Select
<1>4. CASE Execute(t, "write", UpdateGuildRow(task[t].row), "done")
  <2>1. task[t].row.owner \in IdsIn(db, "users")
    BY <1>0, <1>4 DEF Execute, Carried, Calls
  <2>2. Fine(UpdateGuildRow(task[t].row).db)
    BY <1>0, <2>1, SoundUpdates
  <2>3. Comes(t, "done", task[t].row) /\ lastId' = lastId /\ (db' = db \/ db' = UpdateGuildRow(task[t].row).db)
    BY <1>0, <1>4, Coming DEF Execute, Comes
  <2> QED BY <1>1, <2>2, <2>3
<1> QED BY <1>2, <1>3, <1>4 DEF UpdateGuild

LEMMA StoreCreateInvite ==
  ASSUME StoreInv, NEW t \in Tasks, CreateInvite(t)
  PROVE  StoreMove(t)
<1> DEFINE c == task[t].call
           invite == [code |-> lastId + 1, guild |-> c.guild, creator |-> c.by,
                      max |-> c.max, uses |-> 0, expired |-> FALSE]
<1>0. /\ TasksShape /\ Sound(db) /\ Calls(t, "CreateInvite")
      /\ Carried(task[t].call, task[t].at, task[t].row, db)
  BY DEF StoreInv, CreateInvite
<1>1. IsInvite(invite)
  BY <1>0 DEF IsInvite, Carried, Calls
<1>2. Moves(t) /\ lastId' \in {lastId, lastId + 1}
  BY <1>0, Moving DEF CreateInvite, Require, Create
<1>3. db' = db \/ (InsertInvite(invite).ok /\ db' = InsertInvite(invite).db)
  BY DEF CreateInvite, Require, Create
<1>4. db' = db \/ Fine(db')
  <2> HIDE DEF invite
  <2> QED BY <1>0, <1>1, <1>3, SoundInserts
<1>5. Carried(task'[t].call, task'[t].at, task'[t].row, db')
  BY <1>0, <1>2 DEF Moves, Carried, Calls, Free
<1> QED BY <1>2, <1>4, <1>5 DEF StoreMove

LEMMA StoreUpdateMember ==
  ASSUME StoreInv, NEW t \in Tasks, UpdateMember(t)
  PROVE  StoreMove(t)
<1>0. TasksShape /\ Sound(db)
  BY DEF StoreInv
<1>1. Moves(t) /\ lastId' = lastId /\ task[t].call.op \notin Watchful
  BY <1>0, Moving DEF UpdateMember, Require, Select, Calls, Watchful
<1>2. \/ db' = db
      \/ \E g, u, role : db' = RemoveMemberRole(g, u, role).db
      \/ \E g, u, role : AddMemberRole(g, u, role).ok /\ db' = AddMemberRole(g, u, role).db
  BY DEF UpdateMember, Require, Select
<1>3. db' = db \/ Fine(db')
  BY <1>0, <1>2, SoundInserts, SoundRemovals
<1> QED BY <1>1, <1>3, Ordinary

LEMMA StoreCreateRole ==
  ASSUME StoreInv, NEW t \in Tasks, CreateRole(t)
  PROVE  StoreMove(t)
<1> DEFINE c == task[t].call
           role == [id |-> lastId + 1, guild |-> c.guild, position |-> c.position,
                    perms |-> c.perms, default |-> FALSE]
<1>0. TasksShape /\ Sound(db)
  BY DEF StoreInv
<1>1. IsRole(role)
  BY DEF IsRole
<1>2. Moves(t) /\ lastId' \in {lastId, lastId + 1} /\ task[t].call.op \notin Watchful
  BY <1>0, Moving DEF CreateRole, Require, Create, Calls, Watchful
<1>3. db' = db \/ (InsertRole(role).ok /\ db' = InsertRole(role).db)
  BY DEF CreateRole, Require, Create
<1>4. db' = db \/ Fine(db')
  <2> HIDE DEF role
  <2> QED BY <1>0, <1>1, <1>3, SoundInserts
<1> QED BY <1>2, <1>4, Ordinary

LEMMA EditedRole ==
  ASSUME NEW r, NEW c, IsRole(r)
  PROVE  /\ IsRole(Edited(r, c)) /\ Edited(r, c).id = r.id
         /\ Edited(r, c).guild = r.guild /\ Edited(r, c).default = r.default
<1>1. PICK position, perms : Edited(r, c) = [r EXCEPT !.position = position, !.perms = perms]
  BY DEF Edited
<1>2. PICK e : e = [r EXCEPT !.position = position, !.perms = perms]
  OBVIOUS
<1>3. e = [id |-> r.id, guild |-> r.guild, position |-> position, perms |-> perms, default |-> r.default]
  BY <1>2 DEF IsRole
<1>4. IsRole(e) /\ e.id = r.id /\ e.guild = r.guild /\ e.default = r.default
  BY <1>3 DEF IsRole
<1> QED BY <1>1, <1>2, <1>4

\* The role that UpdateRole has read keeps its columns, whatever has become of it.
LEMMA StoreUpdateRole ==
  ASSUME StoreInv, NEW t \in Tasks, UpdateRole(t)
  PROVE  StoreMove(t)
<1> DEFINE c == task[t].call
           r == task[t].row
<1>0. TasksShape /\ Sound(db) /\ Calls(t, "UpdateRole") /\ Carried(task[t].call, task[t].at, task[t].row, db)
  BY DEF StoreInv, UpdateRole
<1>1. ASSUME NEW next \in {"rank", "write", "done"}, NEW row, Comes(t, next, row), lastId' = lastId,
             db' = db \/ Fine(db'), next # "done" => IsRole(row)
      PROVE  StoreMove(t)
  BY <1>0, <1>1 DEF StoreMove, Comes, Carried, Calls, Free
<1>2. CASE Select(t, "start", ById("roles", c.role), "rank")
  <2>1. \A x \in ById("roles", c.role) : IsRole(x)
    BY <1>0 DEF ById, Sound, Refers, Tables
  <2>2. CASE Return(t)
    BY <1>0, <1>1, <1>2, <2>2, Coming DEF Select, Comes
  <2>3. CASE \E x \in ById("roles", c.role) : Carry(t, "rank", x)
    BY <1>0, <1>1, <1>2, <2>1, <2>3, Coming DEF Select
  <2> QED BY <1>2, <2>2, <2>3 DEF Select
<1>3. CASE Require(t, "rank", Outranks(c.guild, c.by, r.position), "write")
  <2>1. IsRole(r)
    BY <1>0, <1>3 DEF Require, Carried, Calls
  <2> QED BY <1>0, <1>1, <1>3, <2>1, Coming DEF Require, Comes
<1>4. CASE Execute(t, "write", UpdateRoleRow(Edited(r, c)), "done")
  <2>1. IsRole(r)
    BY <1>0, <1>4 DEF Execute, Carried, Calls
  <2>2. IsRole(Edited(r, c))
    BY <2>1, EditedRole
  <2>3. Fine(UpdateRoleRow(Edited(r, c)).db)
    BY <1>0, <2>2, SoundUpdates
  <2>4. Comes(t, "done", r) /\ lastId' = lastId /\ (db' = db \/ db' = UpdateRoleRow(Edited(r, c)).db)
    BY <1>0, <1>4, Coming DEF Execute, Comes
  <2> QED BY <1>1, <2>3, <2>4
<1> QED BY <1>2, <1>3, <1>4 DEF UpdateRole

LEMMA StoreSendMessage ==
  ASSUME StoreInv, NEW t \in Tasks, SendMessage(t)
  PROVE  StoreMove(t)
<1> DEFINE c == task[t].call
           r == task[t].row
           message == [id |-> r.id, channel |-> c.channel, author |-> c.by, edited |-> FALSE]
           fresh == [guild |-> r.guild, dm |-> r.dm, id |-> lastId + 1]
<1>0. /\ TasksShape /\ Sound(db) /\ Calls(t, "SendMessage") /\ lastId \in Nat
      /\ Carried(task[t].call, task[t].at, task[t].row, db)
  BY DEF StoreInv, SendMessage
<1>1. ASSUME NEW next \in {"may", "id", "insert", "read", "done"}, NEW row, Comes(t, next, row),
             lastId' \in {lastId, lastId + 1},
             db' = db \/ Fine(db'), next = "insert" => row.id \in Nat \ {0}
      PROVE  StoreMove(t)
  BY <1>0, <1>1 DEF StoreMove, Comes, Carried, Calls, Free
<1>2. CASE Select(t, "start", Access(c.channel, c.by), "may")
  <2>1. db' = db /\ lastId' = lastId /\ \E row : Comes(t, "may", row)
    BY <1>0, <1>2, Coming DEF Select, Comes
  <2> QED BY <1>1, <2>1
<1>3. CASE \/ Require(t, "may", Allowed(t, {"SEND"}), "id")
           \/ Require(t, "read", ById("messages", r.id) # {}, "done")
  <2>1. db' = db /\ lastId' = lastId /\ (Comes(t, "id", r) \/ Comes(t, "done", r))
    BY <1>0, <1>3, Coming DEF Require, Comes
  <2> QED BY <1>1, <2>1
<1>4. CASE NewId(t, "id", "insert", fresh)
  <2>1. db' = db /\ lastId' = lastId + 1 /\ Comes(t, "insert", fresh)
    BY <1>0, <1>4, Coming DEF NewId
  <2>2. fresh.id \in Nat \ {0}
    BY <1>0
  <2> HIDE DEF fresh
  <2> QED BY <1>1, <2>1, <2>2
<1>5. CASE Execute(t, "insert", InsertMessage(message), "read")
  <2>1. IsMessage(message) /\ message.id \in Nat \ {0}
    BY <1>0, <1>5 DEF Execute, Carried, Calls, IsMessage
  <2>2. Comes(t, "read", r) /\ lastId' = lastId
        /\ (db' = db \/ (InsertMessage(message).ok /\ db' = InsertMessage(message).db))
    BY <1>0, <1>5, Coming DEF Execute, Comes
  <2> HIDE DEF message
  <2>3. db' = db \/ Fine(db')
    BY <1>0, <2>1, <2>2, SoundInserts
  <2> QED BY <1>1, <2>2, <2>3
<1> QED BY <1>2, <1>3, <1>4, <1>5 DEF SendMessage
\* A step of a request.
LEMMA StoreServe ==
  ASSUME StoreInv, NEW t \in Tasks, Serve(t)
  PROVE  StoreMove(t)
<1>1. CASE GuildStep(t)
  BY <1>1, StoreGuilds, StoreCreateGuild, StoreUpdateGuild, StoreCreateInvite, StoreUpdateMember DEF GuildStep
<1>2. CASE RoleStep(t)
  BY <1>2, StoreRoles, StoreCreateRole, StoreUpdateRole DEF RoleStep
<1>3. CASE TalkStep(t)
  BY <1>3, StoreTalks, StoreSendMessage DEF TalkStep
<1>4. CASE AccountStep(t)
  BY <1>4, StoreAccounts
<1> QED BY <1>1, <1>2, <1>3, <1>4 DEF Serve

LEMMA StoreStep == Shape /\ StoreInv /\ [Next]_vars => StoreInv'
<1> SUFFICES ASSUME Shape, StoreInv, [Next]_vars PROVE StoreInv'
  OBVIOUS
<1>1. ASSUME NEW t \in Tasks, Begin(t) PROVE StoreInv'
  <2>1. /\ TasksShape' /\ db' = db /\ lastId' = lastId
        /\ \A u \in Tasks \ {t} : task'[u] = task[u]
        /\ \/ task'[t] = task[t]
           \/ \E call \in This.calls : task'[t] = [call |-> call, at |-> "start", row |-> None]
    BY <1>1, BeginFrame DEF StoreInv, Begin
  <2>2. \A call \in This.calls : call.op = "CreateInvite" => call.max \in Nat
    BY ScenarioAssumption DEF Shape, This
  <2>3. ASSUME NEW u \in Tasks PROVE Carried(task'[u].call, task'[u].at, task'[u].row, db')
    <3>1. CASE task'[u] = task[u]
      BY <2>1, <3>1 DEF StoreInv
    <3>2. CASE \E call \in This.calls : task'[u] = [call |-> call, at |-> "start", row |-> None]
      BY <2>2, <3>2 DEF Carried
    <3> QED BY <2>1, <3>1, <3>2
  <2> QED BY <2>1, <2>3 DEF StoreInv
<1>2. ASSUME NEW t \in Tasks, Serve(t) PROVE StoreInv'
  BY <1>2, StoreServe, StoreMoves
<1>3. ASSUME NEW t \in Tasks, Fail(t) PROVE StoreInv'
  <2>1. Moves(t) /\ task'[t] = Free /\ db' = db /\ lastId' = lastId
    BY <1>3, Coming DEF StoreInv, Fail
  <2>2. StoreMove(t)
    BY <2>1 DEF StoreMove, Carried, Free
  <2> QED BY <2>2, StoreMoves
<1>4. CASE ExpireInvite
  <2>1. PICK i, late : /\ i \in db.invites /\ late = [i EXCEPT !.expired = TRUE]
                       /\ db' = [db EXCEPT !.invites = (@ \ {i}) \cup {late}]
    BY <1>4 DEF ExpireInvite, Expire
  <2> DEFINE rows == (db.invites \ {i}) \cup {late}
  <2>2. Refers(db, "invites", i)
    BY <2>1 DEF StoreInv, Sound, Tables
  <2>3. Refers(db, "invites", late)
    <3>1. IsInvite(i)
      BY <2>2 DEF Refers
    <3>2. IsInvite(late) /\ late.guild = i.guild
      BY <2>1, <3>1 DEF IsInvite
    <3> QED BY <2>2, <3>2 DEF Refers
  <2>4. \A r \in rows : Refers(db, "invites", r)
    BY <2>3 DEF StoreInv, Sound, Tables
  <2>5. "invites" \in Tables \ {"members", "users"} /\ "invites" \in Leaves /\ "invites" \notin Keyed
    BY DEF Tables, Leaves, Keyed
  <2>6. db' = [db EXCEPT !["invites"] = rows]
    BY <2>1
  <2> HIDE DEF rows
  <2>7. Fine(db')
    BY <2>4, <2>5, <2>6, ReplaceKeeps DEF StoreInv
  <2>8. task' = task /\ lastId' = lastId
    BY <1>4 DEF ExpireInvite, Expire
  <2>9. IdsIn(db, "users") \subseteq IdsIn(db', "users")
    BY <2>7 DEF Fine, IdsIn
  <2>10. \A t \in Tasks : Carried(task[t].call, task[t].at, task[t].row, db')
    BY <2>9 DEF StoreInv, Carried
  <2> QED BY <2>7, <2>8, <2>10 DEF StoreInv, Fine, TasksShape
<1>5. CASE TimePasses \/ Quiet \/ UNCHANGED vars
  <2>1. db' = db /\ task' = task /\ lastId' = lastId
    BY <1>5 DEF TimePasses, Quiet, vars, requestVars
  <2> QED BY <2>1 DEF StoreInv, TasksShape
<1> QED BY <1>1, <1>2, <1>3, <1>4, <1>5 DEF Next

LEMMA StoreInit == Init => StoreInv
<1> SUFFICES ASSUME Init PROVE StoreInv
  OBVIOUS
<1>1. Initial(db, lastId)
  BY ScenarioAssumption DEF Init, This
<1>2. Sound(db) /\ lastId \in Nat
  BY <1>1, InitialIsSound DEF Initial
<1>3. \A t \in Tasks : task[t] = Free
  BY DEF Init, Unserved
<1>4. \A t \in Tasks : Carried(task[t].call, task[t].at, task[t].row, db)
  BY <1>3 DEF Carried, Free
<1> QED BY <1>2, <1>4, ShapeInit DEF StoreInv, Shape

\* The inductive invariant.
THEOREM StoreInvariantCorrect == Spec => [](Shape /\ StoreInv)
<1>1. Init => Shape /\ StoreInv
  BY ShapeInit, StoreInit
<1>2. Shape /\ StoreInv /\ [Next]_vars => (Shape /\ StoreInv)'
  BY ShapeStep, StoreStep
<1> QED BY <1>1, <1>2, PTL DEF Spec

\* Whatever is deleted between two statements of a request, and wherever requests
\* stop: keys stay unique and foreign keys refer to rows that are there
\* (the repositories of internal/database on the tables of migrations).
THEOREM StoreCorrect == Spec => []StoreOK
<1>1. Shape /\ StoreInv => StoreOK
  BY SoundIsConsistent DEF StoreInv, StoreOK, Sound, IsDatabase
<1> QED BY <1>1, StoreInvariantCorrect, PTL

\* Two registrations of one name at the same time leave one account (Register
\* tests the name before it inserts; the table's constraint decides).
THEOREM NamesCorrect == Spec => []NamesUnique
<1>1. Shape /\ StoreInv => NamesUnique
  BY SoundIsConsistent DEF StoreInv, NamesUnique, UserByName
<1> QED BY <1>1, StoreInvariantCorrect, PTL
-----------------------------------------------------------------------------
(***************************************************************************)
(* Which tables a statement writes, and which requests write a table.      *)
(***************************************************************************)
LEMMA GuildRows ==
  ASSUME IsDatabase(db)
  PROVE
    /\ \A u, name : Only(InsertUser(u, name).db, {"users"})
    /\ \A g, u : Only(InsertGuild(g, u).db, {"guilds"})
    /\ \A row : Only(UpdateGuildRow(row).db, {"guilds"})
    /\ \A g, u : Only(InsertMember(g, u).db, {"members"})
    /\ \A g, u : Only(DeleteMember(g, u).db, {"members", "memberRoles"})
    /\ \A g, u, r : Only(AddMemberRole(g, u, r).db, {"memberRoles"})
    /\ \A g, u, r : Only(RemoveMemberRole(g, u, r).db, {"memberRoles"})
    /\ \A row : Only(InsertRole(row).db, {"roles"})
    /\ \A row : Only(UpdateRoleRow(row).db, {"roles"})
    /\ \A r : Only(DeleteRoleRow(r).db, {"roles", "memberRoles", "overrides"})
<1> USE DEF Only, IsDatabase, Tables, Insert, Delete, Statement
<1>1. \A u, name : Only(InsertUser(u, name).db, {"users"})
  BY DEF InsertUser
<1>2. \A g, u : Only(InsertGuild(g, u).db, {"guilds"})
  BY DEF InsertGuild
<1>3. \A row : Only(UpdateGuildRow(row).db, {"guilds"})
  BY DEF UpdateGuildRow
<1>4. \A g, u : Only(InsertMember(g, u).db, {"members"})
  BY DEF InsertMember
<1>5. \A g, u : Only(DeleteMember(g, u).db, {"members", "memberRoles"})
  <2>1. \A gone : Only(WithoutMembers(db, gone), {"members", "memberRoles"})
    BY CascadesKeep
  <2> HIDE DEF Only
  <2> QED BY <2>1 DEF DeleteMember
<1>6. \A g, u, r : Only(AddMemberRole(g, u, r).db, {"memberRoles"})
  BY DEF AddMemberRole
<1>7. \A g, u, r : Only(RemoveMemberRole(g, u, r).db, {"memberRoles"})
  BY DEF RemoveMemberRole
<1>8. \A row : Only(InsertRole(row).db, {"roles"})
  BY DEF InsertRole
<1>9. \A row : Only(UpdateRoleRow(row).db, {"roles"})
  BY DEF UpdateRoleRow
<1>10. \A r : Only(DeleteRoleRow(r).db, {"roles", "memberRoles", "overrides"})
  BY DEF DeleteRoleRow, WithoutRoles
<1> HIDE DEF Only, IsDatabase, Tables, Insert, Delete, Statement
<1> QED BY <1>1, <1>2, <1>3, <1>4, <1>5, <1>6, <1>7, <1>8, <1>9, <1>10

LEMMA GuildThings ==
  ASSUME IsDatabase(db)
  PROVE
    /\ \A row : Only(InsertInvite(row).db, {"invites"})
    /\ \A code : Only(IncrementUses(code).db, {"invites"})
    /\ \A code : Only(DeleteInvite(code).db, {"invites"})
    /\ \A g, u : Only(InsertBan(g, u).db, {"bans"})
    /\ \A g, u : Only(DeleteBan(g, u).db, {"bans"})
    /\ \A row : Only(InsertChannel(row).db, {"channels"})
    /\ \A row : Only(UpdateChannelRow(row).db, {"channels"})
    /\ \A c : Only(DeleteChannelRow(c).db, {"channels", "overrides", "messages", "attachments"})
    /\ \A row : Only(SetOverride(row).db, {"overrides"})
    /\ \A c, r : Only(DeleteOverride(c, r).db, {"overrides"})
<1> USE DEF Only, IsDatabase, Tables, Insert, Delete, Statement
<1>1. \A row : Only(InsertInvite(row).db, {"invites"})
  BY DEF InsertInvite
<1>2. \A code : Only(IncrementUses(code).db, {"invites"})
  BY DEF IncrementUses
<1>3. \A code : Only(DeleteInvite(code).db, {"invites"})
  BY DEF DeleteInvite
<1>4. \A g, u : Only(InsertBan(g, u).db, {"bans"})
  BY DEF InsertBan
<1>5. \A g, u : Only(DeleteBan(g, u).db, {"bans"})
  BY DEF DeleteBan
<1>6. \A row : Only(InsertChannel(row).db, {"channels"})
  BY DEF InsertChannel
<1>7. \A row : Only(UpdateChannelRow(row).db, {"channels"})
  BY DEF UpdateChannelRow
<1>8. \A c : Only(DeleteChannelRow(c).db, {"channels", "overrides", "messages", "attachments"})
  BY CascadesKeep DEF DeleteChannelRow
<1>9. \A row : Only(SetOverride(row).db, {"overrides"})
  BY DEF SetOverride
<1>10. \A c, r : Only(DeleteOverride(c, r).db, {"overrides"})
  BY DEF DeleteOverride
<1> HIDE DEF Only, IsDatabase, Tables, Insert, Delete, Statement
<1> QED BY <1>1, <1>2, <1>3, <1>4, <1>5, <1>6, <1>7, <1>8, <1>9, <1>10

LEMMA TalkRows ==
  ASSUME IsDatabase(db)
  PROVE
    /\ \A row : Only(InsertMessage(row).db, {"messages"})
    /\ \A id : Only(UpdateMessageRow(id).db, {"messages"})
    /\ \A id : Only(DeleteMessageRow(id).db, {"messages", "attachments"})
    /\ \A m, u : Only(AddReactionRow(m, u).db, {"reactions"})
    /\ \A m, u : Only(RemoveReactionRow(m, u).db, {"reactions"})
    /\ \A u, c, m : Only(UpsertReadState(u, c, m).db, {"readStates"})
    /\ \A row : Only(InsertAttachment(row).db, {"attachments"})
    /\ \A g, u, c : Only(UpsertVoice(g, u, c).db, {"voice"})
    /\ \A g, u : Only(DeleteVoice(g, u).db, {"voice"})
    /\ \A row, users : Only(InsertDM(row, users).db, {"dms", "recipients"})
    /\ \A dm, u : Only(AddRecipient(dm, u).db, {"recipients"})
    /\ \A dm, u : Only(RemoveRecipient(dm, u).db, {"recipients"})
    /\ \A k, u : Only(StoreToken(k, u).db, {"tokens"})
    /\ \A k : Only(DeleteToken(k).db, {"tokens"})
    /\ \A id : Only(PutObject(id).db, {"objects"})
<1> USE DEF Only, IsDatabase, Tables, Insert, Delete, Statement
<1>1. \A row : Only(InsertMessage(row).db, {"messages"})
  BY DEF InsertMessage
<1>2. \A id : Only(UpdateMessageRow(id).db, {"messages"})
  BY DEF UpdateMessageRow
<1>3. \A id : Only(DeleteMessageRow(id).db, {"messages", "attachments"})
  BY DEF DeleteMessageRow, WithoutMessages
<1>4. \A m, u : Only(AddReactionRow(m, u).db, {"reactions"})
  BY DEF AddReactionRow
<1>5. \A m, u : Only(RemoveReactionRow(m, u).db, {"reactions"})
  BY DEF RemoveReactionRow
<1>6. \A u, c, m : Only(UpsertReadState(u, c, m).db, {"readStates"})
  BY DEF UpsertReadState
<1>7. \A row : Only(InsertAttachment(row).db, {"attachments"})
  BY DEF InsertAttachment
<1>8. \A g, u, c : Only(UpsertVoice(g, u, c).db, {"voice"})
  BY DEF UpsertVoice
<1>9. \A g, u : Only(DeleteVoice(g, u).db, {"voice"})
  BY DEF DeleteVoice
<1>10. ASSUME NEW row, NEW users PROVE Only(InsertDM(row, users).db, {"dms", "recipients"})
  <2> DEFINE added == {[channel |-> row.id, user |-> u] : u \in users}
  <2>1. InsertDM(row, users).db = [db EXCEPT !.dms = @ \cup {row}, !.recipients = @ \cup added]
    BY DEF InsertDM
  <2> HIDE DEF added
  <2> QED BY <2>1
<1>11. \A dm, u : Only(AddRecipient(dm, u).db, {"recipients"})
  BY DEF AddRecipient
<1>12. \A dm, u : Only(RemoveRecipient(dm, u).db, {"recipients"})
  BY DEF RemoveRecipient
<1>13. \A k, u : Only(StoreToken(k, u).db, {"tokens"})
  BY DEF StoreToken
<1>14. \A k : Only(DeleteToken(k).db, {"tokens"})
  BY DEF DeleteToken
<1>15. \A id : Only(PutObject(id).db, {"objects"})
  BY DEF PutObject
<1> HIDE DEF Only, IsDatabase, Tables, Insert, Delete, Statement
<1> QED BY <1>1, <1>2, <1>3, <1>4, <1>5, <1>6, <1>7, <1>8, <1>9, <1>10, <1>11, <1>12, <1>13, <1>14, <1>15

\* The requests that may write a table.
Writes(op, x) ==
  \/ x = "users" /\ op \in {"Register"}
  \/ x = "guilds" /\ op \in {"CreateGuild", "UpdateGuild", "DeleteGuild"}
  \/ x = "members" /\ op \in {"CreateGuild", "AcceptInvite", "KickMember", "LeaveGuild", "BanMember", "DeleteGuild"}
  \/ x = "memberRoles" /\ op \in {"CreateGuild", "UpdateMember", "AssignRole", "RemoveRole", "DeleteRole", "KickMember", "LeaveGuild", "BanMember", "DeleteGuild"}
  \/ x = "roles" /\ op \in {"CreateGuild", "CreateRole", "UpdateRole", "DeleteRole", "DeleteGuild"}
  \/ x = "bans" /\ op \in {"BanMember", "UnbanMember", "DeleteGuild"}
  \/ x = "messages" /\ op \in {"SendMessage", "EditMessage", "DeleteMessage", "DeleteChannel", "DeleteGuild"}
  \/ x = "dms" /\ op \in {"CreateDM", "CreateGroupDM"}
  \/ x = "recipients" /\ op \in {"CreateDM", "CreateGroupDM", "AddGroupDMMember", "RemoveGroupDMMember"}
  \/ x \in {"channels", "overrides", "invites", "attachments", "reactions", "readStates", "voice", "tokens", "objects"}

Frame(t) == \A x \in Tables : Writes(task[t].call.op, x) \/ db'[x] = db[x]

LEMMA FrameOfGuilds ==
  ASSUME IsDatabase(db), NEW t \in Tasks, GuildStep(t)
  PROVE  Frame(t)
<1> USE GuildRows, GuildThings DEF Calls, Require, Select, Execute, Create, NewId
<1>0. \A a, b : Only(db, a) /\ \A d : Only(d, a) /\ a \subseteq b => Only(d, b)
  BY DEF Only
<1>1. CASE CreateGuild(t)
  <2> DEFINE written == {"guilds", "members", "memberRoles", "roles", "channels"}
  <2>0. \A d : Only(d, {"guilds"}) \/ Only(d, {"members"}) \/ Only(d, {"memberRoles"})
                \/ Only(d, {"roles"}) \/ Only(d, {"channels"}) => Only(d, written)
    BY DEF Only
  <2>1. \/ db' = db
        \/ \E g, u : db' = InsertGuild(g, u).db \/ db' = InsertMember(g, u).db
        \/ \E row : db' = InsertRole(row).db \/ db' = InsertChannel(row).db
        \/ \E g, u, r : db' = AddMemberRole(g, u, r).db
    BY <1>1 DEF CreateGuild
  <2>2. Only(db', written)
    <3> HIDE DEF written
    <3> QED BY <1>0, <2>0, <2>1
  <2>3. task[t].call.op = "CreateGuild"
    BY <1>1 DEF CreateGuild
  <2> QED BY <2>2, <2>3 DEF Frame, Writes, Only, Tables
<1>2. CASE UpdateGuild(t)
  <2>1. Only(db', {"guilds"}) /\ task[t].call.op = "UpdateGuild"
    BY <1>0, <1>2 DEF UpdateGuild
  <2> QED BY <2>1 DEF Frame, Writes, Only, Tables
<1>3. CASE CreateInvite(t)
  <2>1. Only(db', {"invites"}) /\ task[t].call.op = "CreateInvite"
    BY <1>0, <1>3 DEF CreateInvite
  <2> QED BY <2>1 DEF Frame, Writes, Only, Tables
<1>4. CASE AcceptInvite(t)
  <2>1. Only(db', {"members", "invites"}) /\ task[t].call.op = "AcceptInvite"
    BY <1>0, <1>4 DEF AcceptInvite
  <2> QED BY <2>1 DEF Frame, Writes, Only, Tables
<1>5. CASE RevokeInvite(t)
  <2>1. Only(db', {"invites"}) /\ task[t].call.op = "RevokeInvite"
    BY <1>0, <1>5 DEF RevokeInvite
  <2> QED BY <2>1 DEF Frame, Writes, Only, Tables
<1>6. CASE UpdateMember(t)
  <2>1. \/ db' = db
        \/ \E g, u, r : db' = AddMemberRole(g, u, r).db \/ db' = RemoveMemberRole(g, u, r).db
    BY <1>6 DEF UpdateMember
  <2>2. Only(db', {"memberRoles"})
    BY <1>0, <2>1
  <2>3. task[t].call.op = "UpdateMember"
    BY <1>6 DEF UpdateMember
  <2> QED BY <2>2, <2>3 DEF Frame, Writes, Only, Tables
<1>7. CASE KickMember(t)
  <2>1. Only(db', {"members", "memberRoles"}) /\ task[t].call.op = "KickMember"
    BY <1>0, <1>7 DEF KickMember
  <2> QED BY <2>1 DEF Frame, Writes, Only, Tables
<1>8. CASE LeaveGuild(t)
  <2>1. Only(db', {"members", "memberRoles"}) /\ task[t].call.op = "LeaveGuild"
    BY <1>0, <1>8 DEF LeaveGuild
  <2> QED BY <2>1 DEF Frame, Writes, Only, Tables
<1>9. CASE BanMember(t)
  <2>1. Only(db', {"bans", "members", "memberRoles"}) /\ task[t].call.op = "BanMember"
    BY <1>0, <1>9 DEF BanMember
  <2> QED BY <2>1 DEF Frame, Writes, Only, Tables
<1>10. CASE UnbanMember(t)
  <2>1. Only(db', {"bans"}) /\ task[t].call.op = "UnbanMember"
    BY <1>0, <1>10 DEF UnbanMember
  <2> QED BY <2>1 DEF Frame, Writes, Only, Tables
<1>11. CASE DeleteGuild(t)
  BY <1>11, GuildGone DEF DeleteGuild, Frame, Writes, Tables
<1> QED BY <1>1, <1>2, <1>3, <1>4, <1>5, <1>6, <1>7, <1>8, <1>9, <1>10, <1>11 DEF GuildStep

LEMMA FrameOfRoles ==
  ASSUME IsDatabase(db), NEW t \in Tasks, RoleStep(t)
  PROVE  Frame(t)
<1> USE GuildRows, GuildThings DEF Calls, Require, Select, Execute, Create, NewId
<1>0. \A a, b : Only(db, a) /\ \A d : Only(d, a) /\ a \subseteq b => Only(d, b)
  BY DEF Only
<1>1. CASE CreateRole(t)
  <2>1. Only(db', {"roles"}) /\ task[t].call.op = "CreateRole"
    BY <1>0, <1>1 DEF CreateRole
  <2> QED BY <2>1 DEF Frame, Writes, Only, Tables
<1>2. CASE UpdateRole(t)
  <2>1. Only(db', {"roles"}) /\ task[t].call.op = "UpdateRole"
    BY <1>0, <1>2 DEF UpdateRole
  <2> QED BY <2>1 DEF Frame, Writes, Only, Tables
<1>3. CASE DeleteRole(t)
  <2>1. Only(db', {"roles", "memberRoles", "overrides"}) /\ task[t].call.op = "DeleteRole"
    BY <1>0, <1>3 DEF DeleteRole
  <2> QED BY <2>1 DEF Frame, Writes, Only, Tables
<1>4. CASE AssignRole(t)
  <2>1. Only(db', {"memberRoles"}) /\ task[t].call.op = "AssignRole"
    BY <1>0, <1>4 DEF AssignRole
  <2> QED BY <2>1 DEF Frame, Writes, Only, Tables
<1>5. CASE RemoveRole(t)
  <2>1. Only(db', {"memberRoles"}) /\ task[t].call.op = "RemoveRole"
    BY <1>0, <1>5 DEF RemoveRole
  <2> QED BY <2>1 DEF Frame, Writes, Only, Tables
<1>6. CASE SetChannelOverride(t)
  <2>1. Only(db', {"overrides"}) /\ task[t].call.op = "SetChannelOverride"
    BY <1>0, <1>6 DEF SetChannelOverride
  <2> QED BY <2>1 DEF Frame, Writes, Only, Tables
<1>7. CASE DeleteChannelOverride(t)
  <2>1. Only(db', {"overrides"}) /\ task[t].call.op = "DeleteChannelOverride"
    BY <1>0, <1>7 DEF DeleteChannelOverride
  <2> QED BY <2>1 DEF Frame, Writes, Only, Tables
<1>8. CASE CreateChannel(t)
  <2>1. Only(db', {"channels"}) /\ task[t].call.op = "CreateChannel"
    BY <1>0, <1>8 DEF CreateChannel
  <2> QED BY <2>1 DEF Frame, Writes, Only, Tables
<1>9. CASE UpdateChannel(t)
  <2>1. Only(db', {"channels"}) /\ task[t].call.op = "UpdateChannel"
    BY <1>0, <1>9 DEF UpdateChannel
  <2> QED BY <2>1 DEF Frame, Writes, Only, Tables
<1>10. CASE DeleteChannel(t)
  <2>1. Only(db', {"channels", "overrides", "messages", "attachments"}) /\ task[t].call.op = "DeleteChannel"
    BY <1>0, <1>10 DEF DeleteChannel
  <2> QED BY <2>1 DEF Frame, Writes, Only, Tables
<1> QED BY <1>1, <1>2, <1>3, <1>4, <1>5, <1>6, <1>7, <1>8, <1>9, <1>10 DEF RoleStep

LEMMA FrameOfTalks ==
  ASSUME IsDatabase(db), NEW t \in Tasks, TalkStep(t)
  PROVE  Frame(t)
<1> USE TalkRows DEF Calls, Require, Select, Execute, Create, NewId
<1>0. \A a, b : Only(db, a) /\ \A d : Only(d, a) /\ a \subseteq b => Only(d, b)
  BY DEF Only
<1>1. CASE SendMessage(t)
  <2>1. Only(db', {"messages"}) /\ task[t].call.op = "SendMessage"
    BY <1>0, <1>1 DEF SendMessage
  <2> QED BY <2>1 DEF Frame, Writes, Only, Tables
<1>2. CASE EditMessage(t)
  <2>1. Only(db', {"messages"}) /\ task[t].call.op = "EditMessage"
    BY <1>0, <1>2 DEF EditMessage
  <2> QED BY <2>1 DEF Frame, Writes, Only, Tables
<1>3. CASE DeleteMessage(t)
  <2>1. Only(db', {"messages", "attachments"}) /\ task[t].call.op = "DeleteMessage"
    BY <1>0, <1>3 DEF DeleteMessage
  <2> QED BY <2>1 DEF Frame, Writes, Only, Tables
<1>4. CASE ReadHistory(t)
  BY <1>4 DEF ReadHistory, Frame
<1>5. CASE AddReaction(t)
  <2>1. Only(db', {"reactions"}) /\ task[t].call.op = "AddReaction"
    BY <1>0, <1>5 DEF AddReaction
  <2> QED BY <2>1 DEF Frame, Writes, Only, Tables
<1>6. CASE RemoveReaction(t)
  <2>1. Only(db', {"reactions"}) /\ task[t].call.op = "RemoveReaction"
    BY <1>0, <1>6 DEF RemoveReaction
  <2> QED BY <2>1 DEF Frame, Writes, Only, Tables
<1>7. CASE Ack(t)
  <2>1. Only(db', {"readStates"}) /\ task[t].call.op = "Ack"
    BY <1>0, <1>7 DEF Ack
  <2> QED BY <2>1 DEF Frame, Writes, Only, Tables
<1>8. CASE Typing(t)
  BY <1>8 DEF Typing, Frame
<1>9. CASE JoinChannel(t)
  <2>1. Only(db', {"voice"}) /\ task[t].call.op = "JoinChannel"
    BY <1>0, <1>9 DEF JoinChannel
  <2> QED BY <2>1 DEF Frame, Writes, Only, Tables
<1>10. CASE LeaveChannel(t)
  <2>1. Only(db', {"voice"}) /\ task[t].call.op = "LeaveChannel"
    BY <1>0, <1>10 DEF LeaveChannel
  <2> QED BY <2>1 DEF Frame, Writes, Only, Tables
<1>11. CASE UploadFile(t)
  <2>1. Only(db', {"objects", "attachments"}) /\ task[t].call.op = "UploadFile"
    BY <1>0, <1>11 DEF UploadFile
  <2> QED BY <2>1 DEF Frame, Writes, Only, Tables
<1>12. CASE CreateDM(t)
  <2>1. Only(db', {"dms", "recipients"}) /\ task[t].call.op = "CreateDM"
    BY <1>0, <1>12 DEF CreateDM
  <2> QED BY <2>1 DEF Frame, Writes, Only, Tables
<1>13. CASE CreateGroupDM(t)
  <2>1. Only(db', {"dms", "recipients"}) /\ task[t].call.op = "CreateGroupDM"
    BY <1>0, <1>13 DEF CreateGroupDM
  <2> QED BY <2>1 DEF Frame, Writes, Only, Tables
<1>14. CASE AddGroupDMMember(t)
  <2>1. Only(db', {"recipients"}) /\ task[t].call.op = "AddGroupDMMember"
    BY <1>0, <1>14 DEF AddGroupDMMember
  <2> QED BY <2>1 DEF Frame, Writes, Only, Tables
<1>15. CASE RemoveGroupDMMember(t)
  <2>1. Only(db', {"recipients"}) /\ task[t].call.op = "RemoveGroupDMMember"
    BY <1>0, <1>15 DEF RemoveGroupDMMember
  <2> QED BY <2>1 DEF Frame, Writes, Only, Tables
<1> QED BY <1>1, <1>2, <1>3, <1>4, <1>5, <1>6, <1>7, <1>8, <1>9, <1>10, <1>11, <1>12, <1>13, <1>14, <1>15 DEF TalkStep

LEMMA FrameOfAccounts ==
  ASSUME IsDatabase(db), NEW t \in Tasks, AccountStep(t)
  PROVE  Frame(t)
<1> USE GuildRows, TalkRows DEF Calls, Require, Select, Execute, Create, NewId
<1>0. \A a, b : Only(db, a) /\ \A d : Only(d, a) /\ a \subseteq b => Only(d, b)
  BY DEF Only
<1>1. CASE Register(t)
  <2>1. Only(db', {"users", "tokens"}) /\ task[t].call.op = "Register"
    BY <1>0, <1>1 DEF Register, IssueTokens
  <2> QED BY <2>1 DEF Frame, Writes, Only, Tables
<1>2. CASE Login(t)
  <2>1. Only(db', {"tokens"}) /\ task[t].call.op = "Login"
    BY <1>0, <1>2 DEF Login, IssueTokens
  <2> QED BY <2>1 DEF Frame, Writes, Only, Tables
<1>3. CASE Refresh(t)
  <2>1. Only(db', {"tokens"}) /\ task[t].call.op = "Refresh"
    BY <1>0, <1>3 DEF Refresh, IssueTokens
  <2> QED BY <2>1 DEF Frame, Writes, Only, Tables
<1>4. CASE Logout(t)
  <2>1. Only(db', {"tokens"}) /\ task[t].call.op = "Logout"
    BY <1>0, <1>4 DEF Logout, IssueTokens
  <2> QED BY <2>1 DEF Frame, Writes, Only, Tables
<1> QED BY <1>1, <1>2, <1>3, <1>4 DEF AccountStep

LEMMA Framed ==
  ASSUME IsDatabase(db), NEW t \in Tasks, Serve(t)
  PROVE  Frame(t)
BY FrameOfGuilds, FrameOfRoles, FrameOfTalks, FrameOfAccounts DEF Serve
\* Which method a request runs.
LEMMA Dispatch ==
  ASSUME NEW t \in Tasks, Serve(t)
  PROVE
    /\ task[t].call.op = "RemoveRole" => RemoveRole(t)
    /\ task[t].call.op = "CreateGuild" => CreateGuild(t)
    /\ task[t].call.op = "UpdateGuild" => UpdateGuild(t)
    /\ task[t].call.op = "DeleteGuild" => DeleteGuild(t)
    /\ task[t].call.op = "CreateInvite" => CreateInvite(t)
    /\ task[t].call.op = "AcceptInvite" => AcceptInvite(t)
    /\ task[t].call.op = "RevokeInvite" => RevokeInvite(t)
    /\ task[t].call.op = "UpdateMember" => UpdateMember(t)
    /\ task[t].call.op = "KickMember" => KickMember(t)
    /\ task[t].call.op = "LeaveGuild" => LeaveGuild(t)
    /\ task[t].call.op = "BanMember" => BanMember(t)
    /\ task[t].call.op = "UnbanMember" => UnbanMember(t)
    /\ task[t].call.op = "CreateRole" => CreateRole(t)
    /\ task[t].call.op = "UpdateRole" => UpdateRole(t)
    /\ task[t].call.op = "DeleteRole" => DeleteRole(t)
    /\ task[t].call.op = "AssignRole" => AssignRole(t)
    /\ task[t].call.op = "SendMessage" => SendMessage(t)
    /\ task[t].call.op = "EditMessage" => EditMessage(t)
    /\ task[t].call.op = "DeleteMessage" => DeleteMessage(t)
    /\ task[t].call.op = "DeleteChannel" => DeleteChannel(t)
    /\ task[t].call.op = "ReadHistory" => ReadHistory(t)
    /\ task[t].call.op = "CreateDM" => CreateDM(t)
    /\ task[t].call.op = "CreateGroupDM" => CreateGroupDM(t)
    /\ task[t].call.op = "AddGroupDMMember" => AddGroupDMMember(t)
    /\ task[t].call.op = "RemoveGroupDMMember" => RemoveGroupDMMember(t)
    /\ task[t].call.op = "Register" => Register(t)
<1> DEFINE op == task[t].call.op
<1>1. /\ (CreateGuild(t) => op = "CreateGuild")
      /\ (UpdateGuild(t) => op = "UpdateGuild")
      /\ (DeleteGuild(t) => op = "DeleteGuild")
      /\ (CreateInvite(t) => op = "CreateInvite")
      /\ (AcceptInvite(t) => op = "AcceptInvite")
      /\ (RevokeInvite(t) => op = "RevokeInvite")
      /\ (UpdateMember(t) => op = "UpdateMember")
      /\ (KickMember(t) => op = "KickMember")
      /\ (LeaveGuild(t) => op = "LeaveGuild")
      /\ (BanMember(t) => op = "BanMember")
      /\ (UnbanMember(t) => op = "UnbanMember")
  BY DEF Calls, CreateGuild, UpdateGuild, DeleteGuild, CreateInvite, AcceptInvite, RevokeInvite, UpdateMember,
     KickMember, LeaveGuild, BanMember, UnbanMember
<1>2. /\ (CreateRole(t) => op = "CreateRole")
      /\ (UpdateRole(t) => op = "UpdateRole")
      /\ (DeleteRole(t) => op = "DeleteRole")
      /\ (AssignRole(t) => op = "AssignRole")
      /\ (RemoveRole(t) => op = "RemoveRole")
      /\ (SetChannelOverride(t) => op = "SetChannelOverride")
      /\ (DeleteChannelOverride(t) => op = "DeleteChannelOverride")
      /\ (CreateChannel(t) => op = "CreateChannel")
      /\ (UpdateChannel(t) => op = "UpdateChannel")
      /\ (DeleteChannel(t) => op = "DeleteChannel")
  BY DEF Calls, CreateRole, UpdateRole, DeleteRole, AssignRole, RemoveRole, SetChannelOverride,
     DeleteChannelOverride, CreateChannel, UpdateChannel, DeleteChannel
<1>3. /\ (SendMessage(t) => op = "SendMessage")
      /\ (EditMessage(t) => op = "EditMessage")
      /\ (DeleteMessage(t) => op = "DeleteMessage")
      /\ (ReadHistory(t) => op = "ReadHistory")
      /\ (AddReaction(t) => op = "AddReaction")
      /\ (RemoveReaction(t) => op = "RemoveReaction")
      /\ (Ack(t) => op = "Ack")
      /\ (Typing(t) => op = "Typing")
      /\ (JoinChannel(t) => op = "JoinChannel")
      /\ (LeaveChannel(t) => op = "LeaveChannel")
      /\ (UploadFile(t) => op = "UploadFile")
      /\ (CreateDM(t) => op = "CreateDM")
      /\ (CreateGroupDM(t) => op = "CreateGroupDM")
      /\ (AddGroupDMMember(t) => op = "AddGroupDMMember")
      /\ (RemoveGroupDMMember(t) => op = "RemoveGroupDMMember")
  BY DEF Calls, SendMessage, EditMessage, DeleteMessage, ReadHistory, AddReaction, RemoveReaction, Ack,
     Typing, JoinChannel, LeaveChannel, UploadFile, CreateDM, CreateGroupDM, AddGroupDMMember,
     RemoveGroupDMMember
<1>4. /\ (Register(t) => op = "Register")
      /\ (Login(t) => op = "Login")
      /\ (Refresh(t) => op = "Refresh")
      /\ (Logout(t) => op = "Logout")
  BY DEF Calls, Register, Login, Refresh, Logout
<1>5. GuildStep(t) \/ RoleStep(t) \/ TalkStep(t) \/ AccountStep(t)
  BY DEF Serve
<1>6. op = "RemoveRole" => RemoveRole(t)
  BY <1>1, <1>2, <1>3, <1>4, <1>5 DEF GuildStep, RoleStep, TalkStep, AccountStep
<1>7. op = "CreateGuild" => CreateGuild(t)
  BY <1>1, <1>2, <1>3, <1>4, <1>5 DEF GuildStep, RoleStep, TalkStep, AccountStep
<1>8. op = "UpdateGuild" => UpdateGuild(t)
  BY <1>1, <1>2, <1>3, <1>4, <1>5 DEF GuildStep, RoleStep, TalkStep, AccountStep
<1>9. op = "DeleteGuild" => DeleteGuild(t)
  BY <1>1, <1>2, <1>3, <1>4, <1>5 DEF GuildStep, RoleStep, TalkStep, AccountStep
<1>10. op = "AcceptInvite" => AcceptInvite(t)
  BY <1>1, <1>2, <1>3, <1>4, <1>5 DEF GuildStep, RoleStep, TalkStep, AccountStep
<1>11. op = "UpdateMember" => UpdateMember(t)
  BY <1>1, <1>2, <1>3, <1>4, <1>5 DEF GuildStep, RoleStep, TalkStep, AccountStep
<1>12. op = "KickMember" => KickMember(t)
  BY <1>1, <1>2, <1>3, <1>4, <1>5 DEF GuildStep, RoleStep, TalkStep, AccountStep
<1>13. op = "LeaveGuild" => LeaveGuild(t)
  BY <1>1, <1>2, <1>3, <1>4, <1>5 DEF GuildStep, RoleStep, TalkStep, AccountStep
<1>14. op = "BanMember" => BanMember(t)
  BY <1>1, <1>2, <1>3, <1>4, <1>5 DEF GuildStep, RoleStep, TalkStep, AccountStep
<1>15. op = "UnbanMember" => UnbanMember(t)
  BY <1>1, <1>2, <1>3, <1>4, <1>5 DEF GuildStep, RoleStep, TalkStep, AccountStep
<1>16. op = "CreateRole" => CreateRole(t)
  BY <1>1, <1>2, <1>3, <1>4, <1>5 DEF GuildStep, RoleStep, TalkStep, AccountStep
<1>17. op = "UpdateRole" => UpdateRole(t)
  BY <1>1, <1>2, <1>3, <1>4, <1>5 DEF GuildStep, RoleStep, TalkStep, AccountStep
<1>18. op = "DeleteRole" => DeleteRole(t)
  BY <1>1, <1>2, <1>3, <1>4, <1>5 DEF GuildStep, RoleStep, TalkStep, AccountStep
<1>19. op = "AssignRole" => AssignRole(t)
  BY <1>1, <1>2, <1>3, <1>4, <1>5 DEF GuildStep, RoleStep, TalkStep, AccountStep
<1>20. op = "SendMessage" => SendMessage(t)
  BY <1>1, <1>2, <1>3, <1>4, <1>5 DEF GuildStep, RoleStep, TalkStep, AccountStep
<1>21. op = "EditMessage" => EditMessage(t)
  BY <1>1, <1>2, <1>3, <1>4, <1>5 DEF GuildStep, RoleStep, TalkStep, AccountStep
<1>22. op = "ReadHistory" => ReadHistory(t)
  BY <1>1, <1>2, <1>3, <1>4, <1>5 DEF GuildStep, RoleStep, TalkStep, AccountStep
<1>23. op = "CreateDM" => CreateDM(t)
  BY <1>1, <1>2, <1>3, <1>4, <1>5 DEF GuildStep, RoleStep, TalkStep, AccountStep
<1>24. op = "CreateGroupDM" => CreateGroupDM(t)
  BY <1>1, <1>2, <1>3, <1>4, <1>5 DEF GuildStep, RoleStep, TalkStep, AccountStep
<1>25. op = "AddGroupDMMember" => AddGroupDMMember(t)
  BY <1>1, <1>2, <1>3, <1>4, <1>5 DEF GuildStep, RoleStep, TalkStep, AccountStep
<1>26. op = "RemoveGroupDMMember" => RemoveGroupDMMember(t)
  BY <1>1, <1>2, <1>3, <1>4, <1>5 DEF GuildStep, RoleStep, TalkStep, AccountStep
<1>27. op = "Register" => Register(t)
  BY <1>1, <1>2, <1>3, <1>4, <1>5 DEF GuildStep, RoleStep, TalkStep, AccountStep
<1>28. op = "DeleteMessage" => DeleteMessage(t)
  BY <1>1, <1>2, <1>3, <1>4, <1>5 DEF GuildStep, RoleStep, TalkStep, AccountStep
<1>29. op = "DeleteChannel" => DeleteChannel(t)
  BY <1>1, <1>2, <1>3, <1>4, <1>5 DEF GuildStep, RoleStep, TalkStep, AccountStep
<1>30. op = "CreateInvite" => CreateInvite(t)
  BY <1>1, <1>2, <1>3, <1>4, <1>5 DEF GuildStep, RoleStep, TalkStep, AccountStep
<1>31. op = "RevokeInvite" => RevokeInvite(t)
  BY <1>1, <1>2, <1>3, <1>4, <1>5 DEF GuildStep, RoleStep, TalkStep, AccountStep
<1> QED BY <1>6, <1>7, <1>8, <1>9, <1>10, <1>11, <1>12, <1>13, <1>14, <1>15, <1>16, <1>17, <1>18, <1>19,
          <1>20, <1>21, <1>22, <1>23, <1>24, <1>25, <1>26, <1>27, <1>28, <1>29, <1>30, <1>31

\* Statements that only delete.
LEMMA FewerRows ==
  ASSUME IsDatabase(db)
  PROVE  /\ \A g : \A x \in Tables : DeleteGuildRow(g).db[x] \subseteq db[x]
         /\ \A g, u : \A x \in Tables : DeleteMember(g, u).db[x] \subseteq db[x]
         /\ \A r : \A x \in Tables : DeleteRoleRow(r).db[x] \subseteq db[x]
         /\ \A g, u, r : \A x \in Tables : RemoveMemberRole(g, u, r).db[x] \subseteq db[x]
<1>1. ASSUME NEW g, NEW x \in Tables PROVE DeleteGuildRow(g).db[x] \subseteq db[x]
  <2> DEFINE d == DeleteGuildRow(g).db
  <2>1. /\ \A y \in {"users", "reactions", "readStates", "dms", "recipients", "voice", "tokens", "objects"} :
             d[y] = db[y]
        /\ d.guilds = {r \in db.guilds : r.id # g}
        /\ d.invites = {i \in db.invites : i.guild # g}
        /\ d.bans = {b \in db.bans : b.guild # g}
        /\ d.channels = {c \in db.channels : c.guild # g}
        /\ d.roles = {r \in db.roles : r.guild # g}
        /\ d.members = {m \in db.members : m.guild # g}
        /\ d.memberRoles = {r \in db.memberRoles :
                              /\ [guild |-> r.guild, user |-> r.user] \notin {m \in db.members : m.guild = g}
                              /\ \A y \in db.roles : y.guild = g => y.id # r.role}
        /\ d.overrides = {o \in db.overrides :
                            /\ \A c \in db.channels : c.guild = g => c.id # o.channel
                            /\ \A y \in db.roles : y.guild = g => y.id # o.role}
        /\ d.messages = {m \in db.messages : \A c \in db.channels : c.guild = g => c.id # m.channel}
        /\ d.attachments \subseteq db.attachments
    BY GuildGone
  <2> HIDE DEF d
  <2>2. d[x] \subseteq db[x]
    BY <2>1 DEF Tables
  <2> QED BY <2>2 DEF d
<1>2. ASSUME NEW gone, NEW x \in Tables
      PROVE  WithoutMembers(db, gone)[x] \subseteq db[x] /\ WithoutRoles(db, gone)[x] \subseteq db[x]
  <2>1. /\ \A y \in Tables \ {"members", "memberRoles"} : WithoutMembers(db, gone)[y] = db[y]
        /\ \A y \in Tables \ {"roles", "memberRoles", "overrides"} : WithoutRoles(db, gone)[y] = db[y]
    BY CascadesKeep
  <2>2. /\ WithoutMembers(db, gone).members = db.members \ gone
        /\ WithoutMembers(db, gone).memberRoles
             = {r \in db.memberRoles : [guild |-> r.guild, user |-> r.user] \notin gone}
        /\ WithoutRoles(db, gone).roles = db.roles \ gone
        /\ WithoutRoles(db, gone).memberRoles = {r \in db.memberRoles : \A y \in gone : y.id # r.role}
        /\ WithoutRoles(db, gone).overrides = {o \in db.overrides : \A y \in gone : y.id # o.role}
    BY CascadeRows
  <2> QED BY <2>1, <2>2
<1>3. \A g, u, r : \A x \in Tables : RemoveMemberRole(g, u, r).db[x] \subseteq db[x]
  BY DEF RemoveMemberRole, Delete, Statement, IsDatabase
<1> QED BY <1>1, <1>2, <1>3 DEF DeleteMember, DeleteRoleRow, Statement

=============================================================================
