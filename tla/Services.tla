------------------------------ MODULE Services ------------------------------
(***************************************************************************)
(* The server behind its HTTP interface: requests that are admitted by the *)
(* rate limit and served concurrently against one database.                *)
(*                                                                         *)
(* A scenario is a database the server may be in, with the calls its       *)
(* clients make: [db, ids, calls, most, faults, away, limit, time].         *)
(* faults says whether statements may fail, away whether Redis may.        *)
(***************************************************************************)
EXTENDS Guilds, Roles, Conversations, Accounts, RateLimit

CONSTANT Scenarios  \* the scenarios by their names

IdsIn(d, table) == {r.id : r \in d[table]}

\* What the keys and the foreign keys of migrations/*.up.sql say of the tables.
\* Reactions, read states and voice states refer to no other table.
Consistent(d) ==
  /\ \A t \in {"users", "guilds", "roles", "channels", "messages", "attachments", "dms"} :
       \A r, s \in d[t] : r.id = s.id => r = s
  /\ \A g \in d.guilds : g.owner \in IdsIn(d, "users")
  /\ \A m \in d.members : m.guild \in IdsIn(d, "guilds") /\ m.user \in IdsIn(d, "users")
  /\ \A r \in d.memberRoles : [guild |-> r.guild, user |-> r.user] \in d.members /\ r.role \in IdsIn(d, "roles")
  /\ \A r \in d.roles : r.guild \in IdsIn(d, "guilds")
  /\ \A c \in d.channels : c.guild \in IdsIn(d, "guilds") /\ c.parent \in IdsIn(d, "channels") \cup {0}
  /\ \A o \in d.overrides : o.channel \in IdsIn(d, "channels") /\ o.role \in IdsIn(d, "roles")
  /\ \A i \in d.invites : i.guild \in IdsIn(d, "guilds")
  /\ \A b \in d.bans : b.guild \in IdsIn(d, "guilds")
  /\ \A m \in d.messages : m.channel \in IdsIn(d, "channels") /\ m.author \in IdsIn(d, "users")
  /\ \A r \in d.recipients : r.channel \in IdsIn(d, "dms") /\ r.user \in IdsIn(d, "users")

RecipientsIn(d, dm) == {r.user : r \in {x \in d.recipients : x.channel = dm}}

\* The channels of two users.
SharedIn(d, u, v) == {c \in d.dms : c.type = "dm" /\ {u, v} \subseteq RecipientsIn(d, c.id)}

\* Direct-message channels as requests of earlier times may have left them.
Conversing(d) ==
  /\ \A r \in d.recipients : r = [channel |-> r.channel, user |-> r.user]
  /\ \A c \in d.dms :
       /\ Cardinality(RecipientsIn(d, c.id)) <= MaxRecipients + Cardinality(Tasks) - 1
       /\ c.type = "dm" => Cardinality(RecipientsIn(d, c.id)) = 2
  /\ \A u, v \in IdsIn(d, "users") : u # v => Cardinality(SharedIn(d, u, v)) <= Cardinality(Tasks)

\* A database that the constraints admit, with rows the services may have left:
\* its tables are finite, its ids are the generator's, user names differ, a
\* member's roles are of the guild, no user is both banned and a member, no
\* invite is used too often, and a guild has at most one default role.
Initial(d, ids) ==
  /\ IsDatabase(d) /\ Consistent(d) /\ Conversing(d)
  /\ \A t \in Tables : IsFiniteSet(d[t])
  /\ ids \in Nat
  /\ \A t \in {"users", "guilds", "roles", "channels", "messages", "dms"} : \A r \in d[t] : r.id \in 1..ids
  /\ (\A r \in d.roles : IsRole(r)) /\ (\A m \in d.messages : IsMessage(m))
  /\ \A u, v \in d.users : u.name = v.name => u = v
  /\ \A r \in d.memberRoles : \A x \in d.roles : x.id = r.role => x.guild = r.guild
  /\ \A b \in d.bans : b = [guild |-> b.guild, user |-> b.user] /\ b \notin d.members
  /\ \A i \in d.invites : IsInvite(i) /\ (i.max > 0 => i.uses <= i.max)
  /\ \A i, j \in d.invites : i.code = j.code => i = j
  /\ \A x, y \in d.roles : x.default /\ y.default /\ x.guild = y.guild => x = y

ASSUME ScenarioAssumption ==
  \A n \in DOMAIN Scenarios :
    /\ Initial(Scenarios[n].db, Scenarios[n].ids) /\ Scenarios[n].limit \in Nat
    /\ \A c \in Scenarios[n].calls : /\ c.op = "CreateInvite" => c.max \in Nat
                                     /\ c.op = "CreateGroupDM" => IsFiniteSet(c.users)

VARIABLES scenario,
          begun     \* requests so far, at most `most' of the scenario

vars == <<db, task, lastId, past, now, counters, admitted, scenario, begun>>
limiterVars == <<now, counters, admitted>>
requestVars == <<db, task, lastId, past>>

This == Scenarios[scenario]

Ids(table) == IdsIn(db, table)

DefaultRoles(g) == {r \in RolesOfGuild(g) : r.default}

\* A request that has inserted a guild and next inserts its default role.
Opening(t) == Calls(t, "CreateGuild") /\ task[t].at = "everyone"

Init ==
  /\ scenario \in DOMAIN Scenarios
  /\ db = This.db /\ lastId = This.ids /\ task = Unserved
  /\ past = [slipped |-> {}, halfway |-> {g \in Ids("guilds") : DefaultRoles(g) = {}},
             signedIn |-> {k.token : k \in db.tokens},
             issued |-> {[token |-> k.token, session |-> k.token] : k \in db.tokens}]
  /\ now = 0 /\ counters = {} /\ admitted = {} /\ begun = 0

\* The counter of a caller and a path; calls without a user count per address.
Key(call) == [by |-> call.by, op |-> call.op]

Served(t, call) == task' = [task EXCEPT ![t] = [call |-> call, at |-> "start", row |-> None]]

\* A request comes in, through the rate limit; without Redis it passes uncounted.
Begin(t) ==
  /\ task[t].at = "idle" /\ begun < This.most
  /\ \E call \in This.calls :
       \/ Check(Key(call), This.limit, TRUE) /\ Served(t, call)
       \/ Check(Key(call), This.limit, FALSE) /\ UNCHANGED task
       \/ This.away /\ Served(t, call) /\ UNCHANGED limiterVars
  /\ begun' = begun + 1
  /\ UNCHANGED <<db, lastId, past, scenario>>

\* A statement fails, or the process ends: the request goes no further, and what
\* it has written stays.  The last statement of a ban fails silently.
Fail(t) ==
  LET pair == [guild |-> task[t].call.guild, user |-> task[t].call.user]
  IN  /\ This.faults /\ task[t].at # "idle"
      /\ Return(t)
      /\ past' = IF Calls(t, "BanMember") /\ task[t].at = "remove"
                 THEN [past EXCEPT !.slipped = @ \cup {pair}]
                 ELSE IF Opening(t)
                 THEN [past EXCEPT !.halfway = @ \cup {task[t].row.guild}]
                 ELSE IF Calls(t, "Refresh") /\ task[t].at = "store"
                 THEN [past EXCEPT !.signedIn = @ \ SessionsOf(task[t].call.token)]
                 ELSE past
      /\ UNCHANGED <<db, lastId, limiterVars, scenario, begun>>

Serve(t) ==
  /\ GuildStep(t) \/ RoleStep(t) \/ TalkStep(t) \/ AccountStep(t)
  /\ UNCHANGED <<limiterVars, scenario, begun>>

ExpireInvite ==
  /\ \E i \in db.invites : Expire(i)
  /\ UNCHANGED <<limiterVars, scenario, begun>>

TimePasses ==
  /\ now < This.time
  /\ Tick
  /\ UNCHANGED <<requestVars, scenario, begun>>

\* Every request the scenario allows has been served.
Quiet ==
  /\ begun = This.most /\ task = Unserved
  /\ UNCHANGED vars

Next ==
  \/ \E t \in Tasks : Begin(t) \/ Serve(t) \/ Fail(t)
  \/ ExpireInvite \/ TimePasses \/ Quiet

Spec == Init /\ [][Next]_vars
-----------------------------------------------------------------------------
(***************************************************************************)
(* Properties                                                              *)
(***************************************************************************)
\* The columns that refer to another table do so at all times, whatever is
\* deleted in between and wherever a request stops; keys are unique
\* (migrations/*.up.sql, the ON DELETE clauses).
StoreOK == DOMAIN db = Tables /\ Consistent(db)

\* The owner of a guild stays a member of it as long as there is the guild:
\* KickMember, LeaveGuild and BanMember each test before they delete.
OwnerStays ==
  [][\A g \in db.guilds :
       IsMember(g.id, g.owner) /\ (\E h \in db.guilds' : h.id = g.id)
         => [guild |-> g.id, user |-> g.owner] \in db.members']_vars

\* Requests that have tested the limit of an invite and have not counted yet.
InFlight(code) ==
  {t \in Tasks : /\ Calls(t, "AcceptInvite") /\ task[t].at \in {"member", "ban", "join", "count"}
                 /\ task[t].row.code = code}

\* An invite with a limit is used at most once too often per other request that
\* was served at the same time (AcceptInvite tests the row it has read).
InviteOvershoot ==
  \A i \in db.invites :
    i.max > 0 => i.uses + Cardinality(InFlight(i.code)) <= i.max + Cardinality(Tasks) - 1

\* A banned user is a member only until the ban's last statement, or when the
\* user had passed AcceptInvite's test for bans before there was the ban.
BanHolds ==
  \A b \in db.bans :
    IsMember(b.guild, b.user) =>
      \/ b \in past.slipped
      \/ \E t \in Tasks : /\ Calls(t, "BanMember") /\ task[t].at = "remove"
                          /\ task[t].call.guild = b.guild /\ task[t].call.user = b.user

\* A member's roles are roles of that guild: no constraint of the database says
\* so, AssignRole and UpdateMember test it some statements before they write.
RolesOfOwnGuild ==
  \A r \in db.memberRoles : \A x \in ById("roles", r.role) : x.guild = r.guild

\* A guild has one default role, which every computation of permissions starts
\* from, unless the CreateGuild that inserts it is not so far or has stopped
\* before it (past.halfway), which nothing makes up for: its owner can still
\* invite others into it.  UpdateRole writes back what it has read, DeleteRole
\* tests what it has read.
DefaultRoleStays ==
  \A g \in db.guilds :
    \/ Cardinality(DefaultRoles(g.id)) = 1
    \/ /\ DefaultRoles(g.id) = {}
       /\ g.id \in past.halfway \/ \E t \in Tasks : Opening(t) /\ task[t].row.guild = g.id
-----------------------------------------------------------------------------
\* A reader who pages to the end has every message that was there throughout,
\* while others send and delete (GetMessages, the web client's fetchMore).
PagingSeesAll ==
  \A t \in Tasks :
    Calls(t, "ReadHistory") /\ task[t].at = "shown" =>
      {m \in task[t].row.initial : ById("messages", m) # {}} \subseteq task[t].row.seen

\* Two users have at most one channel, whichever of them asks: GetOrCreateDM "is an
\* upsert for 1-on-1 DM channels" (docs/database.md).  It looks and then inserts.
OneChannelPerPair ==
  \A u, v \in Ids("users") : u # v => Cardinality(SharedIn(db, u, v)) <= 1

\* How far that goes: one channel per request that may be at work at once.
PairsBounded ==
  \A u, v \in Ids("users") :
    u # v => Cardinality(SharedIn(db, u, v)) <= Cardinality(Tasks)

\* A direct-message channel keeps its two recipients.
PairKeepsBoth == \A d \in db.dms : d.type = "dm" => Cardinality(RecipientsOf(d.id)) = 2

Adding(dm) ==
  {t \in Tasks : Calls(t, "AddGroupDMMember") /\ task[t].at = "add" /\ task[t].call.channel = dm}

\* A group exceeds its limit by at most one recipient per other request that
\* counted at the same time (AddGroupDMMember counts and then inserts).
GroupOvershoot ==
  \A d \in db.dms :
    Cardinality(RecipientsOf(d.id)) + Cardinality(Adding(d.id))
      <= MaxRecipients + Cardinality(Tasks) - 1

\* No two accounts have one name, though Register tests before it inserts.
NamesUnique == \A u \in db.users : UserByName(u.name) = {u}

\* A session that has signed in and not out has a refresh token, or a request
\* that is about to store one: neither refreshes of one token in parallel nor
\* another session of the user, which refreshes or signs out, end it.
SessionKept ==
  \A s \in past.signedIn :
    \/ \E k \in db.tokens : s \in SessionsOf(k.token)
    \/ \E t \in Tasks : Calls(t, "Refresh") /\ task[t].at = "store" /\ s \in SessionsOf(task[t].call.token)

BurstsBounded == BurstBounded(This.limit)
=============================================================================
