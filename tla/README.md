# Retrocast in TLA+

Specifications, model-checking configurations and machine-checked proofs for the
Retrocast chat server (`src/retrocast`, Go) and, as far as the server depends on
them, its web and iOS clients. Paths below are relative to `src/`; `gateway/` stands
for `retrocast/internal/gateway/`, `service/` for `retrocast/internal/service/`.

    tlc -workers 2 -config Registry_safety.cfg MCRegistry      # a run
    tlapm RegistryProofs.tla                                   # a proof

Contents: 1 the system, 2 the modules, 3 how they correspond to the code, 4 the
runs, 5 bounds and fairness, 6 the proofs, 7 where code and documents disagree,
8 what is not modelled, 9 what comes next.

## 1. The system

An HTTP API (`retrocast/internal/api`) decodes requests and calls services
(`service/`). A service is a sequence of single SQL statements on PostgreSQL
(`retrocast/internal/database`; only the creation of a direct-message channel uses a
transaction), and ends with a dispatch of events through the
gateway (`gateway/manager.go`). Redis holds what may be lost: refresh tokens,
presence, typing indicators, rate-limit counters. Clients keep one WebSocket to
the gateway and load everything else over HTTP.

| component | state | operations | what is hard | what makes it correct |
|---|---|---|---|---|
| connection registry (`manager.go`, `connection.go`) | `connections`, `subscriptions`, `sessions` under `mu`; per connection `UserID`, `SessionID`, `done` | IDENTIFY, RESUME, PRESENCE_UPDATE, register, unregister, subscribe | handlers take the lock several times and wait for the database and Redis in between; a displaced connection unregisters late | one live connection per user; the maps agree; the live connection keeps its subscriptions; closed connections are forgotten |
| presence (`manager.go`, `redis/client.go`) | key `presence:u`, five minutes | SetPresence by handshakes, client updates and the grace goroutine; expiry | the last writer may outlive the connection; check, then write | a user who is gone is not shown online, a connected one not offline |
| replay buffer (`manager.go`) | slots, position, number, full flag | add, since | since runs without the lock; wrap-around | it is a log of the last 100 events; a scan returns what the client misses |
| dispatch and resume (`manager.go`, `connection.go`) | queue of 256 and number per connection, buffer and number per guild | DispatchToGuild, DispatchToUser, broadcastPresence, SendEvent, replay | look up, send and store are three steps; full queues drop; two kinds of numbers | a dispatch reaches live subscribers; a resume replays what was missed |
| snowflake ids (`internal/snowflake`) | last millisecond and sequence | Generate, with a spin on exhaustion | wrap of the sequence, restarts, several processes, the clock | ids are unique and increase |
| permissions (`internal/permissions`, `service/permission.go`) | roles, channel overrides | pure computation | order of allow and deny, administrator, owner | equal to the documented order of overrides |
| accounts and tokens (`service/auth.go`, `internal/auth`) | users, refresh keys in Redis | register, login, refresh, logout | two refreshes with one token; failure between delete and store | a session that did not sign out keeps a token; names are unique |
| guilds, members, invites, bans (`service/`) | rows of those tables | create, join, leave, kick, ban, invite | tests and updates are separate statements | uses bounded; a ban removes the member and keeps it out; the owner stays; a guild has its default role unless its creation stopped before it |
| channels, roles (`service/`) | rows | create, update, delete, assign, override | ranks and guilds tested on rows read earlier; whole rows written back; removal before validation | members hold roles of their own guild; the default role stays; no dangling rows |
| messages, reactions, read states | rows | send, edit, delete, acknowledge | pages read while messages come and go; acknowledgements out of order | cursors find every message |
| direct messages (`service/dm.go`) | channels, recipients | get or create, add, remove | two creations at once; limit of ten | one channel per pair, which the code breaks; channels and members bounded by the races; a pair stays a pair |
| voice (`service/voice.go`) | rows of `voice_states` | join, leave | rows outlive the connection and the channel | a user is in one voice channel of a guild |
| uploads (`service/upload.go`) | object store, rows | upload | object stored, row not | no object without a row |
| rate limit (`api/ratelimit.go`, `redis/client.go`) | counter with expiry | one script per request | window boundary | bursts bounded by twice the limit |
| web client gateway (`retrocast-web/src/lib/gateway.ts`) | socket, session, number, retry count | connect, resume, heartbeat, backoff | two devices; late callbacks of an old socket | it reconnects, resumes or identifies |
| iOS client gateway (`retrocast-client/.../Gateway`) | the same and a state | the same | two reconnect tasks | the same |

Components interact in four ways: services call the gateway's dispatch methods
synchronously; every connection has two goroutines (`readPump` runs handlers,
`writePump` drains the queue) that share the manager under `mu`; every unregister
of a user's current connection starts a goroutine (`clearPresenceWithGrace`); and
all of them share Redis and PostgreSQL. No service calls `SubscribeToGuild` or
`UnsubscribeFromGuild`: only handshakes read the table of members.

`PROJECT.json` lists the components with their status and 40 hazards, each at
the line where it bites, with the properties that cover it.

## 2. The modules

| module | extends | what it is |
|---|---|---|
| `Registry` | FiniteSets | connections, subscriptions, sessions and presence; handlers, grace goroutines, faults |
| `MCRegistry` | `Registry` | instances for TLC |
| `RegistryProofs` | `Registry`, TLAPS | the inductive invariant and what follows from it; presence without faults |
| `ReplayLog` | Sequences | abstract: a log of the last n events |
| `RingBuffer` | Sequences | the ring with every store of `add` and load of `since` |
| `MCRingBuffer` | `RingBuffer` | an instance for TLC |
| `RingBufferProofs` | `RingBuffer`, TLAPS | `RingBuffer` implements `ReplayLog`; what a scan returns |
| `Delivery` | `Registry`, `ReplayLog` (INSTANCE) | queues, numbers, dispatch and replay on top of the registry |
| `MCDelivery` | `Delivery` | instances for TLC |
| `DeliveryProofs` | `Delivery`, `RegistryProofs` | `Delivery` implements `Registry`; look-ups and replays |
| `Snowflake` | Integers | the id generators |
| `MCSnowflake` | `Snowflake` | an instance for TLC |
| `SnowflakeProofs` | `Snowflake`, TLAPS | ids increase, are unique and can be unpacked |
| `Store` | FiniteSets | the tables, tokens and objects; an operator per statement of the repositories, with constraints and cascades |
| `Requests` | `Store` | a request as a goroutine: reads with an early return, writes, new ids |
| `Permissions` | `Requests` | the resolver and the checks of `PermissionChecker`; the documented order of precedence |
| `Guilds` | `Permissions` | services of guilds, invites, members, bans |
| `Roles` | `Permissions` | services of roles, overrides, channels |
| `Conversations` | `Permissions` | services of messages, reactions, read states, voice, uploads, direct messages; typing |
| `Accounts` | `Requests` | registration, login, refresh, logout |
| `RateLimit` | FiniteSets | the counter with its window |
| `Services` | the five above | the server: admission, concurrent requests, failures; its properties |
| `MCServices` | `Services` | scenarios for TLC |
| `ServicesProofs` | `Services`, TLAPS | permission resolution, the limit of invites, sessions, the rate limit |
| `StoreProofs` | `ServicesProofs` | every statement keeps the tables consistent; which request writes which table |
| `GuildProofs` | `StoreProofs` | roles of members, owners, bans, default roles |
| `TalkProofs` | `GuildProofs` | direct-message channels and groups; paging |

`Delivery` composes the registry with the buffers: it reuses the registry's
actions as they are and says, per action, what is sent or must have been sent.
It keeps a guild's buffer as the abstract `ReplayLog`, which `RingBuffer` is proved to
implement, and takes the result of a scan from what `RingBuffer` shows of scans, so the
two levels meet at that module.

`Services` composes the services in the same way: each service module has one operator
per method, `Services` runs any number of them against one database behind the rate
limit. The two compositions meet at the rows of members and at the dispatch of an
event: `Registry` has `JoinGuild` and `LeaveGuild`, `Delivery` has a task that
dispatches, `Services` has the statements around both. They are not put into one state
space, because no step of one reads what the other keeps.

## 3. How the modules correspond to the code

**Steps.** One action is what a goroutine does under one acquisition of a lock, or
with one call of a store, or, where the code takes no lock (`since`), one load. A
handler's local variables are variables of its connection (`guilds`, `todo`,
`wish`, `resumeSeq`, `backlog`), its place in the code is `phase`. What
`PROJECT.json` calls "map" names the lines of every definition.

**Registry.** `Manager.connections`, `subscriptions` and `sessions` keep their
names. A UUID is named by the connection whose IDENTIFY minted it, so `session[c]
# c` means that `c` resumed. `ReceiveIdentify`/`ReceiveResume`, `FetchGuilds`,
`Register`, `SubscribeNext` (once per guild), `FinishSubscribing`, `SetOnline`,
`SendReady` and `Announce` are the steps of a handshake; `ReadFails` is the end of
`readPump` with `unregister`; `WriterStops` the end of `writePump`; the three
`Grace` actions are `clearPresenceWithGrace`. Abstractions:

- Each socket carries one handshake: both clients send it once, in answer to HELLO. The
  server does not refuse a second one (`gateway/connection.go:155-177`), so what is
  shown of the registry is shown for clients that keep to this.
- `ReadFails` merges `unregister` with the `Close` after it; `Close` is idempotent
  and only the socket's own goroutines look at it.
- A message that was buffered when the socket closed counts as received just
  before the close.
- Statuses are those that differ: idle and dnd are as online, invisible is stored
  as offline by the code itself.
- Time is order. The only order of deadlines that matters is that a handler's
  5 second context ends before a grace period of 10 seconds that began after the
  handler did: `elders` and `expired` say exactly this. The context makes
  `SetPresence` fail, which the code logs.
- `PresenceExpires` may happen at any time, which covers the five minutes.
- `JoinGuild` and `LeaveGuild` are all the gateway sees of the guild services.

**RingBuffer.** Slot k, `pos`, `seq` and `full` are the fields of `ringBuffer`.
`add` has a step per store. Stores become visible in program order, except that
the two halves of a slot are written in either order, and a reader that loads the
event of a slot being overwritten may get `Torn`, words of both. `full` is tested
twice in `since`; the second test may use the first load again. This is the memory
model of the hardware the server runs on and the freedom the compiler takes in
practice; a compiler that moved loads across the loop would add outcomes. The
n-th event is named n.

**Delivery.** A job is one dispatch of one event by one goroutine: a service's
(`Tasks`), the online broadcast of a handshake, the offline broadcast of a grace
period. `LookUp`, `SendTo` (take a number), `QueueEvent` (enqueue or drop) and
`StoreReplayEvent` are the steps of `sendToGuildInternal` and of `DispatchToGuild`,
which have the same body. `Deliver` is `writePump` and the client's reading of the
number together. Abstractions: HELLO, RECONNECT and heartbeats carry no number and
are left out; a closed socket's queue is forgotten, with its number; members are fixed,
presence does not expire and the server does not restart, because none of these sends
or receives an event. Clients send no PRESENCE_UPDATE: its handler broadcasts presence,
which is one more dispatch like those of `Tasks`. `reached`, `raced` and `seen` are
history variables that no action tests, with one exception: `ResumeFrom` requires
that the client has read its READY.

*Reading a buffer* takes two steps, as in `manager.go:323-329`. `FindBuffer` is the
look-up under `replayMu`. `ScanBuffer` is the end of `since`, which runs without the lock:
any number of `StoreReplayEvent` may come in between, and `met` collects the events that
are in the buffer at some time of the scan. `Results` is all that the scan may return:

- without an addition in between, the log after the client's number
  (`UnracedScanIsExact` of `RingBuffer`);
- otherwise any choice from `met` in which no event comes twice, those that were there
  from the start are in their order, and at most one per addition is new or `Torn`
  (`RacedScanIsBounded`): a scan may return nothing, reorder what is new, or tear it;
- what was there and stays is in the result only if the buffer was full from the start or
  is not full at the end (`ScanOfOneLapIsComplete`, `OneLap` here).

`raced` takes the events that a scan may pass over: those a dispatch stores after the
look-up of the buffer for connections it looked up before the subscription, and, when the
buffer filled for the first time during the scan, all it should have found.

**Snowflake.** One `Generators` element per process: `main.go` creates (1, 1), the
seeding CLI (0, 0). `Generate` holds its mutex throughout, so a call is one step,
or two when it spins. Shifts are multiplications; the fields do not overlap, which
`FieldsKept` checks. A restart is assumed to take a millisecond.

**Store.** `db` maps each table to its set of rows, with refresh tokens (Redis) and
uploaded objects as tables of their own. An operator that writes returns whether the
constraints of the migrations admit the statement, and the database after it: foreign
keys, unique columns, `ON CONFLICT`, cascades, and the one reference without a cascade
(`channels.parent_id`). A row has the columns that a condition of some service tests;
names of guilds and roles, nicknames, colours, topics, contents and the positions of
channels are left out. A scenario starts from a database that requests of earlier times
may have left: `Initial` says that it satisfies the constraints (`Consistent`), that its
direct-message channels are within the bounds proved of them (`Conversing`), that nobody
is both banned and a member, and that a guild has at most one default role. A set of
permission bits is a set of names. Ids are numbers of one generator, and so are invite
codes and tokens, which are random in the code and fresh here.

**Requests and services.** `task[t]` is a goroutine that serves a request: the call
with its arguments, the place in the method (`at`) and what the method has read
(`row`). A step is one statement with the tests on its result. Between two steps every
other request may run, because no service uses a transaction or a lock. The
disjuncts of an operator such as `AcceptInvite` are the statements of the method in
their order. Abstractions:

- A permission check (three to five reads) is one step, and so is the look-up of a
  channel that may be a direct-message channel, and `MayBan` (`ban.go:52-74`). The
  owner of a guild never changes, and nothing a check has read is used after it.
- The dispatch at the end of a method belongs to its last step; `Delivery` has it.
- Lengths and formats of arguments are tested before any statement and leave no
  trace: calls have valid arguments. A negative maximum of an invite is as 0.
- Methods that only read and answer are left out, with the exception of paging
  (`ReadHistory`): a client that calls `GetMessages` with the oldest id of the last
  page until a page is not full.
- `Login` stands for a login with the right password. Access tokens are checked
  without state. Refresh tokens do not expire: their time is seven days.
- Handlers decode and call one service; the permission middleware
  (`api/permission_middleware.go`) is attached to no route.
- `Fail` is a statement that returns an error or a process that ends (in scenarios with
  `faults`; `away` says whether Redis may fail to answer the rate limit): the request goes
  no further and what it has written stays. A statement that was carried out although
  its caller saw an error is the failure of the next step. The delete at the end of
  `BanMember` fails silently, as in the code.
- `past` remembers, for the properties alone, which banned users were about to join,
  which guilds are left without a default role because their creation stopped, which
  sessions are signed in and which token continues which session.

**RateLimit.** A counter per caller and path expires a window after the increment that
created it. A request that Redis does not answer passes uncounted, as in the
middleware.

## 4. The runs

| run | module / cfg | expects | asks |
|---|---|---|---|
| `registry_safety` | `MCRegistry` / `Registry_safety.cfg` | pass | do the maps survive every interleaving, Redis errors and restarts? |
| `registry_presence` | `MCRegistry` / `Registry_presence.cfg` | pass | is a user who left shown offline in the end, and for good? |
| `registry_no_flash` | `MCRegistry` / `Registry_no_flash.cfg` | violation | can a connected user be marked offline? |
| `registry_offline_unheard` | `MCRegistry` / `Registry_offline_unheard.cfg` | violation | do the guilds hear that a user went offline? |
| `replay_laps` | `MCRingBuffer` / `RingBuffer_laps.cfg` | pass | does the ring implement the log, and what does a scan guarantee? |
| `replay_race` | `MCRingBuffer` / `RingBuffer_race.cfg` | violation | does a scan return everything it should? |
| `delivery_safety` | `MCDelivery` / `Delivery_safety.cfg` | pass | do dispatches find live connections, and what does a resume guarantee? |
| `delivery_resume` | `MCDelivery` / `Delivery_resume.cfg` | violation | does a resume replay what the client missed? |
| `snowflake_unique` | `MCSnowflake` / `Snowflake_unique.cfg` | pass | are ids unique and increasing until the clock steps back? |
| `services_guilds` | `MCServices` / `Services_guilds.cfg` | pass | what holds of guilds, invites, bans, members, roles, overrides and channels when two requests interleave and statements fail? |
| `services_talk` | `MCServices` / `Services_talk.cfg` | pass | what holds of messages, direct messages, accounts and the rate limit with three requests at a time? |
| `services_dm_upsert` | `MCServices` / `Services_dm_upsert.cfg` | violation | do two users share one direct-message channel? |

What the properties say:

- `IndexesSound`: an entry of `connections` carries its user and is neither before
  its registration nor after its unregistration; an entry of `sessions` leads to
  the user's registered connection.
- `SingleConnection`: an open connection that has passed `register` *is* the one
  its user is registered with, although its predecessors unregister later.
- `LiveIsSubscribed`: the live connection's user is subscribed to every guild the
  handshake has subscribed so far, whatever other connections of the user do.
- `QuietIsNotOnline`: when a user has no connection, no handler that can still
  write and no grace period ahead, the key does not say online. It holds because
  the handlers' 5 seconds are shorter than the 10 seconds of grace; the mutant that
  lets contexts live on breaks it. Redis must not fail and the server not restart:
  both leave the key stale until it expires.
- `ClosedIsForgotten`, `GoneGoesOffline`: liveness, see section 5.
- `SlotsInOrder`, `ImplementsLog`: the slots are numbered in the order of the walk;
  the ring refines `ReplayLog` step by step, with the addition under way mapped to
  its start.
- `UnracedScanIsExact`: without a race a scan is the log after the client's number.
- `ScanOfOneLapIsComplete`: a scan that starts on a full ring, or ends before the
  ring is full, misses nothing however many additions race with it.
- `RacedScanIsBounded`: in any race a scan returns no event twice and none that was not in
  the ring, what was there from the start comes in its order, and at most one event per
  addition is new or torn.
- `LookUpFindsLive`: a dispatch that looks up a guild aims at every open connection
  that has subscribed to it.
- `ReplayMissesOnlyRaced`: once a resume has read a guild's buffer, every event the
  buffer holds with a number greater than the client's has been queued for it, dropped
  because its queue was full, or is about to be, except for two kinds: events that a
  dispatch stored after the look-up of the buffer for connections it had looked up before
  the subscription, and those in a buffer that filled for the first time during the scan.
  That the second exception is needed is what `replay_race` shows.
- `Increasing`, `UniqueUntilSetBack`, `FieldsKept`: until the clock steps back the ids
  of a process increase over restarts and no id is returned twice by any process; the
  fields of an id can be read back in any case.
- `StoreOK`: whatever is deleted in between and wherever a request stops, no row refers
  to a row that is gone. The database guarantees it statement by statement; the model
  shows that the cascades written in the migrations suffice for that.
- `InviteOvershoot`: an invite with a limit exceeds it by at most one use per other
  request at work, counting those that have tested the limit and not incremented yet.
- `BanHolds`: a banned user is a member only until the last statement of the ban, or
  when the user had passed `AcceptInvite`'s test before the ban was there, or when
  that last statement failed.
- `OwnerStays`: the owner of a guild stays a member while there is the guild.
- `RolesOfOwnGuild`: a member holds roles of that guild only. No constraint says so.
- `DefaultRoleStays`: a guild, with members or without, has exactly one default role,
  unless the `CreateGuild` that inserts it is about to, or has stopped before it. It says
  that nothing else takes it away (`UpdateRole` writes back stale rows, `DeleteRole` tests
  one) and that nothing adds one, not even to a half-made guild that somebody joins.
- `EffectiveMatchesDocs`: the check of a channel decides as the order of
  `docs/permissions.md` says, permission by permission: owner, administrator, overrides
  of the member's roles (allow over deny), override of `@everyone`, the roles' own bits.
- `PagingSeesAll`: who pages to the end has seen every message that was there
  throughout, while others send and delete.
- `OneChannelPerPair`: two users share at most one direct-message channel. Two requests
  that both find none violate it.
- `GroupOvershoot`: how far count-then-insert can be exceeded: by the number of other
  requests at work.
- `PairKeepsBoth`: the calls for groups never change the recipients of a pair.
- `NamesUnique`: no two accounts have one name.
- `SessionKept`: a session that has signed in and not out has a refresh token, or a
  refresh that is about to store one. Parallel refreshes with one token *both* succeed
  and the session then has two tokens; a failure between delete and store ends the
  session, which the property allows for.
- `BurstsBounded`: within any stretch of a window's length at most twice the limit
  passes.

Every property of a passing run has a mutant in `PROJECT.json`: a plausible bug in
one definition (a dropped guard, an off-by-one, a missing reset) under which TLC
finds the property violated.

## 5. Bounds and fairness

- `registry_safety`: one user, one guild, three connections, Redis may fail, the server
  may restart. The manager's state is per user except for the sets in `subscriptions`,
  whose entries for different users never meet in a condition; three connections give a
  displaced one, its successor and the successor's successor, so a late unregister can
  meet both a live and an empty entry. The proofs of section 6 have no bound.
- `registry_presence`: one user, two guilds, two connections, no symmetry (a liveness
  check); PRESENCE_UPDATE with online.
- `replay_*`: a ring of a few slots, `MaxSeq` additions for several laps, one scan with
  the numbers of `MCAsked`. Scans do not influence each other or the ring, so one is
  enough.
- `delivery_*`: one user, one guild, two connections, one service task besides the four
  broadcasts, queue of 1; a buffer of 3 in `delivery_safety`, so that it can be partly
  filled when a scan begins and full when it ends, and of 2 in `delivery_resume`. A scan of
  a buffer that is full from the start and overwritten meanwhile needs more events than
  these; `replay_laps` has it, and the theorems. In `delivery_safety` no event is tracked
  (`Tracked = {}`), and its cfg has a VIEW that drops `clientVars` once every handshake has
  begun: then only `ResumeFrom`, no longer possible, could read them, and of the run's
  properties only the type invariant names them. `delivery_resume` tracks the task's event.
- `services_*`: a scenario is a small database with the calls its clients make and a
  bound on their number (`most`); TLC starts in every scenario. Each puts calls together
  that touch the same rows: `inviting` (joins, kicks and revocation against an invite
  with one use left), `banning`, `founding` (a guild that is created and deleted),
  `stopping` (a creation that stops anywhere, the owner's invite into what there is of
  the guild, another user who joins and leaves it; one guild only, by a rate limit of
  1), `owning`, `ranking` (two guilds, roles edited, deleted and assigned), `overriding`
  (overrides and channels, with a user whose two roles disagree); `reading` (four
  messages' worth of pages of 2), `chatting`, `pairing`, `grouping` (groups of at most
  3), `signing` (two generations of tokens), `limiting` (limit 2, window 2, four time
  units); `services_dm_upsert` has a scenario of its own (two users without a channel).
  Two requests at a time suffice for a race of two methods and three for the bounds that
  grow with the number of requests; requests are symmetric. `ranking` and `overriding`
  are where `EffectiveMatchesDocs` is put to the test: `inviting` and `banning` have no
  channel. The proofs of section 6 have no bound.
- `snowflake_*`: fields of one bit, `MaxTime` milliseconds, `MaxCalls` ids per process:
  every millisecond can be exhausted.

`RingBuffer`, `Delivery` and `Snowflake` stop when their bounded inputs are used up,
so their runs do not check deadlock. `Registry` never stops (members come and go).
`Services` may stop only when every request has been served (`Quiet`): that its runs
check deadlock shows that no request is ever stuck between two statements.

`FairSpec` assumes weak fairness, per connection, of its handler's steps (the Go
scheduler runs runnable goroutines; the database and Redis answer or the 5 second
context ends the wait, which is `FetchFails` or the failing branch of `SetOnline`),
of `ReadFails` on a *closed* socket (a read on it returns at once), and of the grace
goroutine's steps (a sleep ends). Nothing is assumed of clients, of the network, or
of a connection that is merely silent.

## 6. The proofs

All theorems are for every value of the constants that the named assumptions allow;
tlapm checks every leaf. Every invariant and action property of the passing runs but
`RacedScanIsBounded` is stated by a theorem.

**`RegistryProofs`.** From `NoneAssumption` (the null values are no users and no
connections), `StatusAssumption` and `FaultAssumption`: `Spec => []Invariant`, and from
it `TypeOK`, `IndexesSound`, `SingleConnection`, `LiveIsSubscribed`. None of them is
inductive alone. `SingleConnection` needs to know that a connection past `register` has
an entry that only a later `register` of the same user (which closes it) or its own
`unregister` (which ends it) replaces, and `LiveIsSubscribed` needs `SingleConnection`
to know that an unregister which drops subscriptions belongs to no *other* connection
than the live one. `HandshakeShape` adds what the phase says of a connection (no user
before the handshake, closed once gone, nothing subscribed before `register`).
`Invariant` is the conjunction; the step lemma has a case per action.
`QuietIsNotOnlineCorrect` is for a server that does not restart and a Redis that answers
(`~RedisMayFail`, `~MayRestart`), as the run is: once the user's connection is gone, a
handler that may still write is among the `elders` of a sleeping grace goroutine of the
user, which outlasts it (`WritersAreElders`), and a user shown online has a goroutine
that will clear the key (`WillBeCleared`).

**`RingBufferProofs`.** From `SizeAssumption`, `BoundAssumption` and
`AskedAssumption`: `SlotsInOrder` is an invariant, by the position and number the
buffer will have when the addition under way is over, and `Spec => Log!Spec`. In the
refinement only `BeginAdd` is a step of the log; every other store and every load is
a stutter, because the mapping reads the *settled* buffer. The two theorems about scans
follow a walk slot by slot: in the unraced case what is collected is the log up to the
slot that the walk has reached, and in the case of one lap an event that is in the
buffer all the time is either collected already or in a slot still ahead.

**`DeliveryProofs`.** `DeliveryImplementsRegistry` says that every step of the
composition is a step of the registry or leaves it alone, so `Invariant` holds in it.
`DeliveryInvariant` adds types with the capacities (from `NamesAssumption`,
`CapAssumption` and `TrackedAssumption`), what the stage of a dispatch and the phase of a
resume say of their variables (`Shapes`), and `DispatchesCover`: a dispatch under way
still has to reach each connection that has found its guild's buffer, or has reached it, or
is known to race with it (`raced`). This makes `ReplayMissesOnlyRaced` inductive where an
event is stored after the buffer was found: it comes from such a dispatch. `ScansCover`
is the rest, and speaks of a scan under way: each event the buffer holds above the client's
number was there when the scan began, and is then `Due`, or has reached the connection, is
in `raced`, or is still to be sent. When the scan ends with any of its `Results`, what is
`Due` is in the result if the scan was of one lap, and in `raced` if it was not
(`ScanAccounts`). For a scan without additions the result is the log after the client's
number, and `AfterIsNewer` says what is in it. Nothing is assumed of scans beyond
`Results`. `LookUpFindsLive` is an action property that follows from the registry's
`LiveIsSubscribed` and `SingleConnection`.

**`SnowflakeProofs`.** `TypeOK`, `Increasing`, `UniqueUntilSetBack` and `FieldsKept`, for
every width of the fields and every set of processes with distinct numbers. The inductive
invariant says that, until the clock is set back (`setBack`, a history variable), the
latest id of a generator is of an earlier millisecond or carries the current sequence
number (`LatestShape`), and that every id issued packs the numbers of a generator
that has not gone below it since (`IssuedShape`). `Pack` is monotone and injective,
which the lemmas on `TimestampUnit` show by the arithmetic of mixed radices.

**The services.** Four modules share what is assumed and what is known of a step. Assumed
are `TasksAssumption` (finitely many requests at a time, at least one),
`PermissionsAssumption` (the administrator bit is a bit), `WindowAssumption`,
`RecipientsAssumption` and `PageAssumption` (the limits are positive, a group has room for
two) and `ScenarioAssumption` (a scenario's database is `Initial`, its calls have numbers
for limits and finite sets of users). Each theorem has an invariant of its own, whose step
goes through every statement of every service; the lemmas on which request writes which
table (`Dispatch` in `StoreProofs`) leave only the few that matter.

`ServicesProofs`:

- `Resolution` (`EffectiveMatchesDocs`). The masks of the resolver and the order of the
  document agree for every database in which members belong to guilds
  (`MembersOfGuilds`), and this is the inductive part: a deleted guild takes its members
  along, and an insert of a member is refused without the guild.
- `InviteLimit` (`InviteOvershoot`). What is inductive is the sum of the uses and of the
  requests in flight. A request enters only while the uses are below the limit, and then
  at most all other requests are in flight; incrementing moves one from the requests to
  the uses; failing, or an invite that is deleted and whose code is not used again, only
  lowers the sum.
- `Sessions` (`SessionKept`). A session is carried by a token or by a refresh that is
  about to store one (`Kept`, `Storing`). Deleting a token is a refresh, which carries on
  the sessions of that token only, or a logout, which ends them; no other statement
  deletes one.
- `BurstsCorrect` (`BurstsBounded`). Per key there is a time at which the last window
  opened: all admissions since are counted by its counter, and no stretch that ends there
  holds more than the limit. A stretch of one window's length meets two windows at most.

`StoreProofs`: `StoreInv` says that keys are unique and references are satisfied
(`Sound`), and what a request carries into a later statement for that statement to keep
it so (`Carried`): the owner that `UpdateGuild` writes back is a user, the role that
`UpdateRole` writes back has the columns of one. `StoreOK` and `NamesUnique` follow.
Cascades are the larger part: each deletion takes along all rows that would refer to
nothing.

`GuildProofs` is about what a service tests some statements before it writes:

- `RolesCorrect` (`RolesOfOwnGuild`). A role that a request has read to be of the guild is
  still of it, or gone, when the request assigns it: roles do not change their guild and
  ids are not given twice.
- `OwnerCorrect` (`OwnerStays`). `KickMember`, `BanMember` and `LeaveGuild` have each seen
  that the guild is another's, and a guild does not change its owner. The hypothesis
  `LeavesKnownGuilds` says that a client leaves guilds whose ids have been given out:
  `LeaveGuild` does not ask for the guild itself (`member.go:222-228`), and a guild that
  came into being after its test would lose its owner.
- `BanCorrect` (`BanHolds`). A banned member is one whose ban has its last statement still
  to come, or one that `past` remembers as slipping through; every other insert of a
  member has seen no ban and no ban has come since.
- `DefaultRoleCorrect` (`DefaultRoleStays`), without a hypothesis on what is asked.
  `DefaultsInv`: no guild has two default roles; every guild has one, is being founded, or
  is one that `past.halfway` remembers (`Accounted`); a guild that is being founded has
  none yet and is founded by one request; and what `UpdateRole` and `DeleteRole` have read
  of a role still holds of it. Whoever joins a guild meanwhile changes none of this.

The hypothesis of `OwnerCorrect` restricts what clients ask for, never what the server
does, and the scenarios of section 5 satisfy it.

`TalkProofs`:

- `PairCorrect` (`PairKeepsBoth`). The two recipients come with the channel or not at
  all, and nothing removes one.
- `PairsCorrect` (`PairsBounded`: how far `OneChannelPerPair` can be missed, which no
  run checks because the run shows that it is missed) and `GroupCorrect`
  (`GroupOvershoot`) count as `InviteLimit` does: the channels of two users, or the
  recipients of a group, together with the requests that have passed their test and have
  yet to insert.
- `PagingCorrect` (`PagingSeesAll`). `PagingInv`: a message that was there at the start and
  still is has been seen, or has an id below the next page's bound; a message about to be
  inserted has an id that no reader counts on and no other request has.

**Only model-checked:** liveness (`ClosedIsForgotten`, `GoneGoesOffline`), which TLAPS
cannot prove without ENABLED, and `RacedScanIsBounded`, on which the `Results` of a
raced scan in `Delivery` rest. The properties of the five runs that expect a violation are
false, as TLC shows. No module uses a RECURSIVE operator, and nothing is proved by
induction over data.

## 7. Where code and documents disagree

Five runs show that the code does not do what a document or comment of the
repository says; `PROJECT.json` "findings" quotes the lines.

1. *Flashing offline* (`docs/gateway.md:233`): the grace goroutine tests for a
   connection, then writes; a handshake in between leaves a connected user offline.
2. *Nobody hears offline* (`docs/gateway.md:223`): the broadcast goes by
   subscriptions that unregister has removed.
3. *Empty replay* (`manager.go:438`): the addition that fills the ring for the first
   time, between two loads of `since`, makes `count` zero.
4. *Resume passes over events* (`docs/gateway.md:199`, `:211`): the client's number
   counts its connection's payloads, the buffer's count the guild's events.
5. *Several channels for a pair* (`docs/database.md:243`): `GetOrCreateDM` is called an
   upsert, but looks and then inserts, and no constraint is on the pair. Two requests at
   once create two channels; `PairsCorrect` proves that it is one per request at most.

Met while modelling, without a run of their own: a displaced handshake that subscribes
after everybody else has unregistered leaves its subscriptions behind
(`manager.go:255`); after the clock stepped back, ids are returned again
(`snowflake.go:103`); `GUILD_CREATE` is sent when a guild is created and not when a user
joins one (`docs/gateway.md:132`); `SendMessage` takes direct-message channels
(`service/message.go:43`), but `messages` refers to `channels`
(`000007_create_messages.up.sql:3`), where they have no row, and refuses every such message
(the guard of `InsertMessage` says so, whatever the order of steps); a guild whose
`CreateGuild` stopped before its default role can be joined, because its owner may
invite without being a member (`service/permission.go:157`), and nothing makes up for the
role (`service/guild.go:92`); invites do not cascade from a channel
(`docs/database.md:247`, `000009_create_invites.up.sql:4`), though no invite has one;
an upload's row refers to message 0, so every upload ends with a stored object and an
error (`service/upload.go`); the bits of a new guild's `@everyone` (`service/guild.go:68`)
are fewer than `docs/permissions.md` lists.

## 8. What is not modelled

Password hashing, JWT signing and LiveKit tokens (cryptography); SQL text, JSON and
HTTP decoding (conversions without state); search and the other methods that only
read (queries); columns that no condition tests, and with them `UpdateMe` and
`UpdateSelf`; configuration and wiring; the CLI, except for its generator: `seed` writes
demo rows in one SQL transaction with ids of generator (0, 0)
(`retrocast/cmd/retrocast-cli/main.go:171`), which `Snowflake` has, and its other commands
check or migrate a deployment;
components, views and the event stores of the clients; the reconnection of the web and
iOS clients, and the timers of a connection (in `Registry` a connection may end at any
time). `PresenceService`, `SubscribeToGuild`, `UnsubscribeFromGuild`,
`DispatchToGuildExcept`, `IncrementMentionCount` and the permission middleware have no
caller outside tests.

## 9. What comes next

Built so far, in this order, because everything sends through the gateway: `Registry`,
`ReplayLog` and `RingBuffer`, `Snowflake`, `Delivery`; then everything the services do
to the database: `Store`, `Requests`, `Permissions`, `Guilds`, `Roles`,
`Conversations`, `Accounts`, `RateLimit`, `Services`. Most important first:

1. The reconnection of the two clients composed with `Registry` and `Delivery`: two
   devices of one user that displace each other, and the iOS client's RESUME. Abstract
   specification: a client that is connected, waiting or given up.
2. The heartbeats against the 60 second read deadline.
3. Subscriptions composed with membership: who receives the events of a guild after
   joining, leaving, being kicked or banned. `LookUpFindsLive` and `BanHolds` are the two
   ends of that statement.
4. Proofs: how many subscriptions a displaced handler can leave behind
   (`manager.go:255`), from `LiveIsSubscribed`; a bound on the events that queue out of
   the order of their numbers (`connection.go:74`), from `DeliveryInvariant`.

Runs that show a disagreement are kept to those whose consequence is the largest.
