------------------------------ MODULE Delivery ------------------------------
(***************************************************************************)
(* How events travel from a service to the clients: the dispatch methods    *)
(* of the manager, the connections' queues and sequence numbers, the guilds' *)
(* replay buffers and the replay of RESUME, on top of the registry.          *)
(*                                                                         *)
(* A job is one goroutine's dispatch of one event: a service's, the online  *)
(* broadcast of a handshake or the offline broadcast of a grace period.  It *)
(* looks up the connections under the lock and sends and stores without it, *)
(* so registrations, subscriptions, replays and other dispatches come in    *)
(* between.  An event is named by its job.                                  *)
(*                                                                         *)
(* A replay finds the guild's buffer under the read lock of replayMu and    *)
(* scans it without it, while other dispatches add to it.  RingBuffer has    *)
(* the loads and stores of that; here an addition is one step, the scan ends *)
(* with any result that RingBuffer shows to be possible, and the additions   *)
(* in between are those that may have raced with it.                        *)
(*                                                                         *)
(* HELLO, RECONNECT and heartbeats share the queue and carry no number; they *)
(* are left out.  So are the registry's actions that dispatch nothing and   *)
(* that no queue depends on: changes of membership, expiry of presence and  *)
(* the restart, after which no queue or buffer is left.                     *)
(***************************************************************************)
EXTENDS Registry, Integers, Sequences, FiniteSets

CONSTANTS
    Tasks,      \* goroutines of services, each dispatching one event
    QueueCap,   \* sendBufferSize
    ReplayCap,  \* replayBufferSize
    Tracked,    \* jobs for which it is recorded who is up to date with them
    NoGuild,    \* no guild
    NoPayload,  \* nothing
    Torn        \* parts of two events, read while one replaced the other

ASSUME TrackedAssumption == Tracked \subseteq Tasks
ASSUME CapAssumption == QueueCap \in Nat \ {0} /\ ReplayCap \in Nat \ {0}

Online(c) == <<"online", c>>
Offline(c) == <<"offline", c>>
Jobs == Tasks \union {Online(c) : c \in Conns} \union {Offline(c) : c \in Conns}

\* READY is named by the connection it greets.
Payloads == Jobs \union Conns \union {Torn}

VARIABLES
    replay,     \* replay[g]: the guild's buffer and its newest number
    \* locals of a dispatch
    stage,      \* stage[j]: how far job j is
    aims,       \* aims[j]: guilds it has yet to serve
    current,    \* current[j]: the guild it serves now
    targets,    \* targets[j]: connections it has yet to send to
    \* Connection
    nextSeq,    \* nextSeq[c]: Connection.sequence
    queue,      \* queue[c]: Connection.Send
    pending,    \* pending[x]: what job or handler x has numbered, not queued
    \* locals of a RESUME handler
    resumeSeq,  \* resumeSeq[c]: the number the client sent
    replaying,  \* replaying[c]: the guild whose buffer it reads next
    scanning,   \* scanning[c]: the guild whose buffer it reads
    began,      \* began[c]: the buffer's newest number when that scan began
    met,        \* met[c]: the events that were in it since then, oldest first
    backlog,    \* backlog[c]: events found that it has yet to send
    \* clients, by the session they keep
    lastSeq,    \* lastSeq[s]: the number of the last payload received
    seen,       \* seen[s]: READYs and tracked events the client is up to date with
    \* history
    reached,    \* reached[c]: what was queued or dropped for c
    raced       \* raced[c]: events whose dispatch looked up before c subscribed
                \* and had not stored them when c found the buffer, and those in
                \* a buffer that was filled for the first time while c scanned it

dispatchVars == <<stage, aims, current, targets>>
scanVars == <<scanning, began, met>>
resumeVars == <<resumeSeq, replaying, scanVars, backlog>>
clientVars == <<lastSeq, seen>>
deliveryVars == <<replay, dispatchVars, nextSeq, queue, pending, resumeVars,
                  clientVars, reached, raced>>
allVars == <<vars, deliveryVars>>

Senders == Jobs \union Conns
Payload == [to : Conns, s : Nat, e : Payloads]

ASSUME NamesAssumption ==
    /\ NoGuild \notin Guilds /\ NoPayload \notin Payload
    /\ Jobs \cap Conns = {} /\ Torn \notin Jobs \union Conns

DeliveryTypeOK ==
    /\ TypeOK
    /\ \A g \in Guilds : Len(replay[g].log) <= ReplayCap
    /\ stage \in [Jobs -> {"idle", "picking", "sending", "done"}]
    /\ aims \in [Jobs -> SUBSET Guilds]
    /\ current \in [Jobs -> Guilds \union {NoGuild}]
    /\ targets \in [Jobs -> SUBSET Conns]
    /\ nextSeq \in [Conns -> Nat]
    /\ \A c \in Conns : Len(queue[c]) <= QueueCap
    /\ pending \in [Senders -> Payload \union {NoPayload}]
    /\ resumeSeq \in [Conns -> Nat]
    /\ replaying \in [Conns -> Guilds \union {NoGuild}]
    /\ scanning \in [Conns -> Guilds \union {NoGuild}]
    /\ began \in [Conns -> Nat]
    /\ lastSeq \in [Conns -> Nat]
    /\ seen \in [Conns -> SUBSET Payloads]
    /\ reached \in [Conns -> SUBSET Payloads]
    /\ raced \in [Conns -> SUBSET Jobs]

DeliveryInit ==
    /\ Init
    /\ members = [g \in Guilds |-> Users]
    /\ replay = [g \in Guilds |-> [log |-> <<>>, last |-> 0]]
    /\ stage = [j \in Jobs |-> "idle"]
    /\ aims = [j \in Jobs |-> {}]
    /\ current = [j \in Jobs |-> NoGuild]
    /\ targets = [j \in Jobs |-> {}]
    /\ nextSeq = [c \in Conns |-> 0]
    /\ queue = [c \in Conns |-> <<>>]
    /\ pending = [x \in Senders |-> NoPayload]
    /\ resumeSeq = [c \in Conns |-> 0]
    /\ replaying = [c \in Conns |-> NoGuild]
    /\ scanning = [c \in Conns |-> NoGuild]
    /\ began = [c \in Conns |-> 0]
    /\ met = [c \in Conns |-> <<>>]
    /\ backlog = [c \in Conns |-> <<>>]
    /\ lastSeq = [s \in Conns |-> 0]
    /\ seen = [s \in Conns |-> {}]
    /\ reached = [c \in Conns |-> {}]
    /\ raced = [c \in Conns |-> {}]

Log(g) == INSTANCE ReplayLog WITH Capacity <- ReplayCap, Events <- Jobs,
                                  log <- replay[g].log, last <- replay[g].last

-----------------------------------------------------------------------------
(* SendEvent: take the connection's next number, then queue the payload.    *)

Number(x, c, e) ==
    /\ pending[x] = NoPayload
    /\ nextSeq' = IF closed[c] THEN nextSeq ELSE [nextSeq EXCEPT ![c] = @ + 1]
    /\ pending' = [pending EXCEPT ![x] = [to |-> c, s |-> nextSeq'[c], e |-> e]]

OneTooMany(c) == Len(queue[c]) <= QueueCap
RoomFor(c) == Len(queue[c]) < QueueCap

\* A full queue drops the payload; a closed socket loses it with its queue.
Enqueue(x) ==
    LET p == pending[x]
    IN  /\ p # NoPayload
        /\ queue' = IF RoomFor(p.to) /\ ~closed[p.to]
                    THEN [queue EXCEPT ![p.to] = Append(@, [s |-> p.s, e |-> p.e])]
                    ELSE queue
        /\ reached' = IF closed[p.to] THEN reached
                      ELSE [reached EXCEPT ![p.to] = @ \union {p.e}]
        /\ pending' = [pending EXCEPT ![x] = NoPayload]

\* What a client that reads e is up to date with: with READY, all that was
\* dispatched before, which it loads over HTTP.
Read(e) ==
    IF e \in Conns THEN {e} \union {j \in Tracked : stage[j] # "idle"}
    ELSE {e} \cap Tracked

\* writePump writes the oldest payload and the client takes its number.
Deliver(c) ==
    /\ ~closed[c]
    /\ queue[c] # <<>>
    /\ queue' = [queue EXCEPT ![c] = Tail(@)]
    /\ lastSeq' = [lastSeq EXCEPT ![session[c]] = Head(queue[c]).s]
    /\ seen' = [seen EXCEPT ![session[c]] = @ \union Read(Head(queue[c]).e)]
    /\ UNCHANGED <<vars, replay, dispatchVars, nextSeq, pending, resumeVars,
                   reached, raced>>

-----------------------------------------------------------------------------
(* Dispatch *)

\* The connections a dispatch to g looks up.
Registered(users) == {connections[u] : u \in users} \ {NoConn}

StartDispatch(j, gs) ==
    /\ stage[j] = "idle"
    /\ aims' = [aims EXCEPT ![j] = gs]
    /\ stage' = [stage EXCEPT ![j] = IF gs = {} THEN "done" ELSE "picking"]
    /\ UNCHANGED <<vars, replay, current, targets, nextSeq, queue, pending,
                   resumeVars, clientVars, reached, raced>>

\* A service calls DispatchToGuild.
DispatchToGuild(t, g) == t \in Tasks /\ StartDispatch(t, {g})

\* A service calls DispatchToUser: nothing is stored.
DispatchToUser(t, u) ==
    /\ t \in Tasks
    /\ stage[t] = "idle"
    /\ stage' = [stage EXCEPT ![t] = "sending"]
    /\ targets' = [targets EXCEPT ![t] = Registered({u})]
    /\ UNCHANGED <<vars, replay, aims, current, nextSeq, queue, pending,
                   resumeVars, clientVars, reached, raced>>

\* broadcastPresence lists the guilds; the handshake goes on when it is done.
BroadcastOnline(c) ==
    /\ phase[c] = "announcing"
    /\ StartDispatch(Online(c), SubscribedGuilds(user[c]))

BroadcastOffline(c) ==
    /\ grace[c] = "announcing"
    /\ StartDispatch(Offline(c), SubscribedGuilds(user[c]))

LookUp(j, g) ==
    /\ stage[j] = "picking"
    /\ g \in aims[j]
    /\ current' = [current EXCEPT ![j] = g]
    /\ targets' = [targets EXCEPT ![j] = Registered(subscriptions[g])]
    /\ stage' = [stage EXCEPT ![j] = "sending"]
    /\ UNCHANGED <<vars, replay, aims, nextSeq, queue, pending, resumeVars,
                   clientVars, reached, raced>>

SendTo(j, c) ==
    /\ stage[j] = "sending"
    /\ c \in targets[j]
    /\ \/ ~closed[c] /\ Number(j, c, j)
       \/ closed[c] /\ UNCHANGED <<nextSeq, pending>>
    /\ targets' = [targets EXCEPT ![j] = @ \ {c}]
    /\ UNCHANGED <<vars, replay, stage, aims, current, queue, resumeVars,
                   clientVars, reached, raced>>

QueueEvent(j) ==
    /\ Enqueue(j)
    /\ UNCHANGED <<vars, replay, dispatchVars, nextSeq, resumeVars, clientVars,
                   raced>>

\* storeReplayEvent, after the last send; then the next guild, if any.
StoreReplayEvent(j) ==
    LET g == current[j]
    IN  /\ stage[j] = "sending"
        /\ targets[j] = {}
        /\ pending[j] = NoPayload
        /\ replay' = IF g = NoGuild THEN replay
                     ELSE [replay EXCEPT ![g] =
                              [log |-> Log(g)!Stored(@.log, Log(g)!Entry(@.last + 1, j)),
                               last |-> @.last + 1]]
        /\ met' = [c \in Conns |-> IF g # NoGuild /\ scanning[c] = g
                                   THEN Append(met[c], j) ELSE met[c]]
        /\ aims' = [aims EXCEPT ![j] = @ \ {g}]
        /\ current' = [current EXCEPT ![j] = NoGuild]
        /\ stage' = [stage EXCEPT ![j] = IF aims'[j] = {} THEN "done" ELSE "picking"]
        /\ UNCHANGED <<vars, targets, nextSeq, queue, pending, resumeSeq,
                       replaying, scanning, began, backlog, clientVars,
                       reached, raced>>

JobStep(j) ==
    \/ \E g \in Guilds : LookUp(j, g)
    \/ \E c \in Conns : SendTo(j, c)
    \/ QueueEvent(j)
    \/ StoreReplayEvent(j)

-----------------------------------------------------------------------------
(* The registry's steps that send something or wait until it is sent.       *)

\* A step of the registry during which nothing is sent.  A socket that closes
\* takes with it what is kept of its queue here.
Open(f, empty) == [c \in Conns |-> IF closed'[c] THEN empty ELSE f[c]]

Silently(step) ==
    /\ step
    /\ queue' = Open(queue, <<>>)
    /\ nextSeq' = Open(nextSeq, 0)
    /\ reached' = Open(reached, {})
    /\ raced' = Open(raced, {})
    /\ UNCHANGED <<replay, dispatchVars, pending, resumeVars, clientVars>>

ResumeFrom(c, s) ==
    /\ s \in seen[s]
    /\ ReceiveResume(c, s)
    /\ resumeSeq' = [resumeSeq EXCEPT ![c] = lastSeq[s]]
    /\ UNCHANGED <<replay, dispatchVars, nextSeq, queue, pending, replaying,
                   scanVars, backlog, clientVars, reached, raced>>

\* The handler has nothing to replay for the guild it subscribed to last.
ReplayDone(c) ==
    /\ replaying[c] = NoGuild
    /\ scanning[c] = NoGuild
    /\ backlog[c] = <<>>
    /\ pending[c] = NoPayload

SubscribeAndReplay(c, g) ==
    /\ ReplayDone(c)
    /\ SubscribeNext(c, g)
    /\ replaying' = [replaying EXCEPT ![c] = IF Resuming(c) THEN g ELSE NoGuild]
    /\ UNCHANGED <<replay, dispatchVars, nextSeq, queue, pending, resumeSeq,
                   scanVars, backlog, clientVars, reached, raced>>

\* The handler looks for the guild's buffer, under the lock; a guild without
\* an event yet has none.
FindBuffer(c) ==
    LET g == replaying[c]
    IN  /\ g # NoGuild
        /\ replaying' = [replaying EXCEPT ![c] = NoGuild]
        /\ scanning' = [scanning EXCEPT ![c] = IF replay[g].last = 0 THEN NoGuild ELSE g]
        /\ began' = [began EXCEPT ![c] = replay[g].last]
        /\ met' = [met EXCEPT ![c] =
                      [k \in DOMAIN replay[g].log |-> replay[g].log[k].Event]]
        /\ raced' = [raced EXCEPT ![c] = IF closed[c] THEN {} ELSE @ \union
               {j \in Jobs : stage[j] = "sending" /\ current[j] = g
                                /\ c \notin targets[j] /\ j \notin reached[c]}]
        /\ UNCHANGED <<vars, replay, dispatchVars, nextSeq, queue, pending,
                       resumeSeq, backlog, clientVars, reached>>

\* The argument of since.
OneFurther(c) == resumeSeq[c] + 1
AfterSeq(c) == resumeSeq[c]

\* The result of a scan without additions (RingBuffer's UnracedScanIsExact).
Exact(c, g) ==
    LET kept == Log(g)!After(replay[g].log, AfterSeq(c))
    IN  [k \in DOMAIN kept |-> kept[k].Event]

\* Events still in the buffer that were there when the scan began.
Due(c, g) ==
    LET L == replay[g].log
    IN  {L[k].Event : k \in {m \in DOMAIN L :
                                AfterSeq(c) < L[m].Sequence /\ L[m].Sequence <= began[c]}}

\* The buffer has been full from the start of the scan, or is not yet full.
OneLap(c, g) == began[c] >= ReplayCap \/ replay[g].last < ReplayCap

\* Where in met[c] the events are that were in the buffer from the start.
Old(c) == 1 .. (IF began[c] < ReplayCap THEN began[c] ELSE ReplayCap)

\* What places of met[c] say of a result, 0 standing for a torn event.
Picked(c, f) == [k \in DOMAIN f |-> IF f[k] = 0 THEN Torn ELSE met[c][f[k]]]

\* What since may return.  A scan reads each slot once.  When it races with
\* additions it finds no event twice, those that were there from the start in
\* their order, and for each addition one that is new or torn at the most
\* (RacedScanIsBounded in RingBuffer); if it was of one lap it misses nothing
\* that stayed (ScanOfOneLapIsComplete).
Results(c, g) ==
    LET places == UNION {[1 .. n -> 0 .. Len(met[c])] : n \in 0 .. ReplayCap}
        possible(f) ==
            /\ \A k, m \in DOMAIN f : k # m => f[k] # f[m] \/ f[k] = 0
            /\ \A k, m \in DOMAIN f :
                  k < m /\ f[k] \in Old(c) /\ f[m] \in Old(c) => f[k] < f[m]
            /\ Cardinality({k \in DOMAIN f : f[k] \notin Old(c)})
                  <= replay[g].last - began[c]
            /\ OneLap(c, g) => Due(c, g) \subseteq {Picked(c, f)[k] : k \in DOMAIN f}
    IN  IF replay[g].last = began[c] THEN {Exact(c, g)}
        ELSE {Picked(c, f) : f \in {h \in places : possible(h)}}

ScanBuffer(c) ==
    LET g == scanning[c]
    IN  /\ g # NoGuild
        /\ \E found \in Results(c, g) : backlog' = [backlog EXCEPT ![c] = found]
        /\ raced' = [raced EXCEPT ![c] = IF closed[c] THEN {} ELSE @ \union
                        (IF OneLap(c, g) THEN {} ELSE Due(c, g))]
        /\ scanning' = [scanning EXCEPT ![c] = NoGuild]
        /\ began' = [began EXCEPT ![c] = 0]
        /\ met' = [met EXCEPT ![c] = <<>>]
        /\ UNCHANGED <<vars, replay, dispatchVars, nextSeq, queue, pending,
                       resumeSeq, replaying, clientVars, reached>>

SendMissed(c) ==
    /\ backlog[c] # <<>>
    /\ Number(c, c, Head(backlog[c]))
    /\ UNCHANGED <<vars, replay, dispatchVars, queue, resumeVars, clientVars,
                   reached, raced>>

QueueMissed(c) ==
    /\ backlog[c] # <<>>
    /\ Enqueue(c)
    /\ backlog' = [backlog EXCEPT ![c] = Tail(@)]
    /\ UNCHANGED <<vars, replay, dispatchVars, nextSeq, resumeSeq, replaying,
                   scanVars, clientVars, raced>>

NumberReady(c) ==
    /\ phase[c] = "sendingReady"
    /\ Number(c, c, c)
    /\ UNCHANGED <<vars, replay, dispatchVars, queue, resumeVars, clientVars,
                   reached, raced>>

QueueReady(c) ==
    /\ SendReady(c)
    /\ Enqueue(c)
    /\ UNCHANGED <<replay, dispatchVars, nextSeq, resumeVars, clientVars,
                   raced>>

SendingStep(c) ==
    \/ \E g \in Guilds : SubscribeAndReplay(c, g)
    \/ FindBuffer(c) \/ ScanBuffer(c) \/ SendMissed(c) \/ QueueMissed(c)
    \/ ReplayDone(c) /\ Silently(FinishSubscribing(c))
    \/ NumberReady(c) \/ QueueReady(c)
    \/ BroadcastOnline(c)
    \/ stage[Online(c)] = "done" /\ Silently(Announce(c))

QuietStep(c) ==
    Silently(FetchGuilds(c) \/ FetchFails(c) \/ Register(c) \/ SetOnline(c))

GraceWork(c) ==
    \/ Silently(GraceWakes(c) \/ GraceSetsOffline(c))
    \/ BroadcastOffline(c)
    \/ stage[Offline(c)] = "done" /\ Silently(GraceAnnounces(c))

DialAndGreet(c) ==
    Silently(Dial(c) \/ RejectHandshake(c) \/ \E u \in Users : ReceiveIdentify(c, u))

DeliveryNext ==
    \/ \E t \in Tasks, g \in Guilds : DispatchToGuild(t, g)
    \/ \E t \in Tasks, u \in Users : DispatchToUser(t, u)
    \/ \E j \in Jobs : JobStep(j)
    \/ \E c \in Conns :
          \/ DialAndGreet(c)
          \/ \E s \in Conns : ResumeFrom(c, s)
          \/ QuietStep(c) \/ SendingStep(c) \/ GraceWork(c)
          \/ Deliver(c)
          \/ Silently(WriterStops(c) \/ ReadFails(c))

DeliverySpec == DeliveryInit /\ [][DeliveryNext]_allVars

-----------------------------------------------------------------------------
\* A dispatch reaches every connection that is open and has subscribed to the
\* guild, whatever handshakes and disconnects of the same user went on.
LookUpFindsLive ==
    [][\A j \in Jobs, c \in Conns :
          stage[j] = "picking" /\ stage'[j] = "sending" /\ Live(c)
              /\ current'[j] \in guilds[c] \ todo[c] =>
                  c \in targets'[j]]_allVars

\* Once a handler has read the buffer of guild g, the events of g that the
\* buffer holds and that are newer than the number the client sent have been
\* queued for the connection, or dropped because its queue was full, or are
\* about to be, but for those that raced with the replay: a dispatch stored
\* them after it for connections it had looked up before the subscription, or
\* the buffer was filled for the first time while the handler scanned it.
ReplayedUpTo(c, g) ==
    \A k \in DOMAIN replay[g].log :
        LET x == replay[g].log[k]
        IN  x.Sequence > resumeSeq[c] =>
                \/ x.Event \in reached[c] \union raced[c]
                \/ \E m \in DOMAIN backlog[c] : backlog[c][m] = x.Event

Replayed(c, g) ==
    /\ Live(c) /\ Resuming(c)
    /\ g \in guilds[c] \ todo[c]
    /\ replaying[c] # g /\ scanning[c] # g

ReplayMissesOnlyRaced ==
    \A c \in Conns, g \in Guilds : Replayed(c, g) => ReplayedUpTo(c, g)

\* docs/gateway.md: a client resumes "to receive missed events", those with a
\* number greater than its last.  The number it sends counts the payloads of
\* its old connection, the buffer counts the events of the guild: an event that
\* the buffer holds, that the client has not seen and that did not race with
\* the replay is passed over.
ResumeReplaysMissed ==
    \A c \in Conns, g \in Guilds : Replayed(c, g) =>
        \A k \in DOMAIN replay[g].log :
            LET e == replay[g].log[k].Event
            IN  e \in Tracked =>
                \/ e \in seen[session[c]] \union reached[c] \union raced[c]
                \/ \E m \in DOMAIN backlog[c] : backlog[c][m] = e

=============================================================================
