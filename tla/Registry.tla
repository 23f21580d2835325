------------------------------ MODULE Registry ------------------------------
(***************************************************************************)
(* The connection registry of the gateway: who is connected, which guilds *)
(* a user's events come from, and the presence the server keeps for them.  *)
(*                                                                         *)
(* Every WebSocket connection has a goroutine (readPump) that reads one   *)
(* message at a time and runs its handler to the end.  A handler takes the *)
(* manager's lock several times and waits for the database and for Redis  *)
(* in between, so the steps of two handlers, of the goroutines that clear *)
(* presence after a disconnect and of the writers that close a dead socket *)
(* interleave.  One action is one step of one goroutine: what it does      *)
(* under one acquisition of the lock, or one call of a store.              *)
(*                                                                         *)
(* A session id is named by the connection whose IDENTIFY minted it.       *)
(***************************************************************************)
EXTENDS FiniteSets

CONSTANTS
    Users,          \* user ids
    Guilds,         \* guild ids
    Conns,          \* connections, each used for one WebSocket
    NoUser,         \* Connection.UserID before the handshake
    NoConn,         \* no entry in a map of connections
    ClientStatuses, \* the statuses clients ask for with PRESENCE_UPDATE
    RedisMayFail,   \* whether a Redis command may return an error
    MayRestart      \* whether the server process may die and start again

ASSUME NoneAssumption == NoUser \notin Users /\ NoConn \notin Conns
ASSUME StatusAssumption == ClientStatuses \subseteq {"online", "offline"}
ASSUME FaultAssumption == RedisMayFail \in BOOLEAN /\ MayRestart \in BOOLEAN

VARIABLES
    members,        \* members[g]: the rows of guild g in table members
    \* Manager
    connections,    \* connections[u]: the connection registered for user u
    subscriptions,  \* subscriptions[g]: users who get the events of guild g
    sessions,       \* sessions[s]: the connection holding session s
    \* Redis
    presence,       \* presence[u]: the key presence:u
    \* Connection and the locals of the handler its readPump runs
    phase,          \* phase[c]: where the readPump of c stands
    closed,         \* closed[c]: Close was called, the socket is closed
    user,           \* user[c]: Connection.UserID
    session,        \* session[c]: Connection.SessionID
    guilds,         \* guilds[c]: what GetByUserID returned to the handler
    todo,           \* todo[c]: guilds the handler has yet to subscribe to
    wish,           \* wish[c]: the status a PRESENCE_UPDATE asks for
    expired,        \* connections whose handler's 5 s context has run out
    \* goroutines running clearPresenceWithGrace
    grace,          \* grace[c]: the one unregister(c) started
    elders,         \* elders[c]: handshakes of the user older than grace[c]
    \* clients
    known           \* sessions a READY told a client about

managerVars == <<connections, subscriptions, sessions>>
connVars == <<phase, closed, user, session, guilds, todo, wish, expired>>
graceVars == <<grace, elders>>
vars == <<members, managerVars, presence, connVars, graceVars, known>>

Presences == {"unset", "online", "offline"}

\* Phases of a handler that still has a use for its 5 second context.
ContextPhases ==
    {"fetching", "registering", "subscribing", "settingOnline", "updating"}

Phases == ContextPhases \union
    {"new", "reading", "sendingReady", "announcing", "gone"}

TypeOK ==
    /\ members \in [Guilds -> SUBSET Users]
    /\ connections \in [Users -> Conns \union {NoConn}]
    /\ subscriptions \in [Guilds -> SUBSET Users]
    /\ sessions \in [Conns -> Conns \union {NoConn}]
    /\ presence \in [Users -> Presences]
    /\ phase \in [Conns -> Phases]
    /\ closed \in [Conns -> BOOLEAN]
    /\ user \in [Conns -> Users \union {NoUser}]
    /\ session \in [Conns -> Conns \union {NoConn}]
    /\ guilds \in [Conns -> SUBSET Guilds]
    /\ todo \in [Conns -> SUBSET Guilds]
    /\ wish \in [Conns -> {"online", "offline"}]
    /\ expired \in SUBSET Conns
    /\ grace \in [Conns -> {"idle", "sleeping", "setting", "announcing"}]
    /\ elders \in [Conns -> SUBSET Conns]
    /\ known \in SUBSET Conns

Init ==
    /\ members \in [Guilds -> SUBSET Users]
    /\ connections = [u \in Users |-> NoConn]
    /\ subscriptions = [g \in Guilds |-> {}]
    /\ sessions = [s \in Conns |-> NoConn]
    /\ presence = [u \in Users |-> "unset"]
    /\ phase = [c \in Conns |-> "new"]
    /\ closed = [c \in Conns |-> FALSE]
    /\ user = [c \in Conns |-> NoUser]
    /\ session = [c \in Conns |-> NoConn]
    /\ guilds = [c \in Conns |-> {}]
    /\ todo = [c \in Conns |-> {}]
    /\ wish = [c \in Conns |-> "online"]
    /\ expired = {}
    /\ grace = [c \in Conns |-> "idle"]
    /\ elders = [c \in Conns |-> {}]
    /\ known = {}

-----------------------------------------------------------------------------
\* Guilds of u in the database, and guilds whose events u would be sent.
GuildsOf(u) == {g \in Guilds : u \in members[g]}
SubscribedGuilds(u) == {g \in Guilds : u \in subscriptions[g]}

\* The connections that are open and were admitted by IDENTIFY or RESUME.
Live(c) ==
    /\ ~closed[c]
    /\ user[c] # NoUser
    /\ phase[c] \notin {"fetching", "registering"}

\* A RESUME handler works with a session that another connection minted.
Resuming(c) == session[c] # c

-----------------------------------------------------------------------------
(* The guild services, as far as the gateway can see them: rows of members  *)
(* come and go.  No service calls SubscribeToGuild or UnsubscribeFromGuild. *)

JoinGuild(u, g) ==
    /\ u \notin members[g]
    /\ members' = [members EXCEPT ![g] = @ \union {u}]
    /\ UNCHANGED <<managerVars, presence, connVars, graceVars, known>>

LeaveGuild(u, g) ==
    /\ u \in members[g]
    /\ members' = [members EXCEPT ![g] = @ \ {u}]
    /\ UNCHANGED <<managerVars, presence, connVars, graceVars, known>>

-----------------------------------------------------------------------------
(* Connections *)

Dial(c) ==
    /\ phase[c] = "new"
    /\ phase' = [phase EXCEPT ![c] = "reading"]
    /\ UNCHANGED <<members, managerVars, presence, closed, user, session,
                   guilds, todo, wish, expired, graceVars, known>>

\* A message of the client can still be read: both clients send a handshake
\* once per socket, in answer to HELLO.
AwaitsHandshake(c) == phase[c] = "reading" /\ ~closed[c] /\ user[c] = NoUser

\* IDENTIFY or RESUME with an unreadable payload or a token that is refused.
RejectHandshake(c) ==
    /\ AwaitsHandshake(c)
    /\ closed' = [closed EXCEPT ![c] = TRUE]
    /\ UNCHANGED <<members, managerVars, presence, phase, user, session,
                   guilds, todo, wish, expired, graceVars, known>>

BeginHandshake(c, u, s) ==
    /\ AwaitsHandshake(c)
    /\ user' = [user EXCEPT ![c] = u]
    /\ session' = [session EXCEPT ![c] = s]
    /\ phase' = [phase EXCEPT ![c] = "fetching"]
    /\ UNCHANGED <<members, managerVars, presence, closed, guilds, todo, wish,
                   expired, graceVars, known>>

ReceiveIdentify(c, u) == BeginHandshake(c, u, c)

\* The client resumes a session its own READY named; nothing looks it up.
ReceiveResume(c, s) == s \in known /\ BeginHandshake(c, user[s], s)

FetchGuilds(c) ==
    /\ phase[c] = "fetching"
    /\ c \notin expired
    /\ guilds' = [guilds EXCEPT ![c] = GuildsOf(user[c])]
    /\ todo' = [todo EXCEPT ![c] = GuildsOf(user[c])]
    /\ phase' = [phase EXCEPT ![c] = "registering"]
    /\ UNCHANGED <<members, managerVars, presence, closed, user, session, wish,
                   expired, graceVars, known>>

FetchFails(c) ==
    /\ phase[c] = "fetching"
    /\ closed' = [closed EXCEPT ![c] = TRUE]
    /\ phase' = [phase EXCEPT ![c] = "reading"]
    /\ UNCHANGED <<members, managerVars, presence, user, session, guilds, todo,
                   wish, expired, graceVars, known>>

\* Manager.register: displace the user's connection, enter this one.
SessionsKeepingDisplaced(c, old) == [sessions EXCEPT ![session[c]] = c]

SessionsAfterRegister(c, old) ==
    [s \in Conns |->
        IF s = session[c] THEN c
        ELSE IF old # NoConn /\ s = session[old] THEN NoConn
        ELSE sessions[s]]

Register(c) ==
    LET old == connections[user[c]]
    IN  /\ phase[c] = "registering"
        /\ connections' = [connections EXCEPT ![user[c]] = c]
        /\ closed' = [d \in Conns |-> closed[d] \/ d = old]
        /\ sessions' = SessionsAfterRegister(c, old)
        /\ phase' = [phase EXCEPT ![c] = "subscribing"]
        /\ UNCHANGED <<members, subscriptions, presence, user, session, guilds,
                       todo, wish, expired, graceVars, known>>

SubscribeSwapped(c, g) ==
    /\ phase[c] = "subscribing"
    /\ g \in todo[c]
    /\ subscriptions' = [x \in Guilds \union {user[c]} |->
                            IF x = user[c] THEN {g} ELSE subscriptions[x]]
    /\ todo' = [todo EXCEPT ![c] = @ \ {g}]
    /\ UNCHANGED <<members, connections, sessions, presence, phase, closed,
                   user, session, guilds, wish, expired, graceVars, known>>

SubscribeNext(c, g) ==
    /\ phase[c] = "subscribing"
    /\ g \in todo[c]
    /\ subscriptions' = [subscriptions EXCEPT ![g] = @ \union {user[c]}]
    /\ todo' = [todo EXCEPT ![c] = @ \ {g}]
    /\ UNCHANGED <<members, connections, sessions, presence, phase, closed,
                   user, session, guilds, wish, expired, graceVars, known>>

\* The loop over the guilds ends; RESUME has nothing more to do.
FinishSubscribing(c) ==
    /\ phase[c] = "subscribing"
    /\ todo[c] = {}
    /\ phase' = [phase EXCEPT
           ![c] = IF Resuming(c) THEN "reading" ELSE "settingOnline"]
    /\ UNCHANGED <<members, managerVars, presence, closed, user, session,
                   guilds, todo, wish, expired, graceVars, known>>

\* A dead context or a failing Redis is logged and the handshake goes on.
SetOnline(c) ==
    /\ phase[c] = "settingOnline"
    /\ \/ /\ c \notin expired
          /\ presence' = [presence EXCEPT ![user[c]] = "online"]
       \/ /\ c \in expired \/ RedisMayFail
          /\ UNCHANGED presence
    /\ phase' = [phase EXCEPT ![c] = "sendingReady"]
    /\ UNCHANGED <<members, managerVars, closed, user, session, guilds, todo,
                   wish, expired, graceVars, known>>

SendReady(c) ==
    /\ phase[c] = "sendingReady"
    /\ known' = known \union {c}
    /\ phase' = [phase EXCEPT ![c] = "announcing"]
    /\ UNCHANGED <<members, managerVars, presence, closed, user, session,
                   guilds, todo, wish, expired, graceVars>>

\* broadcastPresence; the events it sends change nothing kept here.
Announce(c) ==
    /\ phase[c] = "announcing"
    /\ phase' = [phase EXCEPT ![c] = "reading"]
    /\ UNCHANGED <<members, managerVars, presence, closed, user, session,
                   guilds, todo, wish, expired, graceVars, known>>

\* handlePresenceUpdate; "invisible" is stored and broadcast as "offline".
ReceivePresenceUpdate(c, st) ==
    /\ phase[c] = "reading"
    /\ Live(c)
    /\ wish' = [wish EXCEPT ![c] = st]
    /\ expired' = expired \ {c}
    /\ elders' = [d \in Conns |-> elders[d] \ {c}]
    /\ phase' = [phase EXCEPT ![c] = "updating"]
    /\ UNCHANGED <<members, managerVars, presence, closed, user, session,
                   guilds, todo, grace, known>>

UpdatePresence(c) ==
    /\ phase[c] = "updating"
    /\ \/ /\ c \notin expired
          /\ presence' = [presence EXCEPT ![user[c]] = wish[c]]
          /\ phase' = [phase EXCEPT ![c] = "announcing"]
       \/ /\ c \in expired \/ RedisMayFail
          /\ UNCHANGED presence
          /\ phase' = [phase EXCEPT ![c] = "reading"]
    /\ UNCHANGED <<members, managerVars, closed, user, session, guilds, todo,
                   wish, expired, graceVars, known>>

\* writePump returns: a write failed or the heartbeat is overdue.
WriterStops(c) ==
    /\ phase[c] \notin {"new", "gone"}
    /\ ~closed[c]
    /\ closed' = [closed EXCEPT ![c] = TRUE]
    /\ UNCHANGED <<members, managerVars, presence, phase, user, session, guilds,
                   todo, wish, expired, graceVars, known>>
\* unregister: what belongs to the user goes only with the connection that the
\* user is still registered with; the session goes with any.
OwnerUnchecked(c) == user[c] # NoUser /\ connections[user[c]] # NoConn
OwnerBySession(c) == session[c] # NoConn /\ sessions[session[c]] = c
Owner(c) == user[c] # NoUser /\ connections[user[c]] = c

SubscriptionsAlwaysDropped(c) == [g \in Guilds |-> subscriptions[g] \ {user[c]}]
SubscriptionsAfterLeave(c) ==
    IF Owner(c) THEN [g \in Guilds |-> subscriptions[g] \ {user[c]}]
    ELSE subscriptions

StartsGraceIfSubscribed(c) == Owner(c) /\ SubscribedGuilds(user[c]) # {}
StartsGrace(c) == Owner(c)

\* Handlers of the user whose context is older than the goroutine started now.
RunningHandlers(c) ==
    {d \in Conns : user[d] = user[c] /\ phase[d] \in ContextPhases}

\* readPump returns: unregister, then Close.  The peer has gone, the read
\* deadline has passed, or the server closed the socket.
ReadFails(c) ==
    /\ phase[c] = "reading"
    /\ phase' = [phase EXCEPT ![c] = "gone"]
    /\ closed' = [closed EXCEPT ![c] = TRUE]
    /\ connections' = IF Owner(c) THEN [connections EXCEPT ![user[c]] = NoConn]
                      ELSE connections
    /\ subscriptions' = SubscriptionsAfterLeave(c)
    /\ sessions' = [s \in Conns |->
           IF s = session[c] THEN NoConn ELSE sessions[s]]
    /\ IF StartsGrace(c)
       THEN /\ grace' = [grace EXCEPT ![c] = "sleeping"]
            /\ elders' = [elders EXCEPT ![c] = RunningHandlers(c)]
       ELSE UNCHANGED graceVars
    /\ UNCHANGED <<members, presence, user, session, guilds, todo, wish,
                   expired, known>>

-----------------------------------------------------------------------------
(* clearPresenceWithGrace, in the goroutine that unregister(c) started.     *)

\* It has slept 10 seconds: the 5 second contexts of the handlers that were
\* running when it went to sleep are over.
NoneOverdue(c) == {}
Overdue(c) == elders[c]

GraceWakes(c) ==
    /\ grace[c] = "sleeping"
    /\ grace' = [grace EXCEPT ![c] =
           IF connections[user[c]] = NoConn THEN "setting" ELSE "idle"]
    /\ expired' = expired \union Overdue(c)
    /\ elders' = [elders EXCEPT ![c] = {}]
    /\ UNCHANGED <<members, managerVars, presence, phase, closed, user, session,
                   guilds, todo, wish, known>>

GraceSetsOffline(c) ==
    /\ grace[c] = "setting"
    /\ \/ presence' = [presence EXCEPT ![user[c]] = "offline"]
       \/ RedisMayFail /\ UNCHANGED presence
    /\ grace' = [grace EXCEPT ![c] = "announcing"]
    /\ UNCHANGED <<members, managerVars, connVars, elders, known>>

\* broadcastPresence goes to the guilds in SubscribedGuilds(user[c]).
GraceAnnounces(c) ==
    /\ grace[c] = "announcing"
    /\ grace' = [grace EXCEPT ![c] = "idle"]
    /\ UNCHANGED <<members, managerVars, presence, connVars, elders, known>>

-----------------------------------------------------------------------------
\* The key of u outlives its 5 minutes; nothing but a SetPresence renews it.
PresenceExpires(u) ==
    /\ presence[u] # "unset"
    /\ presence' = [presence EXCEPT ![u] = "unset"]
    /\ UNCHANGED <<members, managerVars, connVars, graceVars, known>>

\* The process dies and NewManager starts from nothing; Redis, the database
\* and what the clients know survive.
Restart ==
    /\ MayRestart
    /\ connections' = [u \in Users |-> NoConn]
    /\ subscriptions' = [g \in Guilds |-> {}]
    /\ sessions' = [s \in Conns |-> NoConn]
    /\ phase' = [c \in Conns |-> IF phase[c] = "new" THEN "new" ELSE "gone"]
    /\ closed' = [c \in Conns |-> phase[c] # "new"]
    /\ todo' = [c \in Conns |-> {}]
    /\ expired' = {}
    /\ grace' = [c \in Conns |-> "idle"]
    /\ elders' = [c \in Conns |-> {}]
    /\ UNCHANGED <<members, presence, user, session, guilds, wish, known>>

HandlerStep(c) ==
    \/ FetchGuilds(c) \/ FetchFails(c)
    \/ Register(c)
    \/ \E g \in Guilds : SubscribeNext(c, g)
    \/ FinishSubscribing(c)
    \/ SetOnline(c) \/ SendReady(c) \/ Announce(c)
    \/ UpdatePresence(c)

ClientStep(c) ==
    \/ Dial(c) \/ RejectHandshake(c)
    \/ \E u \in Users : ReceiveIdentify(c, u)
    \/ \E s \in Conns : ReceiveResume(c, s)
    \/ \E st \in ClientStatuses : ReceivePresenceUpdate(c, st)

GraceStep(c) == GraceWakes(c) \/ GraceSetsOffline(c) \/ GraceAnnounces(c)

Next ==
    \/ \E u \in Users, g \in Guilds : JoinGuild(u, g) \/ LeaveGuild(u, g)
    \/ \E c \in Conns :
          ClientStep(c) \/ HandlerStep(c) \/ WriterStops(c) \/ ReadFails(c)
              \/ GraceStep(c)
    \/ \E u \in Users : PresenceExpires(u)
    \/ Restart

Spec == Init /\ [][Next]_vars

\* The Go scheduler runs every goroutine that can run; a store answers or its
\* context ends the wait; a read on a closed socket returns.
FairSpec ==
    /\ Spec
    /\ \A c \in Conns :
          /\ WF_vars(HandlerStep(c))
          /\ WF_vars(closed[c] /\ ReadFails(c))
          /\ WF_vars(GraceStep(c))

-----------------------------------------------------------------------------
\* The connection that user u is registered with carries u, and its readPump
\* has entered it and not left.
EntrySound(u) ==
    connections[u] # NoConn =>
        /\ user[connections[u]] = u
        /\ phase[connections[u]] \notin {"new", "fetching", "registering", "gone"}

\* Session s leads to a connection that holds it and is its user's current one.
SessionSound(s) ==
    sessions[s] # NoConn =>
        /\ session[sessions[s]] = s
        /\ user[sessions[s]] # NoUser
        /\ connections[user[sessions[s]]] = sessions[s]

ConnectionsSound == \A u \in Users : EntrySound(u)
SessionsSound == \A s \in Conns : SessionSound(s)

\* The manager's maps agree with each other and with the connections they
\* hold, at every moment at which the lock is free.
IndexesSound == ConnectionsSound /\ SessionsSound

\* "Only one active connection per user": an open, admitted connection is the
\* one its user is registered with, whatever its predecessors still have to
\* unregister.
SingleConnection == \A c \in Conns : Live(c) => connections[user[c]] = c

Subscribed(c) ==
    Live(c) => guilds[c] \ todo[c] \subseteq SubscribedGuilds(user[c])

\* No step of another connection of the user takes away a subscription that
\* the handshake of the live one has made.
LiveIsSubscribed == \A c \in Conns : Subscribed(c)

\* What the phase of a handler says of its connection; with it the safety
\* properties above are inductive.
HandshakeShape ==
    \A c \in Conns :
        /\ user[c] = NoUser => /\ phase[c] \in {"new", "reading", "gone"}
                               /\ session[c] = NoConn
                               /\ c \notin known
        /\ phase[c] = "new" => user[c] = NoUser
        /\ phase[c] = "gone" => closed[c]
        /\ phase[c] = "registering" => todo[c] = guilds[c]

Invariant ==
    /\ TypeOK
    /\ HandshakeShape
    /\ IndexesSound
    /\ SingleConnection
    /\ LiveIsSubscribed

\* The user is not connected and no goroutine is about to change that or to
\* write the user's presence.
Quiet(u) ==
    /\ connections[u] = NoConn
    /\ \A c \in Conns : user[c] = u =>
          /\ phase[c] \notin ContextPhases
          /\ grace[c] \notin {"sleeping", "setting"}

\* Once a user has gone and the grace period is over the presence key does
\* not say online: no handler that outlives the connection writes it last.
QuietIsNotOnline == \A u \in Users : Quiet(u) => presence[u] # "online"

\* A connection that is closed is forgotten by the manager.
ClosedIsForgotten ==
    \A c \in Conns : closed[c] ~>
        /\ \A u \in Users : connections[u] # c
        /\ \A s \in Conns : sessions[s] # c

\* A user who goes and does not come back stops being shown online.
GoneGoesOffline ==
    \A u \in Users : connections[u] = NoConn ~>
        (connections[u] # NoConn \/ presence[u] # "online")

-----------------------------------------------------------------------------
\* What the documentation says and the code does not do.

\* docs/gateway.md: the grace period lets a user reconnect without flashing
\* offline, so the server never marks offline a user who is connected.
NoOfflineFlash ==
    [][\A u \in Users :
          presence[u] # "offline" /\ presence'[u] = "offline" =>
              connections[u] = NoConn]_vars

\* docs/gateway.md: presence is broadcast to all guilds the user belongs to.
OfflineReachesGuilds ==
    [][\A c \in Conns : GraceAnnounces(c) =>
          guilds[c] \cap GuildsOf(user[c]) \subseteq SubscribedGuilds(user[c])]_vars

=============================================================================
