--------------------------- MODULE RegistryProofs ---------------------------
(***************************************************************************)
(* What Registry promises for any sets of users, guilds and connections:   *)
(* type correctness, the agreement of the manager's maps, one connection   *)
(* per user, and the subscriptions of the live connection.                 *)
(***************************************************************************)
EXTENDS Registry, TLAPS

USE NoneAssumption, StatusAssumption, FaultAssumption

-----------------------------------------------------------------------------
\* Every step keeps every variable in its type.
LEMMA TypeInit == Init => TypeOK
  BY DEF Init, TypeOK, Phases, ContextPhases, Presences

LEMMA TypeStep == TypeOK /\ HandshakeShape /\ [Next]_vars => TypeOK'
<1> SUFFICES ASSUME TypeOK, HandshakeShape, [Next]_vars PROVE TypeOK'
  OBVIOUS
<1> USE DEF TypeOK, Phases, ContextPhases, Presences, managerVars, connVars,
            graceVars
<1>1. ASSUME NEW u \in Users, NEW g \in Guilds, JoinGuild(u, g) \/ LeaveGuild(u, g)
      PROVE  TypeOK'
  BY <1>1 DEF JoinGuild, LeaveGuild
<1>0. ASSUME NEW c \in Conns, phase[c] \notin {"new", "reading", "gone"}
      PROVE  user[c] \in Users
  BY <1>0 DEF HandshakeShape
<1>2. ASSUME NEW c \in Conns, ClientStep(c) PROVE TypeOK'
  <2>1. CASE Dial(c) BY <2>1 DEF Dial
  <2>2. CASE RejectHandshake(c) BY <2>2 DEF RejectHandshake, AwaitsHandshake
  <2>3. ASSUME NEW u \in Users, ReceiveIdentify(c, u) PROVE TypeOK'
    BY <2>3 DEF ReceiveIdentify, BeginHandshake, AwaitsHandshake
  <2>4. ASSUME NEW s \in Conns, ReceiveResume(c, s) PROVE TypeOK'
    BY <2>4 DEF ReceiveResume, BeginHandshake, AwaitsHandshake
  <2>5. ASSUME NEW st \in ClientStatuses, ReceivePresenceUpdate(c, st)
        PROVE  TypeOK'
    BY <2>5 DEF ReceivePresenceUpdate
  <2> QED BY <1>2, <2>1, <2>2, <2>3, <2>4, <2>5 DEF ClientStep
<1>3. ASSUME NEW c \in Conns, HandlerStep(c) PROVE TypeOK'
  <2>1. CASE FetchGuilds(c) BY <2>1 DEF FetchGuilds, GuildsOf
  <2>2. CASE FetchFails(c) BY <2>2 DEF FetchFails
  <2>3. CASE Register(c) BY <2>3 DEF Register, SessionsAfterRegister
  <2>4. ASSUME NEW g \in Guilds, SubscribeNext(c, g) PROVE TypeOK'
    BY <1>0, <2>4 DEF SubscribeNext
  <2>5. CASE FinishSubscribing(c) BY <2>5 DEF FinishSubscribing, Resuming
  <2>6. CASE SetOnline(c) BY <2>6 DEF SetOnline
  <2>7. CASE SendReady(c) BY <2>7 DEF SendReady
  <2>8. CASE Announce(c) BY <2>8 DEF Announce
  <2>9. CASE UpdatePresence(c) BY <2>9 DEF UpdatePresence
  <2> QED
    BY <1>3, <2>1, <2>2, <2>3, <2>4, <2>5, <2>6, <2>7, <2>8, <2>9 DEF HandlerStep
<1>4. ASSUME NEW c \in Conns, WriterStops(c) PROVE TypeOK'
  BY <1>4 DEF WriterStops
<1>5. ASSUME NEW c \in Conns, ReadFails(c) PROVE TypeOK'
  <2> USE <1>5 DEF ReadFails
  <2>1. (/\ connections \in [Users -> Conns \union {NoConn}]
         /\ sessions \in [Conns -> Conns \union {NoConn}])'
    BY DEF Owner
  <2>2. (subscriptions \in [Guilds -> SUBSET Users])'
    BY DEF SubscriptionsAfterLeave
  <2> RunningHandlers(c) \in SUBSET Conns
    BY DEF RunningHandlers
  <2>3. (/\ grace \in [Conns -> {"idle", "sleeping", "setting", "announcing"}]
         /\ elders \in [Conns -> SUBSET Conns])'
    OBVIOUS
  <2>4. (/\ phase \in [Conns -> Phases]
         /\ closed \in [Conns -> BOOLEAN])'
    OBVIOUS
  <2> QED BY <2>1, <2>2, <2>3, <2>4
<1>6. ASSUME NEW c \in Conns, GraceStep(c) PROVE TypeOK'
  BY <1>6 DEF GraceStep, GraceWakes, GraceSetsOffline, GraceAnnounces, Overdue
<1>7. ASSUME NEW u \in Users, PresenceExpires(u) PROVE TypeOK'
  BY <1>7 DEF PresenceExpires
<1>8. CASE Restart BY <1>8 DEF Restart
<1>9. CASE UNCHANGED vars BY <1>9 DEF vars
<1> QED BY <1>1, <1>2, <1>3, <1>4, <1>5, <1>6, <1>7, <1>8, <1>9 DEF Next

-----------------------------------------------------------------------------
\* Which phase a handler is in says what its connection carries.
LEMMA ShapeStep == Invariant /\ [Next]_vars => HandshakeShape'
<1> SUFFICES ASSUME Invariant, [Next]_vars, NEW d \in Conns
             PROVE  /\ user'[d] = NoUser => /\ phase'[d] \in {"new", "reading", "gone"}
                                            /\ session'[d] = NoConn
                                            /\ d \notin known'
                    /\ phase'[d] = "new" => user'[d] = NoUser
                    /\ phase'[d] = "gone" => closed'[d]
                    /\ phase'[d] = "registering" => todo'[d] = guilds'[d]
  BY DEF HandshakeShape
<1> DEFINE Goal == /\ user'[d] = NoUser => /\ phase'[d] \in {"new", "reading", "gone"}
                                            /\ session'[d] = NoConn
                                            /\ d \notin known'
                   /\ phase'[d] = "new" => user'[d] = NoUser
                   /\ phase'[d] = "gone" => closed'[d]
                   /\ phase'[d] = "registering" => todo'[d] = guilds'[d]
<1> USE DEF Invariant, HandshakeShape, TypeOK, connVars
<1>1. ASSUME NEW u \in Users, NEW g \in Guilds, JoinGuild(u, g) \/ LeaveGuild(u, g)
      PROVE  Goal
  BY <1>1 DEF JoinGuild, LeaveGuild
<1>2. ASSUME NEW c \in Conns, ClientStep(c) PROVE Goal
  <2>1. CASE Dial(c) BY <2>1 DEF Dial
  <2>2. CASE RejectHandshake(c) BY <2>2 DEF RejectHandshake, AwaitsHandshake
  <2>3. ASSUME NEW u \in Users, ReceiveIdentify(c, u) PROVE Goal
    BY <2>3 DEF ReceiveIdentify, BeginHandshake, AwaitsHandshake
  <2>4. ASSUME NEW s \in Conns, ReceiveResume(c, s) PROVE Goal
    BY <2>4 DEF ReceiveResume, BeginHandshake, AwaitsHandshake
  <2>5. ASSUME NEW st \in ClientStatuses, ReceivePresenceUpdate(c, st)
        PROVE  Goal
    BY <2>5 DEF ReceivePresenceUpdate, Live
  <2> QED BY <1>2, <2>1, <2>2, <2>3, <2>4, <2>5 DEF ClientStep
<1>3. ASSUME NEW c \in Conns, HandlerStep(c) PROVE Goal
  <2>1. CASE FetchGuilds(c) BY <2>1 DEF FetchGuilds
  <2>2. CASE FetchFails(c) BY <2>2 DEF FetchFails
  <2>3. CASE Register(c) BY <2>3 DEF Register
  <2>4. ASSUME NEW g \in Guilds, SubscribeNext(c, g) PROVE Goal
    BY <2>4 DEF SubscribeNext
  <2>5. CASE FinishSubscribing(c) BY <2>5 DEF FinishSubscribing
  <2>6. CASE SetOnline(c) BY <2>6 DEF SetOnline
  <2>7. CASE SendReady(c) BY <2>7 DEF SendReady
  <2>8. CASE Announce(c) BY <2>8 DEF Announce
  <2>9. CASE UpdatePresence(c) BY <2>9 DEF UpdatePresence
  <2> QED
    BY <1>3, <2>1, <2>2, <2>3, <2>4, <2>5, <2>6, <2>7, <2>8, <2>9 DEF HandlerStep
<1>4. ASSUME NEW c \in Conns, WriterStops(c) PROVE Goal
  BY <1>4 DEF WriterStops
<1>5. ASSUME NEW c \in Conns, ReadFails(c) PROVE Goal
  BY <1>5 DEF ReadFails
<1>6. ASSUME NEW c \in Conns, GraceStep(c) PROVE Goal
  BY <1>6 DEF GraceStep, GraceWakes, GraceSetsOffline, GraceAnnounces
<1>7. ASSUME NEW u \in Users, PresenceExpires(u) PROVE Goal
  BY <1>7 DEF PresenceExpires
<1>8. CASE Restart BY <1>8 DEF Restart
<1>9. CASE UNCHANGED vars BY <1>9 DEF vars
<1> QED BY <1>1, <1>2, <1>3, <1>4, <1>5, <1>6, <1>7, <1>8, <1>9 DEF Next

-----------------------------------------------------------------------------
\* The entry of a user is a connection of that user whose readPump runs.
LEMMA ConnectionsStep == Invariant /\ [Next]_vars => ConnectionsSound'
<1> SUFFICES ASSUME Invariant, [Next]_vars, NEW v \in Users
             PROVE  EntrySound(v)'
  BY DEF ConnectionsSound
<1> USE DEF Invariant, TypeOK, HandshakeShape, IndexesSound, managerVars, connVars,
            ConnectionsSound, EntrySound
<1>1. ASSUME NEW u \in Users, NEW g \in Guilds, JoinGuild(u, g) \/ LeaveGuild(u, g)
      PROVE  EntrySound(v)'
  BY <1>1 DEF JoinGuild, LeaveGuild
<1>2. ASSUME NEW c \in Conns, ClientStep(c) PROVE EntrySound(v)'
  <2>1. CASE Dial(c) BY <2>1 DEF Dial
  <2>2. CASE RejectHandshake(c) BY <2>2 DEF RejectHandshake, AwaitsHandshake
  <2>3. ASSUME NEW u \in Users \union {NoUser}, NEW s \in Conns, BeginHandshake(c, u, s)
        PROVE  EntrySound(v)'
    BY <2>3 DEF BeginHandshake, AwaitsHandshake
  <2>4. ASSUME NEW st \in ClientStatuses, ReceivePresenceUpdate(c, st)
        PROVE  EntrySound(v)'
    BY <2>4 DEF ReceivePresenceUpdate
  <2> QED
    BY <1>2, <2>1, <2>2, <2>3, <2>4 DEF ClientStep, ReceiveIdentify, ReceiveResume
<1>3. ASSUME NEW c \in Conns, HandlerStep(c) PROVE EntrySound(v)'
  <2>1. CASE FetchGuilds(c) BY <2>1 DEF FetchGuilds
  <2>2. CASE FetchFails(c) BY <2>2 DEF FetchFails
  <2>3. CASE Register(c) BY <2>3 DEF Register, SessionsAfterRegister
  <2>4. ASSUME NEW g \in Guilds, SubscribeNext(c, g) PROVE EntrySound(v)'
    BY <2>4 DEF SubscribeNext
  <2>5. CASE FinishSubscribing(c) BY <2>5 DEF FinishSubscribing
  <2>6. CASE SetOnline(c) BY <2>6 DEF SetOnline
  <2>7. CASE SendReady(c) BY <2>7 DEF SendReady
  <2>8. CASE Announce(c) BY <2>8 DEF Announce
  <2>9. CASE UpdatePresence(c) BY <2>9 DEF UpdatePresence
  <2> QED
    BY <1>3, <2>1, <2>2, <2>3, <2>4, <2>5, <2>6, <2>7, <2>8, <2>9 DEF HandlerStep
<1>4. ASSUME NEW c \in Conns, WriterStops(c) PROVE EntrySound(v)'
  BY <1>4 DEF WriterStops
<1>5. ASSUME NEW c \in Conns, ReadFails(c) PROVE EntrySound(v)'
  BY <1>5 DEF ReadFails, Owner, SubscriptionsAfterLeave
<1>6. ASSUME NEW c \in Conns, GraceStep(c) PROVE EntrySound(v)'
  BY <1>6 DEF GraceStep, GraceWakes, GraceSetsOffline, GraceAnnounces
<1>7. ASSUME NEW u \in Users, PresenceExpires(u) PROVE EntrySound(v)'
  BY <1>7 DEF PresenceExpires
<1>8. CASE Restart BY <1>8 DEF Restart
<1>9. CASE UNCHANGED vars BY <1>9 DEF vars
<1> QED BY <1>1, <1>2, <1>3, <1>4, <1>5, <1>6, <1>7, <1>8, <1>9 DEF Next

-----------------------------------------------------------------------------
\* A session leads only to a registered connection that holds it.
LEMMA SessionsStep == Invariant /\ [Next]_vars => SessionsSound'
<1> SUFFICES ASSUME Invariant, [Next]_vars, NEW r \in Conns
             PROVE  SessionSound(r)'
  BY DEF SessionsSound
<1> USE DEF Invariant, TypeOK, HandshakeShape, IndexesSound, managerVars, connVars,
            ConnectionsSound, EntrySound, SessionsSound, SessionSound
<1>1. ASSUME NEW u \in Users, NEW g \in Guilds, JoinGuild(u, g) \/ LeaveGuild(u, g)
      PROVE  SessionSound(r)'
  BY <1>1 DEF JoinGuild, LeaveGuild
<1>2. ASSUME NEW c \in Conns, ClientStep(c) PROVE SessionSound(r)'
  <2>1. CASE Dial(c) BY <2>1 DEF Dial
  <2>2. CASE RejectHandshake(c) BY <2>2 DEF RejectHandshake, AwaitsHandshake
  <2>3. ASSUME NEW u \in Users \union {NoUser}, NEW s \in Conns, BeginHandshake(c, u, s)
        PROVE  SessionSound(r)'
    BY <2>3 DEF BeginHandshake, AwaitsHandshake
  <2>4. ASSUME NEW st \in ClientStatuses, ReceivePresenceUpdate(c, st)
        PROVE  SessionSound(r)'
    BY <2>4 DEF ReceivePresenceUpdate
  <2> QED
    BY <1>2, <2>1, <2>2, <2>3, <2>4 DEF ClientStep, ReceiveIdentify, ReceiveResume
<1>3. ASSUME NEW c \in Conns, HandlerStep(c) PROVE SessionSound(r)'
  <2>1. CASE FetchGuilds(c) BY <2>1 DEF FetchGuilds
  <2>2. CASE FetchFails(c) BY <2>2 DEF FetchFails
  <2>3. CASE Register(c) BY <2>3 DEF Register, SessionsAfterRegister
  <2>4. ASSUME NEW g \in Guilds, SubscribeNext(c, g) PROVE SessionSound(r)'
    BY <2>4 DEF SubscribeNext
  <2>5. CASE FinishSubscribing(c) BY <2>5 DEF FinishSubscribing
  <2>6. CASE SetOnline(c) BY <2>6 DEF SetOnline
  <2>7. CASE SendReady(c) BY <2>7 DEF SendReady
  <2>8. CASE Announce(c) BY <2>8 DEF Announce
  <2>9. CASE UpdatePresence(c) BY <2>9 DEF UpdatePresence
  <2> QED
    BY <1>3, <2>1, <2>2, <2>3, <2>4, <2>5, <2>6, <2>7, <2>8, <2>9 DEF HandlerStep
<1>4. ASSUME NEW c \in Conns, WriterStops(c) PROVE SessionSound(r)'
  BY <1>4 DEF WriterStops
<1>5. ASSUME NEW c \in Conns, ReadFails(c) PROVE SessionSound(r)'
  BY <1>5 DEF ReadFails, Owner, SubscriptionsAfterLeave
<1>6. ASSUME NEW c \in Conns, GraceStep(c) PROVE SessionSound(r)'
  BY <1>6 DEF GraceStep, GraceWakes, GraceSetsOffline, GraceAnnounces
<1>7. ASSUME NEW u \in Users, PresenceExpires(u) PROVE SessionSound(r)'
  BY <1>7 DEF PresenceExpires
<1>8. CASE Restart BY <1>8 DEF Restart
<1>9. CASE UNCHANGED vars BY <1>9 DEF vars
<1> QED BY <1>1, <1>2, <1>3, <1>4, <1>5, <1>6, <1>7, <1>8, <1>9 DEF Next

-----------------------------------------------------------------------------
\* A connection that is open and admitted is its user's registered one.
LEMMA SingleStep == Invariant /\ [Next]_vars => SingleConnection'
<1> SUFFICES ASSUME Invariant, [Next]_vars, NEW d \in Conns
             PROVE  (Live(d) => connections[user[d]] = d)'
  BY DEF SingleConnection
<1> USE DEF Invariant, TypeOK, HandshakeShape, IndexesSound, managerVars, connVars,
            ConnectionsSound, EntrySound, SingleConnection, Live
<1>1. ASSUME NEW u \in Users, NEW g \in Guilds, JoinGuild(u, g) \/ LeaveGuild(u, g)
      PROVE  (Live(d) => connections[user[d]] = d)'
  BY <1>1 DEF JoinGuild, LeaveGuild
<1>2. ASSUME NEW c \in Conns, ClientStep(c) PROVE (Live(d) => connections[user[d]] = d)'
  <2>1. CASE Dial(c) BY <2>1 DEF Dial
  <2>2. CASE RejectHandshake(c) BY <2>2 DEF RejectHandshake, AwaitsHandshake
  <2>3. ASSUME NEW u \in Users \union {NoUser}, NEW s \in Conns, BeginHandshake(c, u, s)
        PROVE  (Live(d) => connections[user[d]] = d)'
    BY <2>3 DEF BeginHandshake, AwaitsHandshake
  <2>4. ASSUME NEW st \in ClientStatuses, ReceivePresenceUpdate(c, st)
        PROVE  (Live(d) => connections[user[d]] = d)'
    BY <2>4 DEF ReceivePresenceUpdate
  <2> QED
    BY <1>2, <2>1, <2>2, <2>3, <2>4 DEF ClientStep, ReceiveIdentify, ReceiveResume
<1>3. ASSUME NEW c \in Conns, HandlerStep(c) PROVE (Live(d) => connections[user[d]] = d)'
  <2>1. CASE FetchGuilds(c) BY <2>1 DEF FetchGuilds
  <2>2. CASE FetchFails(c) BY <2>2 DEF FetchFails
  <2>3. CASE Register(c)
    <3> USE <2>3 DEF Register
    <3> DEFINE old == connections[user[c]]
    <3>1. CASE d = c
      BY <3>1
    <3>2. CASE d # c /\ user[d] = user[c]
      <4>1. Live(d) => d = old
        BY <3>2
      <4>2. user' = user
        OBVIOUS
      <4>3. phase'[d] = phase[d]
        BY <3>2
      <4>4. d = old => closed'[d]
        OBVIOUS
      <4>5. ~closed'[d] => ~closed[d]
        OBVIOUS
      <4> HIDE <2>3 DEF Register, Invariant, TypeOK, HandshakeShape, IndexesSound,
               ConnectionsSound, EntrySound, SingleConnection
      <4>6. ~Live(d)'
        BY <4>1, <4>2, <4>3, <4>4, <4>5 DEF Live
      <4> QED BY <4>6
    <3>3. CASE d # c /\ user[d] # user[c]
      BY <3>3
    <3> QED BY <3>1, <3>2, <3>3
  <2>4. ASSUME NEW g \in Guilds, SubscribeNext(c, g) PROVE (Live(d) => connections[user[d]] = d)'
    BY <2>4 DEF SubscribeNext
  <2>5. CASE FinishSubscribing(c) BY <2>5 DEF FinishSubscribing
  <2>6. CASE SetOnline(c) BY <2>6 DEF SetOnline
  <2>7. CASE SendReady(c) BY <2>7 DEF SendReady
  <2>8. CASE Announce(c) BY <2>8 DEF Announce
  <2>9. CASE UpdatePresence(c) BY <2>9 DEF UpdatePresence
  <2> QED
    BY <1>3, <2>1, <2>2, <2>3, <2>4, <2>5, <2>6, <2>7, <2>8, <2>9 DEF HandlerStep
<1>4. ASSUME NEW c \in Conns, WriterStops(c) PROVE (Live(d) => connections[user[d]] = d)'
  BY <1>4 DEF WriterStops
<1>5. ASSUME NEW c \in Conns, ReadFails(c) PROVE (Live(d) => connections[user[d]] = d)'
  BY <1>5 DEF ReadFails, Owner, SubscriptionsAfterLeave
<1>6. ASSUME NEW c \in Conns, GraceStep(c) PROVE (Live(d) => connections[user[d]] = d)'
  BY <1>6 DEF GraceStep, GraceWakes, GraceSetsOffline, GraceAnnounces
<1>7. ASSUME NEW u \in Users, PresenceExpires(u) PROVE (Live(d) => connections[user[d]] = d)'
  BY <1>7 DEF PresenceExpires
<1>8. CASE Restart BY <1>8 DEF Restart
<1>9. CASE UNCHANGED vars BY <1>9 DEF vars
<1> QED BY <1>1, <1>2, <1>3, <1>4, <1>5, <1>6, <1>7, <1>8, <1>9 DEF Next

-----------------------------------------------------------------------------
\* Nobody else takes away the subscriptions of a live connection.
LEMMA SubscribedStep == Invariant /\ [Next]_vars => LiveIsSubscribed'
<1> SUFFICES ASSUME Invariant, [Next]_vars, NEW d \in Conns
             PROVE  Subscribed(d)'
  BY DEF LiveIsSubscribed, Subscribed
<1> USE DEF Invariant, TypeOK, HandshakeShape, IndexesSound, managerVars, connVars,
            ConnectionsSound, EntrySound, SingleConnection, LiveIsSubscribed, Subscribed, SubscribedGuilds, Live
<1>1. ASSUME NEW u \in Users, NEW g \in Guilds, JoinGuild(u, g) \/ LeaveGuild(u, g)
      PROVE  Subscribed(d)'
  BY <1>1 DEF JoinGuild, LeaveGuild
<1>2. ASSUME NEW c \in Conns, ClientStep(c) PROVE Subscribed(d)'
  <2>1. CASE Dial(c) BY <2>1 DEF Dial
  <2>2. CASE RejectHandshake(c) BY <2>2 DEF RejectHandshake, AwaitsHandshake
  <2>3. ASSUME NEW u \in Users \union {NoUser}, NEW s \in Conns, BeginHandshake(c, u, s)
        PROVE  Subscribed(d)'
    BY <2>3 DEF BeginHandshake, AwaitsHandshake
  <2>4. ASSUME NEW st \in ClientStatuses, ReceivePresenceUpdate(c, st)
        PROVE  Subscribed(d)'
    BY <2>4 DEF ReceivePresenceUpdate
  <2> QED
    BY <1>2, <2>1, <2>2, <2>3, <2>4 DEF ClientStep, ReceiveIdentify, ReceiveResume
<1>3. ASSUME NEW c \in Conns, HandlerStep(c) PROVE Subscribed(d)'
  <2>1. CASE FetchGuilds(c) BY <2>1 DEF FetchGuilds
  <2>2. CASE FetchFails(c) BY <2>2 DEF FetchFails
  <2>3. CASE Register(c) BY <2>3 DEF Register, SessionsAfterRegister
  <2>4. ASSUME NEW g \in Guilds, SubscribeNext(c, g) PROVE Subscribed(d)'
    BY <2>4 DEF SubscribeNext
  <2>5. CASE FinishSubscribing(c) BY <2>5 DEF FinishSubscribing
  <2>6. CASE SetOnline(c) BY <2>6 DEF SetOnline
  <2>7. CASE SendReady(c) BY <2>7 DEF SendReady
  <2>8. CASE Announce(c) BY <2>8 DEF Announce
  <2>9. CASE UpdatePresence(c) BY <2>9 DEF UpdatePresence
  <2> QED
    BY <1>3, <2>1, <2>2, <2>3, <2>4, <2>5, <2>6, <2>7, <2>8, <2>9 DEF HandlerStep
<1>4. ASSUME NEW c \in Conns, WriterStops(c) PROVE Subscribed(d)'
  BY <1>4 DEF WriterStops
<1>5. ASSUME NEW c \in Conns, ReadFails(c) PROVE Subscribed(d)'
  BY <1>5 DEF ReadFails, Owner, SubscriptionsAfterLeave
<1>6. ASSUME NEW c \in Conns, GraceStep(c) PROVE Subscribed(d)'
  BY <1>6 DEF GraceStep, GraceWakes, GraceSetsOffline, GraceAnnounces
<1>7. ASSUME NEW u \in Users, PresenceExpires(u) PROVE Subscribed(d)'
  BY <1>7 DEF PresenceExpires
<1>8. CASE Restart BY <1>8 DEF Restart
<1>9. CASE UNCHANGED vars BY <1>9 DEF vars
<1> QED BY <1>1, <1>2, <1>3, <1>4, <1>5, <1>6, <1>7, <1>8, <1>9 DEF Next

-----------------------------------------------------------------------------
LEMMA InvariantInit == Init => Invariant
<1> SUFFICES ASSUME Init PROVE Invariant
  OBVIOUS
<1>1. TypeOK BY TypeInit
<1>2. HandshakeShape /\ IndexesSound
  BY DEF Init, HandshakeShape, IndexesSound, ConnectionsSound, EntrySound,
         SessionsSound, SessionSound
<1>3. SingleConnection /\ LiveIsSubscribed
  BY DEF Init, SingleConnection, LiveIsSubscribed, Subscribed, Live
<1> QED BY <1>1, <1>2, <1>3 DEF Invariant

LEMMA InvariantStep == Invariant /\ [Next]_vars => Invariant'
  BY TypeStep, ShapeStep, ConnectionsStep, SessionsStep, SingleStep, SubscribedStep
     DEF Invariant, IndexesSound

\* The strengthened invariant holds of every behaviour.
THEOREM InvariantCorrect == Spec => []Invariant
  BY InvariantInit, InvariantStep, PTL DEF Spec

\* Every variable keeps its type.
THEOREM TypeCorrect == Spec => []TypeOK
<1>1. Invariant => TypeOK BY DEF Invariant
<1> QED BY <1>1, InvariantCorrect, PTL

\* The manager's maps agree with each other and with the connections.
THEOREM IndexesCorrect == Spec => []IndexesSound
<1>1. Invariant => IndexesSound BY DEF Invariant
<1> QED BY <1>1, InvariantCorrect, PTL

\* An open, admitted connection is the one its user is registered with.
THEOREM SingleConnectionCorrect == Spec => []SingleConnection
<1>1. Invariant => SingleConnection BY DEF Invariant
<1> QED BY <1>1, InvariantCorrect, PTL

\* A live connection gets the events of the guilds its handler went through.
THEOREM LiveIsSubscribedCorrect == Spec => []LiveIsSubscribed
<1>1. Invariant => LiveIsSubscribed BY DEF Invariant
<1> QED BY <1>1, InvariantCorrect, PTL

-----------------------------------------------------------------------------
\* Handlers that may still write a presence of a user they registered.
Writers == {"subscribing", "settingOnline", "updating"}

\* A handler whose user has gone meanwhile is older than a goroutine that sleeps
\* before it clears the user's presence, or its context is over.
WritersAreElders ==
    \A c \in Conns :
        phase[c] \in Writers /\ c \notin expired /\ connections[user[c]] = NoConn
            => \E d \in Conns :
                  grace[d] = "sleeping" /\ c \in elders[d] /\ user[d] = user[c]

\* A user shown online who is not connected will be cleared.
WillBeCleared ==
    \A u \in Users :
        connections[u] = NoConn /\ presence[u] = "online"
            => \E d \in Conns : user[d] = u /\ grace[d] \in {"sleeping", "setting"}

PresenceSound == WritersAreElders /\ WillBeCleared

LEMMA WritersStep ==
  ASSUME Invariant, WritersAreElders, [Next]_vars, ~MayRestart
  PROVE  WritersAreElders'
<1> SUFFICES ASSUME NEW x \in Conns,
                    phase'[x] \in Writers, x \notin expired',
                    connections'[user'[x]] = NoConn
             PROVE  \E d \in Conns : /\ grace'[d] = "sleeping"
                                     /\ x \in elders'[d] /\ user'[d] = user'[x]
  BY DEF WritersAreElders
<1> DEFINE Goal == \E d \in Conns : /\ grace'[d] = "sleeping"
                                    /\ x \in elders'[d] /\ user'[d] = user'[x]
           Held == phase[x] \in Writers /\ x \notin expired /\ connections[user[x]] = NoConn
<1> USE DEF Invariant, TypeOK, HandshakeShape, managerVars, connVars, graceVars, Writers
<1>0. Held => \E d \in Conns :
                  /\ grace[d] = "sleeping" /\ x \in elders[d] /\ user[d] = user[x]
                  /\ user[x] \in Users
  BY DEF WritersAreElders
<1>1. ASSUME NEW u \in Users, NEW g \in Guilds, JoinGuild(u, g) \/ LeaveGuild(u, g)
      PROVE  Goal
  BY <1>0, <1>1 DEF JoinGuild, LeaveGuild
<1>2. ASSUME NEW c \in Conns, ClientStep(c) PROVE Goal
  <2>1. CASE Dial(c) \/ RejectHandshake(c)
    BY <1>0, <2>1 DEF Dial, RejectHandshake, AwaitsHandshake
  <2>2. ASSUME NEW u \in Users \union {NoUser}, NEW s \in Conns, BeginHandshake(c, u, s)
        PROVE  Goal
    <3>1. x # c /\ Held
      BY <2>2 DEF BeginHandshake
    <3>2. PICK d \in Conns : /\ grace[d] = "sleeping" /\ x \in elders[d]
                             /\ user[d] = user[x] /\ user[x] \in Users
      BY <1>0, <3>1
    <3>3. d # c
      BY <2>2, <3>2 DEF BeginHandshake, AwaitsHandshake
    <3> QED BY <2>2, <3>1, <3>2, <3>3 DEF BeginHandshake
  <2>3. ASSUME NEW st \in ClientStatuses, ReceivePresenceUpdate(c, st)
        PROVE  Goal
    <3>1. x # c
      BY <2>3 DEF ReceivePresenceUpdate, SingleConnection, Live
    <3> QED BY <1>0, <2>3, <3>1 DEF ReceivePresenceUpdate
  <2> QED
    BY <1>2, <2>1, <2>2, <2>3 DEF ClientStep, ReceiveIdentify, ReceiveResume
<1>3. ASSUME NEW c \in Conns, HandlerStep(c) PROVE Goal
  <2>1. CASE FetchGuilds(c) \/ FetchFails(c)
    BY <1>0, <2>1 DEF FetchGuilds, FetchFails
  <2>2. CASE Register(c)
    <3>1. x # c /\ user[x] # user[c] /\ Held
      BY <2>2 DEF Register
    <3> QED BY <1>0, <2>2, <3>1 DEF Register
  <2>3. ASSUME NEW g \in Guilds, SubscribeNext(c, g) PROVE Goal
    BY <1>0, <2>3 DEF SubscribeNext
  <2>4. CASE FinishSubscribing(c)
    BY <1>0, <2>4 DEF FinishSubscribing
  <2>5. CASE SetOnline(c) \/ SendReady(c) \/ Announce(c) \/ UpdatePresence(c)
    BY <1>0, <2>5 DEF SetOnline, SendReady, Announce, UpdatePresence
  <2> QED BY <1>3, <2>1, <2>2, <2>3, <2>4, <2>5 DEF HandlerStep
<1>4. ASSUME NEW c \in Conns, WriterStops(c) PROVE Goal
  BY <1>0, <1>4 DEF WriterStops
<1>5. ASSUME NEW c \in Conns, ReadFails(c) PROVE Goal
  <2>1. /\ x # c /\ phase'[x] = phase[x] /\ user' = user
    BY <1>5 DEF ReadFails
  <2>2. CASE Owner(c) /\ user[x] = user[c]
    <3>1. x \in RunningHandlers(c)
      BY <2>1, <2>2 DEF RunningHandlers, ContextPhases
    <3>2. grace'[c] = "sleeping" /\ elders'[c] = RunningHandlers(c)
      BY <1>5, <2>2 DEF ReadFails, StartsGrace
    <3> QED BY <2>1, <2>2, <3>1, <3>2
  <2>3. CASE Owner(c) /\ user[x] # user[c]
    <3>1. Held
      BY <1>5, <2>1, <2>3 DEF ReadFails, Owner
    <3>2. PICK d \in Conns : /\ grace[d] = "sleeping" /\ x \in elders[d]
                             /\ user[d] = user[x]
      BY <1>0, <3>1
    <3>3. d # c
      BY <2>3, <3>2
    <3>4. grace'[d] = grace[d] /\ elders'[d] = elders[d]
      BY <1>5, <2>3, <3>3 DEF ReadFails, StartsGrace
    <3> QED BY <2>1, <3>2, <3>4
  <2>4. CASE ~Owner(c)
    BY <1>0, <1>5, <2>1, <2>4 DEF ReadFails, StartsGrace
  <2> QED BY <2>2, <2>3, <2>4
<1>6. ASSUME NEW c \in Conns, GraceStep(c) PROVE Goal
  <2>1. CASE GraceWakes(c)
    <3>1. Held /\ x \notin elders[c]
      BY <2>1 DEF GraceWakes, Overdue
    <3>2. PICK d \in Conns : /\ grace[d] = "sleeping" /\ x \in elders[d]
                             /\ user[d] = user[x]
      BY <1>0, <3>1
    <3> QED BY <2>1, <3>1, <3>2 DEF GraceWakes
  <2>2. CASE GraceSetsOffline(c) \/ GraceAnnounces(c)
    BY <1>0, <2>2 DEF GraceSetsOffline, GraceAnnounces
  <2> QED BY <1>6, <2>1, <2>2 DEF GraceStep
<1>7. ASSUME NEW u \in Users, PresenceExpires(u) PROVE Goal
  BY <1>0, <1>7 DEF PresenceExpires
<1>8. ~Restart
  BY DEF Restart
<1>9. CASE UNCHANGED vars BY <1>0, <1>9 DEF vars
<1> QED BY <1>1, <1>2, <1>3, <1>4, <1>5, <1>6, <1>7, <1>8, <1>9 DEF Next

LEMMA ClearedStep ==
  ASSUME Invariant, PresenceSound, [Next]_vars, ~MayRestart, ~RedisMayFail
  PROVE  WillBeCleared'
<1> SUFFICES ASSUME NEW w \in Users,
                    connections'[w] = NoConn, presence'[w] = "online"
             PROVE  \E d \in Conns : /\ user'[d] = w
                                     /\ grace'[d] \in {"sleeping", "setting"}
  BY DEF WillBeCleared
<1> DEFINE Goal == \E d \in Conns : /\ user'[d] = w
                                    /\ grace'[d] \in {"sleeping", "setting"}
           Held == connections[w] = NoConn /\ presence[w] = "online"
<1> USE DEF Invariant, TypeOK, HandshakeShape, managerVars, connVars, graceVars
<1>0. Held => \E d \in Conns : user[d] = w /\ grace[d] \in {"sleeping", "setting"}
  BY DEF PresenceSound, WillBeCleared
<1>1. ASSUME NEW u \in Users, NEW g \in Guilds, JoinGuild(u, g) \/ LeaveGuild(u, g)
      PROVE  Goal
  BY <1>0, <1>1 DEF JoinGuild, LeaveGuild
<1>2. ASSUME NEW c \in Conns, ClientStep(c) PROVE Goal
  <2>1. CASE Dial(c) \/ RejectHandshake(c)
    BY <1>0, <2>1 DEF Dial, RejectHandshake, AwaitsHandshake
  <2>2. ASSUME NEW u \in Users \union {NoUser}, NEW s \in Conns, BeginHandshake(c, u, s)
        PROVE  Goal
    <3>1. Held
      BY <2>2 DEF BeginHandshake
    <3>2. PICK d \in Conns : user[d] = w /\ grace[d] \in {"sleeping", "setting"}
      BY <1>0, <3>1
    <3>3. d # c
      BY <2>2, <3>2 DEF BeginHandshake, AwaitsHandshake
    <3> QED BY <2>2, <3>2, <3>3 DEF BeginHandshake
  <2>3. ASSUME NEW st \in ClientStatuses, ReceivePresenceUpdate(c, st)
        PROVE  Goal
    BY <1>0, <2>3 DEF ReceivePresenceUpdate
  <2> QED
    BY <1>2, <2>1, <2>2, <2>3 DEF ClientStep, ReceiveIdentify, ReceiveResume
\* Who writes "online" for a user who has gone is the elder of a sleeper.
<1>3. ASSUME NEW c \in Conns, phase[c] \in Writers, c \notin expired, user[c] = w,
             connections' = connections, user' = user, grace' = grace
      PROVE  Goal
  BY <1>3 DEF PresenceSound, WritersAreElders
<1>4. ASSUME NEW c \in Conns, HandlerStep(c) PROVE Goal
  <2>1. CASE FetchGuilds(c) \/ FetchFails(c)
    BY <1>0, <2>1 DEF FetchGuilds, FetchFails
  <2>2. CASE Register(c)
    BY <1>0, <2>2 DEF Register
  <2>3. ASSUME NEW g \in Guilds, SubscribeNext(c, g) PROVE Goal
    BY <1>0, <2>3 DEF SubscribeNext
  <2>4. CASE FinishSubscribing(c) \/ SendReady(c) \/ Announce(c)
    BY <1>0, <2>4 DEF FinishSubscribing, SendReady, Announce
  <2>5. CASE SetOnline(c) \/ UpdatePresence(c)
    <3>1. connections' = connections /\ user' = user /\ grace' = grace
          /\ phase[c] \in Writers /\ user[c] \in Users
      BY <2>5 DEF SetOnline, UpdatePresence, Writers
    <3>2. presence' = presence \/ c \notin expired
      BY <2>5 DEF SetOnline, UpdatePresence
    <3>3. CASE user[c] = w /\ c \notin expired
      BY <1>3, <3>1, <3>3
    <3>4. CASE user[c] # w \/ presence' = presence
      <4>1. presence'[w] = presence[w]
        BY <2>5, <3>4 DEF SetOnline, UpdatePresence
      <4> QED BY <1>0, <3>1, <4>1
    <3> QED BY <3>2, <3>3, <3>4
  <2> QED BY <1>4, <2>1, <2>2, <2>3, <2>4, <2>5 DEF HandlerStep
<1>5. ASSUME NEW c \in Conns, WriterStops(c) PROVE Goal
  BY <1>0, <1>5 DEF WriterStops
<1>6. ASSUME NEW c \in Conns, ReadFails(c) PROVE Goal
  <2>1. CASE Owner(c) /\ user[c] = w
    BY <1>6, <2>1 DEF ReadFails, StartsGrace
  <2>2. CASE Owner(c) /\ user[c] # w
    <3>1. Held /\ user' = user
      BY <1>6, <2>2 DEF ReadFails, Owner
    <3>2. PICK d \in Conns : user[d] = w /\ grace[d] \in {"sleeping", "setting"}
      BY <1>0, <3>1
    <3>3. grace'[d] = grace[d]
      BY <1>6, <2>2, <3>2 DEF ReadFails, StartsGrace
    <3> QED BY <3>1, <3>2, <3>3
  <2>3. CASE ~Owner(c)
    BY <1>0, <1>6, <2>3 DEF ReadFails, StartsGrace
  <2> QED BY <2>1, <2>2, <2>3
<1>7. ASSUME NEW c \in Conns, GraceStep(c) PROVE Goal
  <2>1. /\ connections' = connections /\ user' = user
    BY <1>7 DEF GraceStep, GraceWakes, GraceSetsOffline, GraceAnnounces
  <2>2. CASE GraceWakes(c)
    BY <1>0, <2>1, <2>2 DEF GraceWakes
  <2>3. CASE GraceSetsOffline(c)
    <3>1. presence' = [presence EXCEPT ![user[c]] = "offline"]
      BY <2>3 DEF GraceSetsOffline
    <3>2. user[c] # w /\ Held
      BY <2>1, <3>1
    <3> QED BY <1>0, <2>1, <2>3, <3>2 DEF GraceSetsOffline
  <2>4. CASE GraceAnnounces(c)
    BY <1>0, <2>1, <2>4 DEF GraceAnnounces
  <2> QED BY <1>7, <2>2, <2>3, <2>4 DEF GraceStep
<1>8. ASSUME NEW u \in Users, PresenceExpires(u) PROVE Goal
  BY <1>0, <1>8 DEF PresenceExpires
<1>9. ~Restart
  BY DEF Restart
<1>10. CASE UNCHANGED vars BY <1>0, <1>10 DEF vars
<1> QED
  BY <1>1, <1>2, <1>4, <1>5, <1>6, <1>7, <1>8, <1>9, <1>10 DEF Next

\* While Redis answers and the process lives, a user who has gone and whom no
\* sleeping or writing goroutine is about to clear is not shown online: however
\* slow a handshake or a PRESENCE_UPDATE is, what it writes last is cleared.
THEOREM QuietIsNotOnlineCorrect ==
  ASSUME ~RedisMayFail, ~MayRestart
  PROVE  Spec => []QuietIsNotOnline
<1>1. Init => Invariant /\ PresenceSound
  BY InvariantInit DEF Init, PresenceSound, WritersAreElders, WillBeCleared, Writers
<1>2. Invariant /\ PresenceSound /\ [Next]_vars => Invariant' /\ PresenceSound'
  BY InvariantStep, WritersStep, ClearedStep DEF PresenceSound
<1>3. PresenceSound => QuietIsNotOnline
  BY DEF PresenceSound, WillBeCleared, QuietIsNotOnline, Quiet
<1> QED BY <1>1, <1>2, <1>3, PTL DEF Spec

=============================================================================
