--------------------------- MODULE DeliveryProofs ---------------------------
(***************************************************************************)
(* What Delivery promises for any number of users, guilds, connections and *)
(* dispatches and for any size of the queues and buffers: it only takes    *)
(* steps of the registry, a dispatch finds every subscribed connection, and *)
(* RESUME passes over only what raced with it, although a scan of the buffer *)
(* may end with any result that the unlocked reads of it allow.             *)
(***************************************************************************)
EXTENDS Delivery, RegistryProofs, SequenceTheorems, FiniteSetTheorems

USE NoneAssumption, StatusAssumption, FaultAssumption, TrackedAssumption,
    CapAssumption, NamesAssumption

-----------------------------------------------------------------------------
\* Every step of Delivery is a step of the registry or leaves it alone.
LEMMA DeliverySteps == DeliveryNext => [Next]_vars
<1> SUFFICES ASSUME DeliveryNext PROVE Next \/ UNCHANGED vars
  OBVIOUS
<1>1. ASSUME NEW t \in Tasks, NEW g \in Guilds, DispatchToGuild(t, g)
      PROVE  UNCHANGED vars
  BY <1>1 DEF DispatchToGuild, StartDispatch
<1>2. ASSUME NEW t \in Tasks, NEW u \in Users, DispatchToUser(t, u)
      PROVE  UNCHANGED vars
  BY <1>2 DEF DispatchToUser
<1>3. ASSUME NEW j \in Jobs, JobStep(j) PROVE UNCHANGED vars
  BY <1>3 DEF JobStep, LookUp, SendTo, QueueEvent, StoreReplayEvent
<1>4. ASSUME NEW c \in Conns, ClientStep(c) \/ HandlerStep(c) \/ WriterStops(c)
                                \/ ReadFails(c) \/ GraceStep(c)
      PROVE  Next
  BY <1>4 DEF Next
<1>5. ASSUME NEW c \in Conns, DialAndGreet(c) PROVE ClientStep(c)
  BY <1>5 DEF DialAndGreet, Silently, ClientStep
<1>6. ASSUME NEW c \in Conns, NEW s \in Conns, ResumeFrom(c, s) PROVE ClientStep(c)
  BY <1>6 DEF ResumeFrom, ClientStep
<1>7. ASSUME NEW c \in Conns, QuietStep(c) PROVE HandlerStep(c)
  BY <1>7 DEF QuietStep, Silently, HandlerStep
<1>8. ASSUME NEW c \in Conns, SendingStep(c) PROVE HandlerStep(c) \/ UNCHANGED vars
  <2>1. ASSUME NEW g \in Guilds, SubscribeAndReplay(c, g) PROVE HandlerStep(c)
    BY <2>1 DEF SubscribeAndReplay, HandlerStep
  <2>2. CASE \/ FindBuffer(c) \/ ScanBuffer(c) \/ SendMissed(c) \/ QueueMissed(c)
             \/ NumberReady(c)
    BY <2>2 DEF FindBuffer, ScanBuffer, SendMissed, QueueMissed, NumberReady
  <2>3. CASE Silently(FinishSubscribing(c)) \/ QueueReady(c) \/ Silently(Announce(c))
    BY <2>3 DEF Silently, QueueReady, HandlerStep
  <2>4. CASE BroadcastOnline(c)
    BY <2>4 DEF BroadcastOnline, StartDispatch
  <2> QED BY <1>8, <2>1, <2>2, <2>3, <2>4 DEF SendingStep
<1>9. ASSUME NEW c \in Conns, GraceWork(c) PROVE GraceStep(c) \/ UNCHANGED vars
  BY <1>9 DEF GraceWork, Silently, BroadcastOffline, StartDispatch, GraceStep
<1>10. ASSUME NEW c \in Conns, Deliver(c) PROVE UNCHANGED vars
  BY <1>10 DEF Deliver
<1>11. ASSUME NEW c \in Conns, Silently(WriterStops(c) \/ ReadFails(c))
       PROVE  WriterStops(c) \/ ReadFails(c)
  BY <1>11 DEF Silently
<1> QED BY <1>1, <1>2, <1>3, <1>4, <1>5, <1>6, <1>7, <1>8, <1>9, <1>10, <1>11
        DEF DeliveryNext

\* The registry's promises hold while events are sent: what a dispatch, a replay
\* or a full queue does never takes a step that the registry does not have.
THEOREM DeliveryImplementsRegistry == DeliverySpec => Spec
<1>1. DeliveryInit => Init
  BY DEF DeliveryInit
<1>2. [DeliveryNext]_allVars => [Next]_vars
  BY DeliverySteps DEF allVars
<1> QED BY <1>1, <1>2, PTL DEF DeliverySpec, Spec

-----------------------------------------------------------------------------
StoredEvent == [Sequence : Nat, Event : Jobs]
Queued == [s : Nat, e : Payloads]
Returned == Jobs \union {Torn}

\* The types of what Delivery adds, with the elements of its sequences.
DeliveryTyped ==
    /\ replay \in [Guilds -> [log : Seq(StoredEvent), last : Nat]]
    /\ \A g \in Guilds : Len(replay[g].log) <= ReplayCap
    /\ stage \in [Jobs -> {"idle", "picking", "sending", "done"}]
    /\ aims \in [Jobs -> SUBSET Guilds]
    /\ current \in [Jobs -> Guilds \union {NoGuild}]
    /\ targets \in [Jobs -> SUBSET Conns]
    /\ nextSeq \in [Conns -> Nat]
    /\ queue \in [Conns -> Seq(Queued)]
    /\ \A c \in Conns : Len(queue[c]) <= QueueCap
    /\ pending \in [Senders -> Payload \union {NoPayload}]
    /\ resumeSeq \in [Conns -> Nat]
    /\ replaying \in [Conns -> Guilds \union {NoGuild}]
    /\ scanning \in [Conns -> Guilds \union {NoGuild}]
    /\ began \in [Conns -> Nat]
    /\ met \in [Conns -> Seq(Jobs)]
    /\ backlog \in [Conns -> Seq(Returned)]
    /\ lastSeq \in [Conns -> Nat]
    /\ seen \in [Conns -> SUBSET Payloads]
    /\ reached \in [Conns -> SUBSET Payloads]
    /\ raced \in [Conns -> SUBSET Jobs]

\* The numbers of a buffer's entries increase by one from slot to slot.
Numbered(L, newest) ==
    \A k \in DOMAIN L : L[k].Sequence = newest - Len(L) + k

\* What a client is missing is a suffix of the buffer that holds all that is
\* newer than what it has seen.
LEMMA AfterIsNewer ==
  ASSUME NEW S, NEW L \in Seq(S), NEW n \in Nat, NEW newest \in Nat,
         Numbered(L, newest), NEW g \in Guilds
  PROVE  /\ Log(g)!After(L, n) \in Seq(S)
         /\ \A k \in DOMAIN L : L[k].Sequence > n =>
               \E m \in DOMAIN Log(g)!After(L, n) : Log(g)!After(L, n)[m] = L[k]
<1> DEFINE Begins(k) == /\ \A m \in 1 .. k - 1 : L[m].Sequence <= n
                        /\ k <= Len(L) => L[k].Sequence > n
           p == Log(g)!FirstAfter(L, n)
           A == Log(g)!After(L, n)
<1>1. Len(L) \in Nat /\ DOMAIN L = 1 .. Len(L)
  OBVIOUS
<1>2. \E k \in 1 .. Len(L) + 1 : Begins(k)
  <2> DEFINE low == newest - Len(L)
  <2>1. low \in Int /\ \A k \in 1 .. Len(L) : L[k].Sequence = low + k
    BY <1>1 DEF Numbered
  <2> HIDE DEF low
  <2>2. CASE low >= n
    <3>1. Begins(1)
      BY <1>1, <2>1, <2>2
    <3> QED BY <1>1, <3>1
  <2>3. CASE low < n /\ n - low < Len(L)
    <3>1. Begins(n - low + 1)
      BY <1>1, <2>1, <2>3
    <3>2. n - low + 1 \in 1 .. Len(L) + 1
      BY <1>1, <2>1, <2>3
    <3> HIDE DEF Begins
    <3> QED BY <3>1, <3>2
  <2>4. CASE low < n /\ n - low >= Len(L)
    <3>1. Begins(Len(L) + 1)
      BY <1>1, <2>1, <2>4
    <3>2. Len(L) + 1 \in 1 .. Len(L) + 1
      BY <1>1
    <3> HIDE DEF Begins
    <3> QED BY <3>1, <3>2
  <2> QED BY <1>1, <2>1, <2>2, <2>3, <2>4
<1>3. p = CHOOSE k \in 1 .. Len(L) + 1 : Begins(k)
  BY DEF Log!FirstAfter
<1>4. p \in 1 .. Len(L) + 1 /\ Begins(p)
  <2> HIDE DEF Begins, p
  <2> QED BY <1>2, <1>3
<1>5. A = SubSeq(L, p, Len(L))
  BY DEF Log!After
<1> HIDE DEF p, A
<1>6. /\ A \in Seq(S) /\ Len(A) = Len(L) - p + 1
      /\ \A k \in 1 .. Len(L) - p + 1 : A[k] = L[p + k - 1]
  <2>1. \A k \in p .. Len(L) : L[k] \in S
    BY <1>1, <1>4
  <2>2. p \in Int /\ Len(L) \in Int
    BY <1>1, <1>4
  <2>3. /\ SubSeq(L, p, Len(L)) \in Seq(S)
        /\ Len(SubSeq(L, p, Len(L))) = IF p <= Len(L) THEN Len(L) - p + 1 ELSE 0
        /\ \A k \in 1 .. Len(L) - p + 1 : SubSeq(L, p, Len(L))[k] = L[p + k - 1]
    BY <2>1, <2>2, SubSeqProperties
  <2> QED BY <1>1, <1>4, <1>5, <2>3
<1>7. ASSUME NEW k \in DOMAIN L, L[k].Sequence > n
      PROVE  \E m \in DOMAIN A : A[m] = L[k]
  <2>1. k >= p
    <3> SUFFICES ASSUME k < p PROVE FALSE
      BY <1>1, <1>4
    <3>1. k \in 1 .. p - 1 /\ L[k].Sequence = newest - Len(L) + k
      BY <1>1, <1>4 DEF Numbered
    <3> QED BY <1>1, <1>4, <1>7, <3>1
  <2>2. k - p + 1 \in 1 .. Len(A) /\ p + (k - p + 1) - 1 = k
    BY <1>1, <1>4, <1>6, <2>1
  <2>3. A[k - p + 1] = L[k] /\ DOMAIN A = 1 .. Len(A)
    BY <1>6, <2>2
  <2> QED BY <2>2, <2>3
<1> QED BY <1>6, <1>7 DEF A

-----------------------------------------------------------------------------
\* Types, step by step: first what several actions do.
LEMMA NumberTyped ==
  ASSUME DeliveryTyped, NEW x \in Senders, NEW c \in Conns, NEW e \in Payloads,
         Number(x, c, e)
  PROVE  /\ nextSeq' \in [Conns -> Nat]
         /\ pending' \in [Senders -> Payload \union {NoPayload}]
<1>1. nextSeq' \in [Conns -> Nat]
  BY DEF DeliveryTyped, Number
<1>2. [to |-> c, s |-> nextSeq'[c], e |-> e] \in Payload
  BY <1>1 DEF Payload
<1> QED BY <1>1, <1>2 DEF DeliveryTyped, Number

LEMMA EnqueueTyped ==
  ASSUME DeliveryTyped, NEW x \in Senders, Enqueue(x)
  PROVE  /\ pending[x] \in Payload
         /\ queue' \in [Conns -> Seq(Queued)]
         /\ \A c \in Conns : Len(queue'[c]) <= QueueCap
         /\ reached' \in [Conns -> SUBSET Payloads]
         /\ pending' \in [Senders -> Payload \union {NoPayload}]
<1> DEFINE p == pending[x]
           new == Append(queue[p.to], [s |-> p.s, e |-> p.e])
<1>1. p \in Payload
  BY DEF DeliveryTyped, Enqueue
<1>2. p.to \in Conns /\ p.s \in Nat /\ p.e \in Payloads
  BY <1>1 DEF Payload
<1>3. queue[p.to] \in Seq(Queued) /\ [s |-> p.s, e |-> p.e] \in Queued
  BY <1>2 DEF DeliveryTyped, Queued
<1>4. new \in Seq(Queued) /\ Len(new) = Len(queue[p.to]) + 1
  <2> HIDE DEF p
  <2> QED BY <1>3, AppendProperties
<1>5. queue' = IF RoomFor(p.to) /\ ~closed[p.to]
               THEN [queue EXCEPT ![p.to] = new] ELSE queue
  BY DEF Enqueue
<1>6. queue' \in [Conns -> Seq(Queued)]
  <2> HIDE DEF p, new
  <2> QED BY <1>2, <1>4, <1>5 DEF DeliveryTyped
<1>7. ASSUME NEW c \in Conns PROVE Len(queue'[c]) <= QueueCap
  <2>1. CASE c = p.to /\ RoomFor(c) /\ ~closed[c]
    <3>1. queue'[c] = new
      BY <1>5, <2>1 DEF DeliveryTyped
    <3>2. Len(queue[c]) < QueueCap /\ Len(queue[c]) \in Nat
      BY <1>3, <2>1 DEF RoomFor
    <3> QED BY <1>4, <2>1, <3>1, <3>2
  <2>2. CASE ~(c = p.to /\ RoomFor(c) /\ ~closed[c])
    <3>1. queue'[c] = queue[c]
      BY <1>5, <2>2 DEF DeliveryTyped
    <3> QED BY <3>1 DEF DeliveryTyped
  <2> QED BY <2>1, <2>2
<1>8. reached' \in [Conns -> SUBSET Payloads]
  <2>1. reached' = IF closed[p.to] THEN reached
                   ELSE [reached EXCEPT ![p.to] = @ \union {p.e}]
    BY DEF Enqueue
  <2>2. reached \in [Conns -> SUBSET Payloads]
    BY DEF DeliveryTyped
  <2> HIDE DEF p
  <2> QED BY <1>2, <2>1, <2>2
<1>9. pending' \in [Senders -> Payload \union {NoPayload}]
  BY DEF DeliveryTyped, Enqueue
<1> QED BY <1>1, <1>6, <1>7, <1>8, <1>9

LEMMA StoreTyped ==
  ASSUME DeliveryTyped, NEW j \in Jobs, StoreReplayEvent(j)
  PROVE  DeliveryTyped'
<1> DEFINE g == current[j]
           L == replay[g].log
           x == [Sequence |-> replay[g].last + 1, Event |-> j]
           N == Log(g)!Stored(L, x)
<1>0. met' \in [Conns -> Seq(Jobs)]
  <2>1. \A c \in Conns : met[c] \in Seq(Jobs) /\ Append(met[c], j) \in Seq(Jobs)
    BY AppendProperties DEF DeliveryTyped
  <2> QED BY <2>1 DEF StoreReplayEvent
<1>1. CASE g = NoGuild
  BY <1>0, <1>1 DEF DeliveryTyped, StoreReplayEvent, clientVars
<1>2. CASE g # NoGuild
  <2>1. g \in Guilds /\ L \in Seq(StoredEvent) /\ replay[g].last \in Nat
        /\ Len(L) <= ReplayCap
    BY <1>2 DEF DeliveryTyped
  <2>2. x \in StoredEvent
    BY <2>1 DEF StoredEvent
  <2>3. N \in Seq(StoredEvent) /\ Len(N) <= ReplayCap
    <3> HIDE DEF L, x
    <3>1. CASE Len(L) < ReplayCap
      <4>1. Append(L, x) \in Seq(StoredEvent) /\ Len(Append(L, x)) = Len(L) + 1
        BY <2>1, <2>2, AppendProperties
      <4> QED BY <2>1, <3>1, <4>1 DEF Log!Stored
    <3>2. CASE ~(Len(L) < ReplayCap)
      <4>1. L # <<>> /\ Len(L) = ReplayCap
        BY <2>1, <3>2, EmptySeq
      <4>2. Tail(L) \in Seq(StoredEvent) /\ Len(Tail(L)) = ReplayCap - 1
        BY <2>1, <4>1, HeadTailProperties
      <4>3. /\ Append(Tail(L), x) \in Seq(StoredEvent)
            /\ Len(Append(Tail(L), x)) = Len(Tail(L)) + 1
        BY <2>2, <4>2, AppendProperties
      <4> QED BY <3>2, <4>2, <4>3 DEF Log!Stored
    <3> QED BY <3>1, <3>2
  <2>4. replay' = [replay EXCEPT ![g] = [log |-> N, last |-> replay[g].last + 1]]
    <3>1. Log(g)!Entry(replay[g].last + 1, j) = x
      BY DEF Log!Entry
    <3> QED BY <1>2, <3>1 DEF StoreReplayEvent
  <2>5. /\ replay' \in [Guilds -> [log : Seq(StoredEvent), last : Nat]]
        /\ \A h \in Guilds : Len(replay'[h].log) <= ReplayCap
    <3> HIDE DEF N, g, L
    <3>1. [log |-> N, last |-> replay[g].last + 1] \in [log : Seq(StoredEvent), last : Nat]
      BY <2>1, <2>3
    <3>2. /\ replay \in [Guilds -> [log : Seq(StoredEvent), last : Nat]]
          /\ \A h \in Guilds : Len(replay[h].log) <= ReplayCap
      BY DEF DeliveryTyped
    <3>3. replay' \in [Guilds -> [log : Seq(StoredEvent), last : Nat]]
      BY <2>1, <2>4, <3>1, <3>2
    <3>4. \A h \in Guilds : replay'[h].log = IF h = g THEN N ELSE replay[h].log
      BY <2>1, <2>4, <3>2
    <3> QED BY <2>3, <3>2, <3>3, <3>4
  <2>6. /\ aims' \in [Jobs -> SUBSET Guilds]
        /\ current' \in [Jobs -> Guilds \union {NoGuild}]
        /\ stage' \in [Jobs -> {"idle", "picking", "sending", "done"}]
    BY DEF DeliveryTyped, StoreReplayEvent
  <2>7. UNCHANGED <<targets, nextSeq, queue, pending, resumeSeq, replaying, scanning,
                    began, backlog, lastSeq, seen, reached, raced>>
    BY DEF StoreReplayEvent, clientVars
  <2> QED BY <1>0, <2>5, <2>6, <2>7 DEF DeliveryTyped
<1> QED BY <1>1, <1>2

LEMMA SilentTyped ==
  ASSUME DeliveryTyped,
         queue' = Open(queue, <<>>), nextSeq' = Open(nextSeq, 0),
         reached' = Open(reached, {}), raced' = Open(raced, {}),
         UNCHANGED <<replay, dispatchVars, pending, resumeVars, clientVars>>
  PROVE  DeliveryTyped'
<1>1. <<>> \in Seq(Queued) /\ Len(<<>>) <= QueueCap
  OBVIOUS
<1> QED BY <1>1 DEF DeliveryTyped, Open, dispatchVars, resumeVars, scanVars, clientVars

LEMMA StartTyped ==
  ASSUME DeliveryTyped, NEW j \in Jobs, NEW gs \in SUBSET Guilds, StartDispatch(j, gs)
  PROVE  DeliveryTyped'
BY DEF DeliveryTyped, StartDispatch, resumeVars, scanVars, clientVars

\* What the client of a payload reads is a payload it can know of.
LEMMA DeliverTyped ==
  ASSUME DeliveryTyped, NEW c \in Conns, Deliver(c)
  PROVE  DeliveryTyped'
<1>1. queue[c] \in Seq(Queued) /\ queue[c] # <<>> /\ Len(queue[c]) <= QueueCap
  BY DEF DeliveryTyped, Deliver
<1>2. /\ Head(queue[c]) \in Queued /\ Tail(queue[c]) \in Seq(Queued)
      /\ Len(Tail(queue[c])) = Len(queue[c]) - 1 /\ Len(queue[c]) \in Nat
  BY <1>1, HeadTailProperties
<1>3. Head(queue[c]).s \in Nat /\ Head(queue[c]).e \in Payloads
  BY <1>2 DEF Queued
<1>4. Read(Head(queue[c]).e) \in SUBSET Payloads
  BY <1>3 DEF Read, Payloads, Jobs
<1>5. /\ queue' \in [Conns -> Seq(Queued)]
      /\ \A d \in Conns : Len(queue'[d]) <= QueueCap
  BY <1>1, <1>2 DEF DeliveryTyped, Deliver
<1>6. lastSeq' \in [Conns -> Nat] /\ seen' \in [Conns -> SUBSET Payloads]
  BY <1>3, <1>4 DEF DeliveryTyped, Deliver
<1> QED BY <1>5, <1>6 DEF DeliveryTyped, Deliver, dispatchVars, resumeVars, scanVars

LEMMA QueueMissedTyped ==
  ASSUME DeliveryTyped, NEW c \in Conns, QueueMissed(c)
  PROVE  DeliveryTyped'
<1>1. c \in Senders
  BY DEF Senders
<1>2. Enqueue(c) /\ backlog[c] \in Seq(Returned) /\ backlog[c] # <<>>
  BY DEF DeliveryTyped, QueueMissed
<1>3. Tail(backlog[c]) \in Seq(Returned)
  BY <1>2, HeadTailProperties
<1>4. backlog' \in [Conns -> Seq(Returned)]
  BY <1>3 DEF DeliveryTyped, QueueMissed
<1> QED BY <1>1, <1>2, <1>4, EnqueueTyped
        DEF DeliveryTyped, QueueMissed, dispatchVars, scanVars, clientVars

LEMMA FindBufferTyped ==
  ASSUME DeliveryTyped, NEW c \in Conns, FindBuffer(c)
  PROVE  DeliveryTyped'
<1> DEFINE g == replaying[c]
           L == replay[g].log
           now == [k \in DOMAIN L |-> L[k].Event]
           behind == {j \in Jobs : stage[j] = "sending" /\ current[j] = g
                                /\ c \notin targets[j] /\ j \notin reached[c]}
<1>1. g \in Guilds /\ L \in Seq(StoredEvent) /\ replay[g].last \in Nat
  BY DEF DeliveryTyped, FindBuffer
<1>2. now \in Seq(Jobs)
  <2> HIDE DEF L
  <2>1. DOMAIN L = 1 .. Len(L) /\ Len(L) \in Nat
    BY <1>1
  <2>2. ASSUME NEW k \in DOMAIN L PROVE L[k].Event \in Jobs
    <3>1. L[k] \in StoredEvent
      BY <1>1, <2>1, ElementOfSeq
    <3> QED BY <3>1 DEF StoredEvent
  <2>3. now \in [1 .. Len(L) -> Jobs]
    BY <2>1, <2>2
  <2> QED BY <2>1, <2>3, SeqDef
<1>3. /\ met' = [met EXCEPT ![c] = now]
      /\ raced' = [raced EXCEPT ![c] = IF closed[c] THEN {} ELSE @ \union behind]
  BY DEF FindBuffer
<1>4. met' \in [Conns -> Seq(Jobs)]
  <2> HIDE DEF now
  <2> QED BY <1>2, <1>3 DEF DeliveryTyped
<1>5. raced' \in [Conns -> SUBSET Jobs]
  <2>1. behind \in SUBSET Jobs
    OBVIOUS
  <2> HIDE DEF behind
  <2> QED BY <1>3, <2>1 DEF DeliveryTyped
<1>6. /\ replaying' \in [Conns -> Guilds \union {NoGuild}]
      /\ scanning' \in [Conns -> Guilds \union {NoGuild}]
      /\ began' \in [Conns -> Nat]
  BY <1>1 DEF FindBuffer, DeliveryTyped
<1> QED BY <1>4, <1>5, <1>6 DEF DeliveryTyped, FindBuffer, dispatchVars, clientVars

\* The events of a buffer's entries are jobs.
LEMMA EventsOfLog ==
  ASSUME DeliveryTyped, NEW g \in Guilds, NEW k \in DOMAIN replay[g].log
  PROVE  /\ replay[g].log[k].Event \in Jobs
         /\ replay[g].log[k].Sequence \in Nat
<1>1. replay[g].log \in Seq(StoredEvent)
  BY DEF DeliveryTyped
<1>2. replay[g].log[k] \in StoredEvent
  BY <1>1, ElementOfSeq
<1> QED BY <1>2 DEF StoredEvent

\* What a scan returns are events, or parts of them.
LEMMA ResultsTyped ==
  ASSUME DeliveryTyped, \A g \in Guilds : Numbered(replay[g].log, replay[g].last),
         NEW c \in Conns, NEW g \in Guilds, NEW found \in Results(c, g)
  PROVE  found \in Seq(Returned)
<1>1. CASE replay[g].last = began[c]
  <2> DEFINE A == Log(g)!After(replay[g].log, resumeSeq[c])
  <2>1. A \in Seq(StoredEvent)
    <3>1. replay[g].log \in Seq(StoredEvent) /\ resumeSeq[c] \in Nat
          /\ replay[g].last \in Nat
      BY DEF DeliveryTyped
    <3> QED BY <3>1, AfterIsNewer
  <2>2. found = [k \in DOMAIN A |-> A[k].Event]
    BY <1>1 DEF Results, Exact, AfterSeq
  <2> HIDE DEF A
  <2>3. DOMAIN A = 1 .. Len(A) /\ Len(A) \in Nat
    BY <2>1
  <2>4. ASSUME NEW k \in DOMAIN A PROVE A[k].Event \in Returned
    <3>1. A[k] \in StoredEvent
      BY <2>1, <2>3, ElementOfSeq
    <3> QED BY <3>1 DEF StoredEvent, Returned
  <2>5. found \in [1 .. Len(A) -> Returned]
    BY <2>2, <2>3, <2>4
  <2> QED BY <2>3, <2>5, SeqDef
<1>2. CASE replay[g].last # began[c]
  <2>0. PICK n \in 0 .. ReplayCap :
            \E f \in [1 .. n -> 0 .. Len(met[c])] : found = Picked(c, f)
    BY <1>2 DEF Results
  <2>1. PICK f \in [1 .. n -> 0 .. Len(met[c])] : found = Picked(c, f)
    BY <2>0
  <2>2. met[c] \in Seq(Jobs) /\ DOMAIN met[c] = 1 .. Len(met[c]) /\ Len(met[c]) \in Nat
    BY DEF DeliveryTyped
  <2>3. ASSUME NEW k \in 1 .. n
        PROVE  (IF f[k] = 0 THEN Torn ELSE met[c][f[k]]) \in Returned
    <3>1. CASE f[k] = 0
      BY <3>1 DEF Returned
    <3>2. CASE f[k] # 0
      <4>1. f[k] \in 1 .. Len(met[c])
        BY <2>1, <2>2, <3>2
      <4>2. met[c][f[k]] \in Jobs
        BY <2>2, <4>1, ElementOfSeq
      <4> QED BY <3>2, <4>2 DEF Returned
    <3> QED BY <3>1, <3>2
  <2>4. found \in [1 .. n -> Returned]
    BY <2>1, <2>3 DEF Picked
  <2>5. n \in Nat
    OBVIOUS
  <2> QED BY <2>4, <2>5, SeqDef
<1> QED BY <1>1, <1>2

LEMMA ScanBufferTyped ==
  ASSUME DeliveryTyped, \A g \in Guilds : Numbered(replay[g].log, replay[g].last),
         NEW c \in Conns, ScanBuffer(c)
  PROVE  DeliveryTyped'
<1> DEFINE g == scanning[c]
           unseen == IF OneLap(c, g) THEN {} ELSE Due(c, g)
<1>1. g \in Guilds
  BY DEF DeliveryTyped, ScanBuffer
<1>2. backlog' \in [Conns -> Seq(Returned)]
  <2>1. PICK found \in Results(c, g) : backlog' = [backlog EXCEPT ![c] = found]
    BY DEF ScanBuffer
  <2>2. found \in Seq(Returned)
    BY <1>1, <2>1, ResultsTyped
  <2> QED BY <2>1, <2>2 DEF DeliveryTyped
<1>3. raced' \in [Conns -> SUBSET Jobs]
  <2>1. unseen \in SUBSET Jobs
    BY <1>1, EventsOfLog DEF Due
  <2>2. raced' = [raced EXCEPT ![c] = IF closed[c] THEN {} ELSE @ \union unseen]
    BY DEF ScanBuffer
  <2> HIDE DEF unseen
  <2> QED BY <2>1, <2>2 DEF DeliveryTyped
<1>4. met' \in [Conns -> Seq(Jobs)]
  BY EmptySeq DEF DeliveryTyped, ScanBuffer
<1>5. scanning' \in [Conns -> Guilds \union {NoGuild}] /\ began' \in [Conns -> Nat]
  BY DEF DeliveryTyped, ScanBuffer
<1> QED BY <1>2, <1>3, <1>4, <1>5 DEF DeliveryTyped, ScanBuffer, dispatchVars, clientVars

\* Every step of Delivery keeps its variables in their types.
LEMMA DeliveryTypedStep ==
  ASSUME DeliveryTyped, TypeOK,
         \A g \in Guilds : Numbered(replay[g].log, replay[g].last),
         [DeliveryNext]_allVars
  PROVE  DeliveryTyped'
<1>0. Conns \subseteq Senders /\ Jobs \subseteq Senders /\ Conns \subseteq Payloads
      /\ Jobs \subseteq Payloads /\ Tasks \subseteq Jobs
      /\ \A c \in Conns : Online(c) \in Jobs /\ Offline(c) \in Jobs
  BY DEF Senders, Payloads, Jobs
<1>1. ASSUME NEW t \in Tasks, NEW g \in Guilds, DispatchToGuild(t, g)
      PROVE  DeliveryTyped'
  BY <1>0, <1>1, StartTyped DEF DispatchToGuild
<1>2. ASSUME NEW t \in Tasks, NEW u \in Users, DispatchToUser(t, u)
      PROVE  DeliveryTyped'
  <2>1. Registered({u}) \in SUBSET Conns
    BY DEF Registered, TypeOK
  <2> QED BY <1>0, <1>2, <2>1 DEF DispatchToUser, DeliveryTyped, resumeVars, scanVars, clientVars
<1>3. ASSUME NEW j \in Jobs, JobStep(j) PROVE DeliveryTyped'
  <2>1. ASSUME NEW g \in Guilds, LookUp(j, g) PROVE DeliveryTyped'
    <3>1. Registered(subscriptions[g]) \in SUBSET Conns
      BY DEF Registered, TypeOK
    <3> QED BY <2>1, <3>1 DEF LookUp, DeliveryTyped, resumeVars, scanVars, clientVars
  <2>2. ASSUME NEW c \in Conns, SendTo(j, c) PROVE DeliveryTyped'
    <3>1. /\ nextSeq' \in [Conns -> Nat]
          /\ pending' \in [Senders -> Payload \union {NoPayload}]
      <4>1. CASE Number(j, c, j)
        BY <1>0, <4>1, NumberTyped
      <4>2. CASE UNCHANGED <<nextSeq, pending>>
        BY <4>2 DEF DeliveryTyped
      <4> QED BY <2>2, <4>1, <4>2 DEF SendTo
    <3>2. targets' \in [Jobs -> SUBSET Conns]
      BY <2>2 DEF SendTo, DeliveryTyped
    <3> QED BY <2>2, <3>1, <3>2 DEF SendTo, DeliveryTyped, resumeVars, scanVars, clientVars
  <2>3. CASE QueueEvent(j)
    BY <1>0, <2>3, EnqueueTyped
       DEF QueueEvent, DeliveryTyped, dispatchVars, resumeVars, scanVars, clientVars
  <2>4. CASE StoreReplayEvent(j)
    BY <2>4, StoreTyped
  <2> QED BY <1>3, <2>1, <2>2, <2>3, <2>4 DEF JobStep
<1>4. ASSUME NEW c \in Conns, DialAndGreet(c) \/ QuietStep(c)
                                \/ Silently(WriterStops(c) \/ ReadFails(c))
      PROVE  DeliveryTyped'
  BY <1>4, SilentTyped DEF DialAndGreet, QuietStep, Silently
<1>5. ASSUME NEW c \in Conns, NEW s \in Conns, ResumeFrom(c, s) PROVE DeliveryTyped'
  BY <1>5 DEF ResumeFrom, DeliveryTyped, dispatchVars, scanVars, clientVars
<1>6. ASSUME NEW c \in Conns, SendingStep(c) PROVE DeliveryTyped'
  <2>1. ASSUME NEW g \in Guilds, SubscribeAndReplay(c, g) PROVE DeliveryTyped'
    BY <2>1 DEF SubscribeAndReplay, DeliveryTyped, dispatchVars, scanVars, clientVars
  <2>2. CASE FindBuffer(c) \/ ScanBuffer(c)
    BY <2>2, FindBufferTyped, ScanBufferTyped
  <2>3. CASE SendMissed(c)
    <3>1. Head(backlog[c]) \in Payloads
      BY <2>3, HeadTailProperties DEF SendMissed, DeliveryTyped, Returned, Payloads
    <3> QED BY <1>0, <2>3, <3>1, NumberTyped
            DEF SendMissed, DeliveryTyped, dispatchVars, resumeVars, scanVars, clientVars
  <2>4. CASE QueueMissed(c)
    BY <2>4, QueueMissedTyped
  <2>5. CASE NumberReady(c)
    BY <1>0, <2>5, NumberTyped
       DEF NumberReady, DeliveryTyped, dispatchVars, resumeVars, scanVars, clientVars
  <2>6. CASE QueueReady(c)
    BY <1>0, <2>6, EnqueueTyped
       DEF QueueReady, DeliveryTyped, dispatchVars, resumeVars, scanVars, clientVars
  <2>7. CASE BroadcastOnline(c)
    BY <1>0, <2>7, StartTyped DEF BroadcastOnline, SubscribedGuilds
  <2>8. CASE Silently(FinishSubscribing(c)) \/ Silently(Announce(c))
    BY <2>8, SilentTyped DEF Silently
  <2> QED BY <1>6, <2>1, <2>2, <2>3, <2>4, <2>5, <2>6, <2>7, <2>8 DEF SendingStep
<1>7. ASSUME NEW c \in Conns, GraceWork(c) PROVE DeliveryTyped'
  <2>1. CASE BroadcastOffline(c)
    BY <1>0, <2>1, StartTyped DEF BroadcastOffline, SubscribedGuilds
  <2>2. CASE ~BroadcastOffline(c)
    BY <1>7, <2>2, SilentTyped DEF GraceWork, Silently
  <2> QED BY <2>1, <2>2
<1>8. ASSUME NEW c \in Conns, Deliver(c) PROVE DeliveryTyped'
  BY <1>8, DeliverTyped
<1>9. CASE UNCHANGED allVars
  BY <1>9 DEF allVars, deliveryVars, dispatchVars, resumeVars, scanVars, clientVars, DeliveryTyped
<1> QED BY <1>1, <1>2, <1>3, <1>4, <1>5, <1>6, <1>7, <1>8, <1>9 DEF DeliveryNext

-----------------------------------------------------------------------------
\* The numbers of a buffer stay consecutive.
LEMMA StoredNumbered ==
  ASSUME NEW S, NEW L \in Seq(S), NEW newest \in Nat, Numbered(L, newest),
         NEW x \in S, x.Sequence = newest + 1, NEW g \in Guilds, Len(L) <= ReplayCap
  PROVE  /\ Numbered(Log(g)!Stored(L, x), newest + 1)
         /\ \A k \in DOMAIN Log(g)!Stored(L, x) :
               \/ Log(g)!Stored(L, x)[k] = x
               \/ \E m \in DOMAIN L : Log(g)!Stored(L, x)[k] = L[m]
<1> DEFINE N == Log(g)!Stored(L, x)
<1>1. Len(L) \in Nat /\ DOMAIN L = 1 .. Len(L)
  OBVIOUS
<1>2. CASE Len(L) < ReplayCap
  <2>1. N = Append(L, x)
    BY <1>2 DEF Log!Stored
  <2> HIDE DEF N
  <2>2. /\ Append(L, x) \in Seq(S) /\ Len(Append(L, x)) = Len(L) + 1
        /\ \A k \in 1 .. Len(L) : Append(L, x)[k] = L[k]
        /\ Append(L, x)[Len(L) + 1] = x
    BY AppendProperties
  <2>3. DOMAIN N = 1 .. Len(L) + 1 /\ Len(N) = Len(L) + 1
    BY <2>1, <2>2
  <2>4. ASSUME NEW k \in DOMAIN N
        PROVE  /\ N[k].Sequence = newest + 1 - Len(N) + k
               /\ N[k] = x \/ \E m \in DOMAIN L : N[k] = L[m]
    <3>1. CASE k = Len(L) + 1
      BY <1>1, <2>1, <2>2, <2>3, <3>1
    <3>2. CASE k # Len(L) + 1
      <4>1. k \in 1 .. Len(L) /\ N[k] = L[k]
        BY <1>1, <2>1, <2>2, <2>3, <3>2
      <4> QED BY <1>1, <2>3, <4>1 DEF Numbered
    <3> QED BY <3>1, <3>2
  <2> QED BY <2>4 DEF Numbered, N
<1>3. CASE ~(Len(L) < ReplayCap)
  <2>1. N = Append(Tail(L), x)
    BY <1>3 DEF Log!Stored
  <2> HIDE DEF N
  <2>2. L # <<>> /\ Len(L) >= 1
    BY <1>1, <1>3, EmptySeq
  <2>3. /\ Tail(L) \in Seq(S) /\ Len(Tail(L)) = Len(L) - 1
        /\ \A k \in 1 .. Len(L) - 1 : Tail(L)[k] = L[k + 1]
    BY <2>2, HeadTailProperties
  <2>4. /\ Append(Tail(L), x) \in Seq(S)
        /\ Len(Append(Tail(L), x)) = Len(Tail(L)) + 1
        /\ \A k \in 1 .. Len(Tail(L)) : Append(Tail(L), x)[k] = Tail(L)[k]
        /\ Append(Tail(L), x)[Len(Tail(L)) + 1] = x
    BY <2>3, AppendProperties
  <2>5. DOMAIN N = 1 .. Len(L) /\ Len(N) = Len(L)
    BY <1>1, <2>1, <2>3, <2>4
  <2>6. ASSUME NEW k \in DOMAIN N
        PROVE  /\ N[k].Sequence = newest + 1 - Len(N) + k
               /\ N[k] = x \/ \E m \in DOMAIN L : N[k] = L[m]
    <3>1. CASE k = Len(L)
      BY <1>1, <2>1, <2>3, <2>4, <2>5, <3>1
    <3>2. CASE k # Len(L)
      <4>1. k + 1 \in 1 .. Len(L) /\ N[k] = L[k + 1]
        BY <1>1, <2>1, <2>3, <2>4, <2>5, <3>2
      <4>2. L[k + 1].Sequence = newest - Len(L) + (k + 1)
        BY <1>1, <4>1 DEF Numbered
      <4>3. k \in Int
        BY <2>5
      <4> QED BY <1>1, <2>5, <4>1, <4>2, <4>3
    <3> QED BY <3>1, <3>2
  <2> QED BY <2>6 DEF Numbered, N
<1> QED BY <1>2, <1>3

\* What the pieces of a dispatch and of a replay hold.
BuffersNumbered == \A g \in Guilds : Numbered(replay[g].log, replay[g].last)

JobShape(j) ==
    /\ stage[j] # "sending" => current[j] = NoGuild
    /\ pending[j] # NoPayload => pending[j].e = j

HandlerShape(c) ==
    /\ replaying[c] # NoGuild \/ scanning[c] # NoGuild =>
          /\ phase[c] = "subscribing"
          /\ backlog[c] = <<>> /\ pending[c] = NoPayload
    /\ replaying[c] = NoGuild \/ scanning[c] = NoGuild
    /\ backlog[c] # <<>> =>
          /\ phase[c] = "subscribing"
          /\ pending[c] # NoPayload =>
                pending[c].to = c /\ pending[c].e = Head(backlog[c])

Shapes == /\ BuffersNumbered
          /\ \A j \in Jobs : JobShape(j)
          /\ \A c \in Conns : HandlerShape(c)

\* Only a dispatch stores in a buffer, and it stores its event.
LEMMA BufferSteps ==
  ASSUME [DeliveryNext]_allVars
  PROVE  \/ \E j \in Jobs : StoreReplayEvent(j)
         \/ UNCHANGED replay
<1> USE DEF resumeVars
<1>1. ASSUME NEW j \in Jobs, JobStep(j)
      PROVE  StoreReplayEvent(j) \/ UNCHANGED replay
  BY <1>1 DEF JobStep, LookUp, SendTo, QueueEvent
<1>2. ASSUME NEW c \in Conns, SendingStep(c) PROVE UNCHANGED replay
  BY <1>2 DEF SendingStep, SubscribeAndReplay, FindBuffer, ScanBuffer, SendMissed, QueueMissed,
              NumberReady, QueueReady, BroadcastOnline, StartDispatch, Silently
<1>3. ASSUME NEW c \in Conns,
             \/ DialAndGreet(c) \/ QuietStep(c) \/ GraceWork(c) \/ Deliver(c)
             \/ Silently(WriterStops(c) \/ ReadFails(c))
             \/ \E s \in Conns : ResumeFrom(c, s)
      PROVE  UNCHANGED replay
  BY <1>3 DEF DialAndGreet, QuietStep, GraceWork, Deliver, Silently, BroadcastOffline,
              StartDispatch, ResumeFrom
<1>4. ASSUME NEW t \in Tasks, \/ \E g \in Guilds : DispatchToGuild(t, g)
                              \/ \E u \in Users : DispatchToUser(t, u)
      PROVE  UNCHANGED replay
  BY <1>4 DEF DispatchToGuild, DispatchToUser, StartDispatch
<1>5. CASE UNCHANGED allVars
  BY <1>5 DEF allVars, deliveryVars
<1> QED BY <1>1, <1>2, <1>3, <1>4, <1>5 DEF DeliveryNext

\* What storing j does to the buffer of the guild that j serves.
StoresIn(j, g) ==
    LET L == replay[g].log
        x == [Sequence |-> replay[g].last + 1, Event |-> j]
    IN  /\ current[j] = g
        /\ replay' = [replay EXCEPT ![g] =
                         [log |-> Log(g)!Stored(L, x), last |-> replay[g].last + 1]]

LEMMA StoreSteps ==
  ASSUME DeliveryTyped, NEW j \in Jobs, StoreReplayEvent(j)
  PROVE  UNCHANGED replay \/ \E g \in Guilds : StoresIn(j, g)
<1>1. CASE current[j] = NoGuild
  BY <1>1 DEF StoreReplayEvent
<1>2. CASE current[j] # NoGuild
  <2> DEFINE g == current[j]
  <2>1. g \in Guilds
    BY <1>2 DEF DeliveryTyped
  <2>2. Log(g)!Entry(replay[g].last + 1, j)
            = [Sequence |-> replay[g].last + 1, Event |-> j]
    BY DEF Log!Entry
  <2>3. replay' = [replay EXCEPT ![g] =
                      [log |-> Log(g)!Stored(replay[g].log,
                                  Log(g)!Entry(replay[g].last + 1, j)),
                       last |-> replay[g].last + 1]]
    BY <1>2 DEF StoreReplayEvent
  <2> QED BY <2>1, <2>2, <2>3 DEF StoresIn
<1> QED BY <1>1, <1>2

\* The entries after a store: the new one, last, and some of the old ones.
LEMMA StoredEntries ==
  ASSUME DeliveryTyped, BuffersNumbered, NEW j \in Jobs, NEW g \in Guilds, StoresIn(j, g)
  PROVE  /\ Numbered(replay'[g].log, replay'[g].last)
         /\ \A k \in DOMAIN replay'[g].log :
               \/ replay'[g].log[k].Event = j
               \/ \E m \in DOMAIN replay[g].log : replay'[g].log[k] = replay[g].log[m]
         /\ \A h \in Guilds : h # g => replay'[h] = replay[h]
<1> DEFINE L == replay[g].log
           x == [Sequence |-> replay[g].last + 1, Event |-> j]
           N == Log(g)!Stored(L, x)
<1>1. /\ L \in Seq(StoredEvent) /\ replay[g].last \in Nat /\ Len(L) <= ReplayCap
      /\ Numbered(L, replay[g].last)
  BY DEF DeliveryTyped, BuffersNumbered
<1>2. x \in StoredEvent /\ x.Sequence = replay[g].last + 1
  BY <1>1 DEF StoredEvent
<1>3. /\ Numbered(N, replay[g].last + 1)
      /\ \A k \in DOMAIN N : N[k] = x \/ \E m \in DOMAIN L : N[k] = L[m]
  <2> HIDE DEF L, x
  <2> QED BY <1>1, <1>2, StoredNumbered
<1>4. replay' = [replay EXCEPT ![g] = [log |-> N, last |-> replay[g].last + 1]]
  BY DEF StoresIn
<1>5. x.Event = j
  OBVIOUS
<1> HIDE DEF N, x
<1>6. replay'[g].log = N /\ replay'[g].last = replay[g].last + 1
  BY <1>4 DEF DeliveryTyped
<1>7. \A h \in Guilds : h # g => replay'[h] = replay[h]
  BY <1>4 DEF DeliveryTyped
<1> QED BY <1>3, <1>5, <1>6, <1>7

LEMMA BuffersStep ==
  ASSUME DeliveryTyped, BuffersNumbered, [DeliveryNext]_allVars
  PROVE  BuffersNumbered'
<1>1. CASE UNCHANGED replay
  BY <1>1 DEF BuffersNumbered, Numbered
<1>2. ASSUME NEW j \in Jobs, NEW g \in Guilds, StoresIn(j, g) PROVE BuffersNumbered'
  <2> SUFFICES ASSUME NEW h \in Guilds PROVE Numbered(replay'[h].log, replay'[h].last)
    BY DEF BuffersNumbered, Numbered
  <2>1. Numbered(replay[h].log, replay[h].last)
    BY DEF BuffersNumbered
  <2> QED BY <1>2, <2>1, StoredEntries
<1> QED BY <1>1, <1>2, BufferSteps, StoreSteps

-----------------------------------------------------------------------------
\* What the steps of handlers, readers and writers leave to the jobs.
LEMMA JobsUntouched ==
  ASSUME DeliveryTyped, NEW c \in Conns, NEW j \in Jobs,
         \/ DialAndGreet(c) \/ QuietStep(c) \/ Deliver(c)
         \/ Silently(WriterStops(c) \/ ReadFails(c))
         \/ \E s \in Conns : ResumeFrom(c, s)
         \/ \E g \in Guilds : SubscribeAndReplay(c, g)
         \/ FindBuffer(c) \/ ScanBuffer(c) \/ SendMissed(c) \/ QueueMissed(c)
         \/ Silently(FinishSubscribing(c)) \/ NumberReady(c) \/ QueueReady(c)
         \/ Silently(Announce(c))
         \/ Silently(GraceWakes(c) \/ GraceSetsOffline(c))
         \/ Silently(GraceAnnounces(c))
  PROVE  UNCHANGED dispatchVars /\ pending'[j] = pending[j]
<1>0. c # j /\ c \in Senders /\ j \in Senders
  BY DEF Senders
<1>1. CASE SendMissed(c) \/ NumberReady(c)
  BY <1>0, <1>1 DEF SendMissed, NumberReady, Number, DeliveryTyped
<1>2. CASE QueueMissed(c) \/ QueueReady(c)
  BY <1>0, <1>2 DEF QueueMissed, QueueReady, Enqueue, DeliveryTyped
<1>3. CASE FindBuffer(c) \/ ScanBuffer(c) \/ Deliver(c)
  BY <1>3 DEF FindBuffer, ScanBuffer, Deliver
<1>4. ASSUME NEW s \in Conns, ResumeFrom(c, s)
      PROVE  UNCHANGED dispatchVars /\ pending'[j] = pending[j]
  BY <1>4 DEF ResumeFrom
<1>5. ASSUME NEW g \in Guilds, SubscribeAndReplay(c, g)
      PROVE  UNCHANGED dispatchVars /\ pending'[j] = pending[j]
  BY <1>5 DEF SubscribeAndReplay
<1>6. CASE \/ DialAndGreet(c) \/ QuietStep(c)
           \/ Silently(WriterStops(c) \/ ReadFails(c))
           \/ Silently(FinishSubscribing(c)) \/ Silently(Announce(c))
           \/ Silently(GraceWakes(c) \/ GraceSetsOffline(c))
           \/ Silently(GraceAnnounces(c))
  BY <1>6 DEF DialAndGreet, QuietStep, Silently
<1> QED BY <1>1, <1>2, <1>3, <1>4, <1>5, <1>6

\* The steps that a job takes, or that start it.
JobMoves(j) ==
    \/ \E gs \in SUBSET Guilds : StartDispatch(j, gs)
    \/ \E u \in Users : DispatchToUser(j, u)
    \/ JobStep(j)

LEMMA JobOrHandler ==
  ASSUME DeliveryTyped, [DeliveryNext]_allVars, NEW j \in Jobs
  PROVE  \/ JobMoves(j)
         \/ /\ stage'[j] = stage[j] /\ current'[j] = current[j]
            /\ targets'[j] = targets[j] /\ pending'[j] = pending[j]
<1> DEFINE Untouched == /\ stage'[j] = stage[j] /\ current'[j] = current[j]
                        /\ targets'[j] = targets[j] /\ pending'[j] = pending[j]
<1>0. /\ Tasks \subseteq Jobs
      /\ \A c \in Conns : Online(c) \in Jobs /\ Offline(c) \in Jobs
  BY DEF Jobs
<1>1. ASSUME NEW h \in Jobs, NEW gs \in SUBSET Guilds, StartDispatch(h, gs)
      PROVE  JobMoves(j) \/ Untouched
  BY <1>1 DEF StartDispatch, DeliveryTyped, JobMoves
<1>2. ASSUME NEW t \in Tasks, NEW u \in Users, DispatchToUser(t, u)
      PROVE  JobMoves(j) \/ Untouched
  <2>1. CASE t = j
    BY <1>2, <2>1 DEF JobMoves
  <2>2. CASE t # j
    BY <1>0, <1>2, <2>2 DEF DispatchToUser, DeliveryTyped
  <2> QED BY <2>1, <2>2
<1>3. ASSUME NEW h \in Jobs, JobStep(h) PROVE JobMoves(j) \/ Untouched
  <2>1. CASE h = j
    BY <1>3, <2>1 DEF JobMoves
  <2>2. CASE h # j
    <3>0. h \in Senders /\ j \in Senders
      BY DEF Senders
    <3>1. ASSUME NEW g \in Guilds, LookUp(h, g) PROVE Untouched
      BY <2>2, <3>1 DEF LookUp, DeliveryTyped
    <3>2. ASSUME NEW c \in Conns, SendTo(h, c) PROVE Untouched
      BY <2>2, <3>0, <3>2 DEF SendTo, Number, DeliveryTyped
    <3>3. CASE QueueEvent(h)
      BY <2>2, <3>0, <3>3 DEF QueueEvent, Enqueue, dispatchVars, DeliveryTyped
    <3>4. CASE StoreReplayEvent(h)
      BY <2>2, <3>0, <3>4 DEF StoreReplayEvent, DeliveryTyped
    <3> QED BY <1>3, <3>1, <3>2, <3>3, <3>4 DEF JobStep
  <2> QED BY <2>1, <2>2
<1>4. ASSUME NEW c \in Conns, BroadcastOnline(c) \/ BroadcastOffline(c)
      PROVE  JobMoves(j) \/ Untouched
  BY <1>0, <1>1, <1>4 DEF BroadcastOnline, BroadcastOffline, SubscribedGuilds
<1>5. ASSUME NEW c \in Conns,
         \/ DialAndGreet(c) \/ \E s \in Conns : ResumeFrom(c, s)
         \/ QuietStep(c) \/ SendingStep(c) \/ GraceWork(c)
         \/ Deliver(c)
         \/ Silently(WriterStops(c) \/ ReadFails(c))
      PROVE  JobMoves(j) \/ Untouched
  BY <1>4, <1>5, JobsUntouched DEF SendingStep, GraceWork, dispatchVars
<1>6. ASSUME NEW t \in Tasks, NEW g \in Guilds, DispatchToGuild(t, g)
      PROVE  JobMoves(j) \/ Untouched
  BY <1>0, <1>1, <1>6 DEF DispatchToGuild
<1>7. CASE UNCHANGED allVars
  BY <1>7 DEF allVars, deliveryVars, dispatchVars
<1> QED BY <1>2, <1>3, <1>5, <1>6, <1>7 DEF DeliveryNext

LEMMA JobShapeStep ==
  ASSUME DeliveryTyped, \A j \in Jobs : JobShape(j), [DeliveryNext]_allVars,
         NEW j \in Jobs
  PROVE  JobShape(j)'
<1>0. JobShape(j) /\ j \in Senders
  BY DEF Senders
<1>1. ASSUME NEW gs \in SUBSET Guilds, StartDispatch(j, gs) PROVE JobShape(j)'
  BY <1>0, <1>1 DEF StartDispatch, JobShape, DeliveryTyped
<1>2. ASSUME NEW u \in Users, DispatchToUser(j, u) PROVE JobShape(j)'
  BY <1>0, <1>2 DEF DispatchToUser, JobShape, DeliveryTyped
<1>3. CASE JobStep(j)
  <2>1. ASSUME NEW g \in Guilds, LookUp(j, g) PROVE JobShape(j)'
    BY <1>0, <2>1 DEF LookUp, JobShape, DeliveryTyped
  <2>2. ASSUME NEW c \in Conns, SendTo(j, c) PROVE JobShape(j)'
    BY <1>0, <2>2 DEF SendTo, Number, JobShape, DeliveryTyped
  <2>3. CASE QueueEvent(j)
    BY <1>0, <2>3 DEF QueueEvent, Enqueue, JobShape, DeliveryTyped, dispatchVars
  <2>4. CASE StoreReplayEvent(j)
    BY <1>0, <2>4 DEF StoreReplayEvent, JobShape, DeliveryTyped
  <2> QED BY <1>3, <2>1, <2>2, <2>3, <2>4 DEF JobStep
<1>4. CASE /\ stage'[j] = stage[j] /\ current'[j] = current[j]
           /\ targets'[j] = targets[j] /\ pending'[j] = pending[j]
  BY <1>0, <1>4 DEF JobShape
<1> QED BY <1>1, <1>2, <1>3, <1>4, JobOrHandler DEF JobMoves

-----------------------------------------------------------------------------
\* The steps of c's handler that replay, send or end the loop over the guilds.
HandlerMoves(c) ==
    \/ \E g \in Guilds : SubscribeAndReplay(c, g)
    \/ FindBuffer(c) \/ ScanBuffer(c) \/ SendMissed(c) \/ QueueMissed(c)
    \/ ReplayDone(c) /\ Silently(FinishSubscribing(c))
    \/ NumberReady(c) \/ QueueReady(c)

LEMMA HandlerOrOther ==
  ASSUME DeliveryTyped, TypeOK, [DeliveryNext]_allVars, NEW c \in Conns
  PROVE  \/ HandlerMoves(c)
         \/ /\ replaying'[c] = replaying[c] /\ scanning'[c] = scanning[c]
            /\ backlog'[c] = backlog[c] /\ pending'[c] = pending[c]
            /\ phase[c] = "subscribing" => phase'[c] = "subscribing"
<1> DEFINE Untouched == /\ replaying'[c] = replaying[c] /\ scanning'[c] = scanning[c]
                        /\ backlog'[c] = backlog[c] /\ pending'[c] = pending[c]
                        /\ phase[c] = "subscribing" => phase'[c] = "subscribing"
<1> USE DEF resumeVars, scanVars, vars, connVars
<1>0. /\ c \in Senders /\ c \notin Jobs
      /\ Jobs \subseteq Senders /\ Conns \subseteq Senders /\ Tasks \subseteq Jobs
  BY DEF Senders, Jobs
<1>1. ASSUME NEW j \in Jobs, NEW gs \in SUBSET Guilds, StartDispatch(j, gs)
      PROVE  Untouched
  BY <1>1 DEF StartDispatch
<1>2. ASSUME NEW t \in Tasks, NEW u \in Users, DispatchToUser(t, u) PROVE Untouched
  BY <1>2 DEF DispatchToUser
<1>3. ASSUME NEW j \in Jobs, JobStep(j) PROVE Untouched
  <2>1. ASSUME NEW g \in Guilds, LookUp(j, g) PROVE Untouched
    BY <2>1 DEF LookUp
  <2>2. ASSUME NEW d \in Conns, SendTo(j, d) PROVE Untouched
    BY <1>0, <2>2 DEF SendTo, Number, DeliveryTyped
  <2>3. CASE QueueEvent(j)
    BY <1>0, <2>3 DEF QueueEvent, Enqueue, DeliveryTyped
  <2>4. CASE StoreReplayEvent(j)
    BY <2>4 DEF StoreReplayEvent
  <2> QED BY <1>3, <2>1, <2>2, <2>3, <2>4 DEF JobStep
<1>4. ASSUME NEW d \in Conns, DialAndGreet(d) PROVE Untouched
  BY <1>4 DEF DialAndGreet, Silently, TypeOK, Dial, RejectHandshake, AwaitsHandshake,
              ReceiveIdentify, BeginHandshake
<1>5. ASSUME NEW d \in Conns, NEW s \in Conns, ResumeFrom(d, s) PROVE Untouched
  BY <1>5 DEF ResumeFrom, TypeOK, ReceiveResume, AwaitsHandshake, BeginHandshake
<1>6. ASSUME NEW d \in Conns, QuietStep(d) PROVE Untouched
  BY <1>6 DEF QuietStep, Silently, TypeOK, FetchGuilds, FetchFails, Register, SetOnline
<1>7. ASSUME NEW d \in Conns, SendingStep(d) PROVE HandlerMoves(c) \/ Untouched
  <2>1. CASE d = c /\ HandlerMoves(c)
    BY <2>1
  <2>2. CASE BroadcastOnline(d)
    BY <2>2 DEF BroadcastOnline, StartDispatch
  <2>3. CASE Silently(Announce(d))
    BY <2>3 DEF Silently, Announce, TypeOK
  <2>4. ASSUME d # c, HandlerMoves(d) PROVE Untouched
    <3>1. ASSUME NEW g \in Guilds, SubscribeAndReplay(d, g) PROVE Untouched
      BY <2>4, <3>1 DEF SubscribeAndReplay, SubscribeNext, DeliveryTyped, TypeOK
    <3>2. CASE FindBuffer(d) \/ ScanBuffer(d)
      BY <2>4, <3>2 DEF FindBuffer, ScanBuffer, DeliveryTyped
    <3>3. CASE SendMissed(d) \/ NumberReady(d)
      BY <1>0, <2>4, <3>3 DEF SendMissed, NumberReady, Number, DeliveryTyped
    <3>4. CASE QueueMissed(d)
      BY <1>0, <2>4, <3>4 DEF QueueMissed, Enqueue, DeliveryTyped
    <3>5. CASE Silently(FinishSubscribing(d))
      BY <2>4, <3>5 DEF Silently, FinishSubscribing, TypeOK
    <3>6. CASE QueueReady(d)
      BY <1>0, <2>4, <3>6 DEF QueueReady, SendReady, Enqueue, DeliveryTyped, TypeOK
    <3> QED BY <2>4, <3>1, <3>2, <3>3, <3>4, <3>5, <3>6 DEF HandlerMoves
  <2> QED BY <1>7, <2>1, <2>2, <2>3, <2>4 DEF SendingStep, HandlerMoves
<1>8. ASSUME NEW d \in Conns, GraceWork(d) PROVE Untouched
  BY <1>8 DEF GraceWork, Silently, BroadcastOffline, StartDispatch,
              GraceWakes, GraceSetsOffline, GraceAnnounces
<1>9. ASSUME NEW d \in Conns, Deliver(d) PROVE Untouched
  BY <1>9 DEF Deliver
<1>10. ASSUME NEW d \in Conns, Silently(WriterStops(d) \/ ReadFails(d)) PROVE Untouched
  BY <1>10 DEF Silently, WriterStops, ReadFails, TypeOK
<1>11. CASE UNCHANGED allVars
  BY <1>11 DEF allVars, deliveryVars
<1>12. ASSUME NEW t \in Tasks, NEW g \in Guilds, DispatchToGuild(t, g) PROVE Untouched
  BY <1>0, <1>1, <1>12 DEF DispatchToGuild
<1> QED BY <1>2, <1>3, <1>4, <1>5, <1>6, <1>7, <1>8, <1>9, <1>10, <1>11, <1>12
        DEF DeliveryNext

LEMMA HandlerShapeStep ==
  ASSUME DeliveryTyped, TypeOK, [DeliveryNext]_allVars, NEW c \in Conns, HandlerShape(c)
  PROVE  HandlerShape(c)'
<1>0. c \in Senders
  BY DEF Senders
<1>1. ASSUME NEW g \in Guilds, SubscribeAndReplay(c, g) PROVE HandlerShape(c)'
  BY <1>1 DEF SubscribeAndReplay, ReplayDone, SubscribeNext, HandlerShape, DeliveryTyped,
              scanVars
<1>2. CASE FindBuffer(c) \/ ScanBuffer(c)
  BY <1>2 DEF FindBuffer, ScanBuffer, HandlerShape, DeliveryTyped, vars, connVars
<1>3. CASE SendMissed(c)
  BY <1>0, <1>3 DEF SendMissed, Number, HandlerShape, DeliveryTyped, resumeVars, scanVars,
                    vars, connVars
<1>4. CASE QueueMissed(c)
  BY <1>0, <1>4 DEF QueueMissed, Enqueue, HandlerShape, DeliveryTyped, scanVars, vars,
                    connVars
<1>5. CASE ReplayDone(c) /\ Silently(FinishSubscribing(c))
  BY <1>5 DEF ReplayDone, Silently, HandlerShape, resumeVars, scanVars
<1>6. CASE NumberReady(c)
  BY <1>6 DEF NumberReady, HandlerShape, resumeVars, scanVars, vars, connVars
<1>7. CASE QueueReady(c)
  BY <1>7 DEF QueueReady, SendReady, HandlerShape, resumeVars, scanVars
<1>8. CASE /\ replaying'[c] = replaying[c] /\ scanning'[c] = scanning[c]
           /\ backlog'[c] = backlog[c] /\ pending'[c] = pending[c]
           /\ phase[c] = "subscribing" => phase'[c] = "subscribing"
  BY <1>8 DEF HandlerShape
<1> QED BY <1>1, <1>2, <1>3, <1>4, <1>5, <1>6, <1>7, <1>8, HandlerOrOther
        DEF HandlerMoves

-----------------------------------------------------------------------------
\* What c is sent, was sent or will be sent of the replayed events.
Accounted(c, e) ==
    \/ e \in reached[c] \union raced[c]
    \/ \E m \in DOMAIN backlog[c] : backlog[c][m] = e

\* While a connection is open nothing that is accounted for is lost.
LEMMA AccountKept ==
  ASSUME DeliveryTyped, TypeOK, [DeliveryNext]_allVars, NEW c \in Conns, HandlerShape(c),
         NEW e, Accounted(c, e), ~closed'[c]
  PROVE  Accounted(c, e)'
<1> DEFINE Goal == Accounted(c, e)'
<1> USE DEF Accounted, resumeVars, scanVars, vars, connVars
<1>0. /\ c \in Senders /\ Jobs \subseteq Senders /\ Conns \subseteq Senders
      /\ Tasks \subseteq Jobs
  BY DEF Senders, Jobs
<1>1. ASSUME UNCHANGED <<reached, raced, backlog>> PROVE Goal
  BY <1>1
<1>2. ASSUME reached' = Open(reached, {}), raced' = Open(raced, {}),
             UNCHANGED backlog
      PROVE  Goal
  BY <1>2 DEF Open, DeliveryTyped
<1>3. ASSUME NEW x \in Senders, Enqueue(x), UNCHANGED <<raced, backlog>> PROVE Goal
  <2>1. reached[c] \subseteq reached'[c]
    BY <1>3, EnqueueTyped DEF Enqueue, DeliveryTyped
  <2> QED BY <1>3, <2>1
<1>4. ASSUME NEW j \in Jobs, JobStep(j) PROVE Goal
  BY <1>0, <1>1, <1>3, <1>4 DEF JobStep, LookUp, SendTo, QueueEvent, StoreReplayEvent
<1>5. ASSUME NEW d \in Conns, FindBuffer(d) \/ ScanBuffer(d) PROVE Goal
  <2>1. CASE d = c
    <3>1. backlog[c] = <<>> /\ reached' = reached /\ closed' = closed
      BY <1>5, <2>1 DEF FindBuffer, ScanBuffer, HandlerShape
    <3>2. raced[c] \subseteq raced'[c]
      BY <1>5, <2>1, <3>1 DEF FindBuffer, ScanBuffer, DeliveryTyped
    <3> QED BY <3>1, <3>2
  <2>2. CASE d # c
    BY <1>5, <2>2 DEF FindBuffer, ScanBuffer, DeliveryTyped
  <2> QED BY <2>1, <2>2
<1>6. ASSUME NEW d \in Conns, QueueMissed(d) PROVE Goal
  <2>1. reached[c] \subseteq reached'[c] /\ raced' = raced
    BY <1>0, <1>6, EnqueueTyped DEF QueueMissed, Enqueue, DeliveryTyped
  <2>2. CASE d # c
    BY <1>6, <2>1, <2>2 DEF QueueMissed, DeliveryTyped
  <2>3. CASE d = c
    <3>1. /\ backlog[c] \in Seq(Returned) /\ backlog[c] # <<>>
          /\ backlog'[c] = Tail(backlog[c])
      BY <1>6, <2>3 DEF QueueMissed, DeliveryTyped
    <3>2. Head(backlog[c]) \in reached'[c]
      <4>1. pending[c] # NoPayload /\ pending[c].to = c /\ pending[c].e = Head(backlog[c])
        BY <1>6, <2>3 DEF QueueMissed, Enqueue, HandlerShape
      <4>2. ~closed[c]
        BY <1>6 DEF QueueMissed
      <4> QED BY <1>6, <2>3, <4>1, <4>2 DEF QueueMissed, Enqueue, DeliveryTyped
    <3>3. ASSUME NEW m \in DOMAIN backlog[c], backlog[c][m] = e PROVE Goal
      <4>1. /\ Len(Tail(backlog[c])) = Len(backlog[c]) - 1 /\ Len(backlog[c]) \in Nat
            /\ \A k \in 1 .. Len(backlog[c]) - 1 : Tail(backlog[c])[k] = backlog[c][k + 1]
            /\ Head(backlog[c]) = backlog[c][1] /\ DOMAIN backlog[c] = 1 .. Len(backlog[c])
            /\ Tail(backlog[c]) \in Seq(Returned)
        BY <3>1, HeadTailProperties
      <4>2. CASE m = 1
        BY <3>2, <3>3, <4>1, <4>2
      <4>3. CASE m # 1
        <5>1. m - 1 \in 1 .. Len(backlog[c]) - 1 /\ (m - 1) + 1 = m
          BY <4>1, <4>3
        <5>2. m - 1 \in DOMAIN Tail(backlog[c]) /\ Tail(backlog[c])[m - 1] = e
          BY <3>3, <4>1, <5>1
        <5> QED BY <3>1, <5>2
      <4> QED BY <4>2, <4>3
    <3> QED BY <2>1, <3>3
  <2> QED BY <2>2, <2>3
<1>7. ASSUME NEW d \in Conns, SendingStep(d) PROVE Goal
  <2>1. ASSUME NEW g \in Guilds, SubscribeAndReplay(d, g) PROVE Goal
    BY <1>1, <2>1 DEF SubscribeAndReplay
  <2>2. CASE SendMissed(d) \/ NumberReady(d) \/ BroadcastOnline(d)
    BY <1>1, <2>2 DEF SendMissed, NumberReady, BroadcastOnline, StartDispatch
  <2>3. CASE Silently(FinishSubscribing(d)) \/ Silently(Announce(d))
    BY <1>2, <2>3 DEF Silently
  <2>4. CASE QueueReady(d)
    BY <1>0, <1>3, <2>4 DEF QueueReady
  <2> QED BY <1>5, <1>6, <1>7, <2>1, <2>2, <2>3, <2>4 DEF SendingStep
<1>8. ASSUME NEW d \in Conns, \/ DialAndGreet(d) \/ QuietStep(d) \/ GraceWork(d)
                              \/ Silently(WriterStops(d) \/ ReadFails(d))
      PROVE  Goal
  <2>1. CASE BroadcastOffline(d)
    BY <1>1, <2>1 DEF BroadcastOffline, StartDispatch
  <2>2. CASE ~BroadcastOffline(d)
    BY <1>2, <1>8, <2>2 DEF DialAndGreet, QuietStep, GraceWork, Silently
  <2> QED BY <2>1, <2>2
<1>9. ASSUME NEW d \in Conns, Deliver(d) \/ \E s \in Conns : ResumeFrom(d, s) PROVE Goal
  BY <1>1, <1>9 DEF Deliver, ResumeFrom
<1>10. ASSUME NEW t \in Tasks, \/ \E g \in Guilds : DispatchToGuild(t, g)
                               \/ \E u \in Users : DispatchToUser(t, u)
       PROVE  Goal
  BY <1>1, <1>10 DEF DispatchToGuild, DispatchToUser, StartDispatch
<1>11. CASE UNCHANGED allVars
  BY <1>1, <1>11 DEF allVars, deliveryVars
<1> QED BY <1>4, <1>7, <1>8, <1>9, <1>10, <1>11 DEF DeliveryNext

\* A connection whose handler has found the buffer of g, and the number beyond
\* which everything in it is accounted for: first that of the newest event it
\* had then, and after the scan the one that the client sent.
Found(c, g) ==
    /\ Live(c) /\ Resuming(c)
    /\ g \in guilds[c] \ todo[c]
    /\ replaying[c] # g

From(c, g) == IF scanning[c] = g THEN began[c] ELSE resumeSeq[c]

FoundUpTo(c, g) ==
    \A k \in DOMAIN replay[g].log :
        replay[g].log[k].Sequence > From(c, g) => Accounted(c, replay[g].log[k].Event)

\* It begins to be so when it finds the buffer, and the scan moves the number.
LEMMA FoundFrom ==
  ASSUME DeliveryTyped, Invariant, [DeliveryNext]_allVars,
         NEW c \in Conns, NEW g \in Guilds, HandlerShape(c), Found(c, g)'
  PROVE  \/ Found(c, g) /\ From(c, g)' = From(c, g)
         \/ Found(c, g) /\ ScanBuffer(c) /\ scanning[c] = g
         \/ FindBuffer(c) /\ replaying[c] = g
<1> DEFINE Before == Found(c, g) /\ From(c, g)' = From(c, g)
<1> USE DEF Found, From, Live, Resuming, resumeVars, scanVars, vars, connVars
<1>0. TypeOK /\ HandshakeShape
  BY DEF Invariant
<1>1. ASSUME UNCHANGED <<connVars, resumeSeq, replaying, scanning, began>>
      PROVE  Before
  BY <1>1
<1>2. ASSUME NEW j \in Jobs, JobStep(j) PROVE Before
  BY <1>1, <1>2 DEF JobStep, LookUp, SendTo, QueueEvent, StoreReplayEvent
<1>3. ASSUME NEW d \in Conns, DialAndGreet(d) PROVE Before
  <2>1. UNCHANGED <<resumeSeq, replaying, scanning, began>>
    BY <1>3 DEF DialAndGreet, Silently
  <2>2. CASE Dial(d)
    BY <1>0, <2>1, <2>2 DEF Dial, TypeOK, HandshakeShape
  <2>3. CASE RejectHandshake(d)
    BY <1>0, <2>1, <2>3 DEF RejectHandshake, TypeOK
  <2>4. ASSUME NEW u \in Users, ReceiveIdentify(d, u) PROVE Before
    BY <1>0, <2>1, <2>4 DEF ReceiveIdentify, BeginHandshake, TypeOK
  <2> QED BY <1>3, <2>2, <2>3, <2>4 DEF DialAndGreet, Silently
<1>4. ASSUME NEW d \in Conns, NEW s \in Conns, ResumeFrom(d, s) PROVE Before
  BY <1>0, <1>4 DEF ResumeFrom, ReceiveResume, BeginHandshake, TypeOK, DeliveryTyped
<1>5. ASSUME NEW d \in Conns, QuietStep(d) PROVE Before
  <2>1. UNCHANGED <<resumeSeq, replaying, scanning, began>>
    BY <1>5 DEF QuietStep, Silently
  <2>2. CASE FetchGuilds(d)
    BY <1>0, <2>1, <2>2 DEF FetchGuilds, TypeOK
  <2>3. CASE FetchFails(d)
    BY <1>0, <2>1, <2>3 DEF FetchFails, TypeOK
  <2>4. CASE Register(d)
    BY <1>0, <2>1, <2>4 DEF Register, TypeOK, HandshakeShape
  <2>5. CASE SetOnline(d)
    BY <1>0, <2>1, <2>5 DEF SetOnline, TypeOK
  <2> QED BY <1>5, <2>2, <2>3, <2>4, <2>5 DEF QuietStep, Silently
<1>6. ASSUME NEW d \in Conns, NEW h \in Guilds, SubscribeAndReplay(d, h) PROVE Before
  <2>1. /\ UNCHANGED <<phase, closed, user, session, guilds, resumeSeq,
                       scanning, began>>
        /\ todo' = [todo EXCEPT ![d] = @ \ {h}]
        /\ replaying' = [replaying EXCEPT ![d] = IF Resuming(d) THEN h ELSE NoGuild]
        /\ replaying[d] = NoGuild
    BY <1>6 DEF SubscribeAndReplay, SubscribeNext, ReplayDone
  <2>2. CASE d = c
    <3>1. replaying'[c] = h
      BY <2>1, <2>2 DEF DeliveryTyped
    <3>2. g # h /\ todo'[c] = todo[c] \ {h}
      BY <1>0, <2>1, <2>2, <3>1 DEF TypeOK
    <3> QED BY <2>1, <2>2, <3>2
  <2>3. CASE d # c
    BY <1>0, <2>1, <2>3 DEF TypeOK, DeliveryTyped
  <2> QED BY <2>2, <2>3
<1>7. ASSUME NEW d \in Conns, FindBuffer(d) \/ ScanBuffer(d)
      PROVE  \/ Before
             \/ Found(c, g) /\ ScanBuffer(c) /\ scanning[c] = g
             \/ FindBuffer(c) /\ replaying[c] = g
  <2>1. UNCHANGED <<connVars, resumeSeq>>
    BY <1>7 DEF FindBuffer, ScanBuffer
  <2>2. CASE d # c
    BY <1>7, <2>1, <2>2 DEF FindBuffer, ScanBuffer, DeliveryTyped
  <2>3. CASE d = c /\ FindBuffer(c) /\ replaying[c] # g
    <3>1. scanning[c] = NoGuild /\ scanning'[c] # g
      BY <2>3 DEF FindBuffer, HandlerShape, DeliveryTyped
    <3>2. g # NoGuild
      OBVIOUS
    <3> QED BY <2>1, <2>3, <3>1, <3>2
  <2>4. CASE d = c /\ ScanBuffer(c)
    <3>1. replaying' = replaying /\ scanning'[c] = NoGuild /\ g # NoGuild
      BY <2>4 DEF ScanBuffer, DeliveryTyped
    <3> QED BY <2>1, <2>4, <3>1
  <2> QED BY <1>7, <2>2, <2>3, <2>4
<1>8. ASSUME NEW d \in Conns, SendingStep(d)
      PROVE  \/ Before
             \/ Found(c, g) /\ ScanBuffer(c) /\ scanning[c] = g
             \/ FindBuffer(c) /\ replaying[c] = g
  <2>1. CASE SendMissed(d) \/ QueueMissed(d) \/ NumberReady(d) \/ BroadcastOnline(d)
    BY <1>1, <2>1 DEF SendMissed, QueueMissed, NumberReady, BroadcastOnline, StartDispatch
  <2>2. CASE Silently(FinishSubscribing(d)) \/ Silently(Announce(d))
    BY <1>0, <2>2 DEF Silently, FinishSubscribing, Announce, TypeOK
  <2>3. CASE QueueReady(d)
    BY <1>0, <2>3 DEF QueueReady, SendReady, TypeOK
  <2> QED BY <1>6, <1>7, <1>8, <2>1, <2>2, <2>3 DEF SendingStep
<1>9. ASSUME NEW d \in Conns, GraceWork(d) PROVE Before
  BY <1>9 DEF GraceWork, Silently, BroadcastOffline, StartDispatch, GraceWakes,
              GraceSetsOffline, GraceAnnounces
<1>10. ASSUME NEW d \in Conns, Silently(WriterStops(d) \/ ReadFails(d)) PROVE Before
  BY <1>0, <1>10 DEF Silently, WriterStops, ReadFails, TypeOK
<1>11. ASSUME NEW d \in Conns, Deliver(d) PROVE Before
  BY <1>1, <1>11 DEF Deliver
<1>12. ASSUME NEW t \in Tasks, \/ \E h \in Guilds : DispatchToGuild(t, h)
                               \/ \E u \in Users : DispatchToUser(t, u)
       PROVE  Before
  BY <1>1, <1>12 DEF DispatchToGuild, DispatchToUser, StartDispatch
<1>13. CASE UNCHANGED allVars
  BY <1>1, <1>13 DEF allVars, deliveryVars
<1> QED BY <1>2, <1>3, <1>4, <1>5, <1>8, <1>9, <1>10, <1>11, <1>12, <1>13
        DEF DeliveryNext

-----------------------------------------------------------------------------
\* A dispatch under way still has to reach the connections that found the buffer
\* of its guild, or it has, or they know that it has raced them.
Covered(j, c) ==
    stage[j] = "sending" /\ current[j] \in Guilds /\ Found(c, current[j]) =>
        \/ c \in targets[j]
        \/ pending[j] # NoPayload /\ pending[j].to = c
        \/ Accounted(c, j)

DispatchesCover == \A j \in Jobs, c \in Conns : Covered(j, c)

ScansCover == \A c \in Conns, g \in Guilds : Found(c, g) => FoundUpTo(c, g)

DeliveryInvariant ==
    /\ Invariant
    /\ DeliveryTyped
    /\ Shapes
    /\ DispatchesCover
    /\ ScansCover

\* A lookup finds whoever is open and has subscribed.
LEMMA LookUpFinds ==
  ASSUME Invariant, NEW j \in Jobs, NEW g \in Guilds, LookUp(j, g), DeliveryTyped,
         NEW c \in Conns, Live(c), g \in guilds[c] \ todo[c]
  PROVE  c \in targets'[j]
<1>1. connections[user[c]] = c /\ user[c] \in Users /\ c # NoConn
  BY DEF Invariant, SingleConnection, TypeOK, Live
<1>2. user[c] \in subscriptions[g]
  BY DEF Invariant, LiveIsSubscribed, Subscribed, SubscribedGuilds
<1>3. c \in Registered(subscriptions[g])
  BY <1>1, <1>2 DEF Registered
<1> QED BY <1>3 DEF LookUp, DeliveryTyped

LEMMA CoverStep ==
  ASSUME DeliveryInvariant, [DeliveryNext]_allVars, NEW j \in Jobs, NEW c \in Conns
  PROVE  Covered(j, c)'
<1> DEFINE Goal == \/ c \in targets'[j]
                   \/ pending'[j] # NoPayload /\ pending'[j].to = c
                   \/ Accounted(c, j)'
<1> SUFFICES ASSUME NEW g \in Guilds, stage'[j] = "sending", current'[j] = g,
                    Found(c, g)'
             PROVE  Goal
  BY DEF Covered, Found, Live, Resuming
<1>0. /\ Invariant /\ TypeOK /\ DeliveryTyped /\ JobShape(j) /\ HandlerShape(c)
      /\ Covered(j, c) /\ j \in Senders /\ ~closed'[c]
  BY DEF DeliveryInvariant, Invariant, Shapes, DispatchesCover, Senders, Found, Live
<1>1. Accounted(c, j) => Goal
  BY <1>0, AccountKept
<1>2. CASE Found(c, g)
  <2>0. Live(c) /\ ~closed[c] /\ g \in guilds[c] \ todo[c]
    BY <1>2 DEF Found, Live
  <2>1. CASE /\ stage'[j] = stage[j] /\ current'[j] = current[j]
             /\ targets'[j] = targets[j] /\ pending'[j] = pending[j]
    BY <1>0, <1>1, <1>2, <2>1 DEF Covered
  <2>2. ASSUME NEW gs \in SUBSET Guilds, StartDispatch(j, gs) PROVE FALSE
    BY <1>0, <2>2 DEF StartDispatch, DeliveryTyped
  <2>3. ASSUME NEW u \in Users, DispatchToUser(j, u) PROVE FALSE
    BY <1>0, <2>3 DEF DispatchToUser, JobShape
  <2>4. ASSUME NEW h \in Guilds, LookUp(j, h) PROVE Goal
    <3>1. h = g
      BY <1>0, <2>4 DEF LookUp, DeliveryTyped
    <3> QED BY <1>0, <2>0, <2>4, <3>1, LookUpFinds
  <2>5. ASSUME NEW d \in Conns, SendTo(j, d) PROVE Goal
    <3>1. /\ stage[j] = "sending" /\ current[j] = g
          /\ targets'[j] = targets[j] \ {d}
      BY <1>0, <2>5 DEF SendTo, DeliveryTyped
    <3>2. CASE c \in targets[j] /\ d # c
      BY <3>1, <3>2
    <3>3. CASE d = c
      <4>1. Number(j, c, j)
        BY <2>0, <2>5, <3>3 DEF SendTo
      <4>2. pending'[j] = [to |-> c, s |-> nextSeq'[c], e |-> j]
        BY <1>0, <4>1 DEF Number, DeliveryTyped
      <4>3. pending'[j] \in Payload
        <5>1. j \in Payloads /\ nextSeq' \in [Conns -> Nat]
          BY <1>0, <4>1, NumberTyped DEF Payloads
        <5> QED BY <4>2, <5>1 DEF Payload
      <4> QED BY <4>2, <4>3
    <3>4. CASE pending[j] # NoPayload /\ pending[j].to = c
      BY <2>5, <3>4 DEF SendTo, Number
    <3> QED BY <1>0, <1>1, <1>2, <3>1, <3>2, <3>3, <3>4 DEF Covered
  <2>6. CASE QueueEvent(j)
    <3>1. /\ stage[j] = "sending" /\ current[j] = g /\ targets'[j] = targets[j]
      BY <2>6 DEF QueueEvent, dispatchVars
    <3>2. CASE pending[j] # NoPayload /\ pending[j].to = c
      <4>1. pending[j].e = j
        BY <1>0, <3>2 DEF JobShape
      <4>2. reached'[c] = reached[c] \union {j}
        BY <1>0, <2>0, <2>6, <3>2, <4>1 DEF QueueEvent, Enqueue, DeliveryTyped
      <4> QED BY <4>2 DEF Accounted
    <3> QED BY <1>0, <1>1, <1>2, <3>1, <3>2 DEF Covered
  <2>7. CASE StoreReplayEvent(j)
    BY <1>0, <2>7 DEF StoreReplayEvent, DeliveryTyped
  <2> QED BY <1>0, <2>1, <2>2, <2>3, <2>4, <2>5, <2>6, <2>7, JobOrHandler
          DEF JobMoves, JobStep
<1>3. CASE FindBuffer(c) /\ replaying[c] = g
  <2>1. /\ UNCHANGED dispatchVars /\ reached' = reached /\ closed' = closed
        /\ stage[j] = "sending" /\ current[j] = g
    BY <1>3 DEF FindBuffer, dispatchVars, vars, connVars
  <2>2. CASE c \notin targets[j] /\ j \notin reached[c]
    <3>1. j \in raced'[c]
      BY <1>0, <1>3, <2>1, <2>2 DEF FindBuffer, DeliveryTyped
    <3> QED BY <3>1 DEF Accounted
  <2>3. CASE c \in targets[j] \/ j \in reached[c]
    BY <2>1, <2>3 DEF dispatchVars, Accounted
  <2> QED BY <2>2, <2>3
<1> QED BY <1>0, <1>2, <1>3, FoundFrom

\* A buffer loses nothing that is accounted for, and gains only events of
\* dispatches that cover the connections that found it.
LEMMA FoundKept ==
  ASSUME DeliveryInvariant, [DeliveryNext]_allVars, NEW c \in Conns, NEW g \in Guilds,
         Found(c, g), ~closed'[c], NEW n \in Nat,
         \A m \in DOMAIN replay[g].log :
             replay[g].log[m].Sequence > n => Accounted(c, replay[g].log[m].Event),
         NEW k \in DOMAIN replay'[g].log, NEW x, x = replay'[g].log[k], x.Sequence > n
  PROVE  Accounted(c, x.Event)'
<1>0. TypeOK /\ DeliveryTyped /\ BuffersNumbered /\ HandlerShape(c)
  BY DEF DeliveryInvariant, Invariant, Shapes
<1>2. ASSUME NEW m \in DOMAIN replay[g].log, replay[g].log[m] = x
      PROVE  Accounted(c, x.Event)'
  <2>1. Accounted(c, x.Event)
    BY <1>2
  <2> QED BY <1>0, <2>1, AccountKept
<1>3. CASE UNCHANGED replay
  BY <1>2, <1>3
<1>4. ASSUME NEW j \in Jobs, StoreReplayEvent(j), NEW h \in Guilds, StoresIn(j, h)
      PROVE  Accounted(c, x.Event)'
  <2>1. CASE h # g
    <3>1. replay'[g] = replay[g]
      BY <1>0, <1>4, <2>1, StoredEntries
    <3> QED BY <1>2, <3>1
  <2>2. CASE h = g /\ x.Event = j
    <3>1. /\ stage[j] = "sending" /\ current[j] = g
          /\ targets[j] = {} /\ pending[j] = NoPayload
      BY <1>4, <2>2 DEF StoreReplayEvent, StoresIn
    <3>2. Accounted(c, j)
      BY <3>1 DEF DeliveryInvariant, DispatchesCover, Covered
    <3> QED BY <1>0, <2>2, <3>2, AccountKept
  <2>3. CASE h = g /\ x.Event # j
    <3>1. \E m \in DOMAIN replay[g].log : x = replay[g].log[m]
      BY <1>0, <1>4, <2>3, StoredEntries
    <3> QED BY <1>2, <3>1
  <2> QED BY <2>1, <2>2, <2>3
<1> QED BY <1>0, <1>3, <1>4, BufferSteps, StoreSteps

\* The end of a scan accounts for what the buffer had at its beginning.
LEMMA ScanAccounts ==
  ASSUME DeliveryInvariant, NEW c \in Conns, NEW g \in Guilds, ScanBuffer(c),
         scanning[c] = g, Found(c, g), NEW k \in DOMAIN replay[g].log,
         NEW x, x = replay[g].log[k], x.Sequence > resumeSeq[c]
  PROVE  Accounted(c, x.Event)'
<1> DEFINE L == replay[g].log
<1>0. /\ DeliveryTyped /\ BuffersNumbered /\ HandlerShape(c) /\ ~closed[c]
      /\ FoundUpTo(c, g) /\ g # NoGuild
  BY DEF DeliveryInvariant, Shapes, ScansCover, Found, Live
<1>1. /\ L \in Seq(StoredEvent) /\ Numbered(L, replay[g].last) /\ replay[g].last \in Nat
      /\ resumeSeq[c] \in Nat /\ began[c] \in Nat
  BY <1>0 DEF DeliveryTyped, BuffersNumbered
<1>2. PICK found \in Results(c, g) : backlog' = [backlog EXCEPT ![c] = found]
  BY DEF ScanBuffer
<1>3. /\ backlog'[c] = found /\ reached' = reached
      /\ raced'[c] = raced[c] \union (IF OneLap(c, g) THEN {} ELSE Due(c, g))
  BY <1>0, <1>2 DEF ScanBuffer, DeliveryTyped
<1>4. CASE x.Sequence > began[c] /\ replay[g].last # began[c]
  <2>1. Accounted(c, x.Event)
    BY <1>0, <1>4 DEF FoundUpTo, From
  <2>2. backlog[c] = <<>>
    BY <1>0 DEF HandlerShape
  <2> QED BY <1>3, <2>1, <2>2 DEF Accounted
<1>5. CASE replay[g].last = began[c]
  <2> DEFINE A == Log(g)!After(L, resumeSeq[c])
  <2>1. found = [m \in DOMAIN A |-> A[m].Event]
    BY <1>2, <1>5 DEF Results, Exact, AfterSeq
  <2> HIDE DEF L, A
  <2>2. \E m \in DOMAIN A : A[m] = L[k]
    BY <1>1, AfterIsNewer DEF A, L
  <2>3. \E m \in DOMAIN found : found[m] = x.Event
    BY <2>1, <2>2 DEF L
  <2> QED BY <1>3, <2>3 DEF Accounted
<1>6. CASE ~(x.Sequence > began[c]) /\ replay[g].last # began[c]
  <2>1. x.Sequence \in Nat
    BY <1>0, EventsOfLog
  <2>2. x.Event \in Due(c, g)
    BY <1>1, <1>6, <2>1 DEF Due, AfterSeq
  <2>3. CASE OneLap(c, g)
    <3>1. Due(c, g) \subseteq {found[m] : m \in DOMAIN found}
      <4>1. PICK f : /\ found = Picked(c, f)
                     /\ Due(c, g) \subseteq {Picked(c, f)[m] : m \in DOMAIN f}
        BY <1>2, <1>6, <2>3 DEF Results
      <4>2. DOMAIN found = DOMAIN f
        BY <4>1 DEF Picked
      <4> QED BY <4>1, <4>2
    <3> QED BY <1>3, <2>2, <3>1 DEF Accounted
  <2>4. CASE ~OneLap(c, g)
    BY <1>3, <2>2, <2>4 DEF Accounted
  <2> QED BY <2>3, <2>4
<1> QED BY <1>4, <1>5, <1>6

LEMMA ScansCoverStep ==
  ASSUME DeliveryInvariant, [DeliveryNext]_allVars, NEW c \in Conns, NEW g \in Guilds,
         Found(c, g)'
  PROVE  FoundUpTo(c, g)'
<1>0. /\ Invariant /\ TypeOK /\ DeliveryTyped /\ BuffersNumbered /\ HandlerShape(c)
      /\ ~closed'[c]
  BY DEF DeliveryInvariant, Invariant, Shapes, Found, Live
<1>1. CASE Found(c, g) /\ From(c, g)' = From(c, g)
  <2>1. From(c, g) \in Nat
    BY <1>0 DEF From, DeliveryTyped
  <2>2. FoundUpTo(c, g)
    BY <1>1 DEF DeliveryInvariant, ScansCover
  <2>3. ASSUME NEW k \in DOMAIN replay'[g].log, NEW x, x = replay'[g].log[k],
               x.Sequence > From(c, g)
        PROVE  Accounted(c, x.Event)'
    BY <1>0, <1>1, <2>1, <2>2, <2>3, FoundKept DEF FoundUpTo
  <2> QED BY <1>1, <2>3 DEF FoundUpTo, Accounted
<1>2. CASE Found(c, g) /\ ScanBuffer(c) /\ scanning[c] = g
  <2>1. /\ From(c, g)' = resumeSeq[c] /\ replay' = replay
    BY <1>0, <1>2 DEF ScanBuffer, From, DeliveryTyped
  <2> QED BY <1>2, <2>1, ScanAccounts DEF FoundUpTo, Accounted
<1>3. CASE FindBuffer(c) /\ replaying[c] = g
  <2> DEFINE L == replay[g].log
             last == replay[g].last
  <2>1. /\ L \in Seq(StoredEvent) /\ last \in Nat /\ Numbered(L, last)
        /\ g # NoGuild /\ resumeSeq[c] \in Nat
    BY <1>0 DEF DeliveryTyped, BuffersNumbered
  <2>2. \A k \in DOMAIN L : L[k].Sequence <= last
    <3> HIDE DEF L, last
    <3>1. DOMAIN L = 1 .. Len(L) /\ Len(L) \in Nat
      BY <2>1
    <3> QED BY <2>1, <3>1 DEF Numbered
  <2>3. replay' = replay /\ From(c, g)' >= last /\ From(c, g)' \in Nat
    <3>1. CASE last = 0
      BY <1>0, <1>3, <2>1, <3>1 DEF FindBuffer, From, DeliveryTyped
    <3>2. CASE last # 0
      BY <1>0, <1>3, <2>1, <3>2 DEF FindBuffer, From, DeliveryTyped
    <3> QED BY <3>1, <3>2
  <2>4. \A k \in DOMAIN L : L[k].Sequence \in Nat
    BY <1>0, EventsOfLog
  <2>5. \A k \in DOMAIN L : ~(L[k].Sequence > From(c, g)')
    <3> HIDE DEF L, last
    <3> QED BY <2>1, <2>2, <2>3, <2>4
  <2> QED BY <2>3, <2>5 DEF FoundUpTo
<1> QED BY <1>0, <1>1, <1>2, <1>3, FoundFrom

LEMMA DeliveryInvariantInit == DeliveryInit => DeliveryInvariant
<1> SUFFICES ASSUME DeliveryInit PROVE DeliveryInvariant
  OBVIOUS
<1> USE DEF DeliveryInit
<1>1. Invariant
  BY InvariantInit
<1>2. DeliveryTyped
  <2>1. /\ <<>> \in Seq(StoredEvent) /\ <<>> \in Seq(Queued) /\ <<>> \in Seq(Jobs)
        /\ <<>> \in Seq(Returned)
        /\ Len(<<>>) = 0
    BY EmptySeq
  <2> QED BY <2>1 DEF DeliveryTyped
<1>3. Shapes
  <2>1. BuffersNumbered
    BY DEF BuffersNumbered, Numbered
  <2>2. \A j \in Jobs : JobShape(j)
    BY DEF JobShape, Senders
  <2>3. \A c \in Conns : HandlerShape(c)
    BY DEF HandlerShape
  <2> QED BY <2>1, <2>2, <2>3 DEF Shapes
<1>4. DispatchesCover /\ ScansCover
  BY DEF DispatchesCover, Covered, ScansCover, FoundUpTo
<1> QED BY <1>1, <1>2, <1>3, <1>4 DEF DeliveryInvariant

LEMMA DeliveryInvariantStep ==
  DeliveryInvariant /\ [DeliveryNext]_allVars => DeliveryInvariant'
<1> SUFFICES ASSUME DeliveryInvariant, [DeliveryNext]_allVars PROVE DeliveryInvariant'
  OBVIOUS
<1>1. Invariant'
  <2>1. [Next]_vars
    BY DeliverySteps DEF allVars
  <2> QED BY <2>1, InvariantStep DEF DeliveryInvariant
<1>2. DeliveryTyped'
  BY DeliveryTypedStep DEF DeliveryInvariant, Invariant, Shapes, BuffersNumbered
<1>3. Shapes'
  <2>1. BuffersNumbered'
    BY BuffersStep DEF DeliveryInvariant, Shapes
  <2>2. \A j \in Jobs : JobShape(j)'
    BY JobShapeStep DEF DeliveryInvariant, Shapes
  <2>3. \A c \in Conns : HandlerShape(c)'
    BY HandlerShapeStep DEF DeliveryInvariant, Invariant, Shapes
  <2> QED BY <2>1, <2>2, <2>3 DEF Shapes, Jobs, Online, Offline
<1>4. DispatchesCover'
  BY CoverStep DEF DispatchesCover, Jobs, Online, Offline
<1>5. ScansCover'
  BY ScansCoverStep DEF ScansCover
<1> QED BY <1>1, <1>2, <1>3, <1>4, <1>5 DEF DeliveryInvariant

\* The strengthened invariant holds of every behaviour.
THEOREM DeliveryInvariantCorrect == DeliverySpec => []DeliveryInvariant
  BY DeliveryInvariantInit, DeliveryInvariantStep, PTL DEF DeliverySpec

\* Every variable keeps its type; queues and buffers never exceed their size.
THEOREM DeliveryTypeCorrect == DeliverySpec => []DeliveryTypeOK
<1>1. DeliveryInvariant => DeliveryTypeOK
  BY DEF DeliveryInvariant, Invariant, DeliveryTyped, DeliveryTypeOK
<1> QED BY <1>1, DeliveryInvariantCorrect, PTL

\* What a RESUME handler replays leaves out nothing newer than the client's
\* number that its guild's buffer holds, except events that raced with it:
\* stored after its scan by a dispatch that looked up before its subscription,
\* or hidden when the buffer was filled for the first time during the scan.
THEOREM ReplayCorrect == DeliverySpec => []ReplayMissesOnlyRaced
<1>1. DeliveryInvariant => ReplayMissesOnlyRaced
  BY DEF DeliveryInvariant, ScansCover, ReplayMissesOnlyRaced, Replayed, Found, FoundUpTo,
         From, ReplayedUpTo, Accounted
<1> QED BY <1>1, DeliveryInvariantCorrect, PTL

\* A dispatch sends to every open connection that has subscribed to the guild.
THEOREM LookUpCorrect == DeliverySpec => LookUpFindsLive
<1>1. ASSUME DeliveryInvariant, [DeliveryNext]_allVars
      PROVE  [\A j \in Jobs, c \in Conns :
                 stage[j] = "picking" /\ stage'[j] = "sending" /\ Live(c)
                     /\ current'[j] \in guilds[c] \ todo[c] =>
                         c \in targets'[j]]_allVars
  <2> SUFFICES ASSUME NEW j \in Jobs, NEW c \in Conns,
                      stage[j] = "picking", stage'[j] = "sending", Live(c),
                      current'[j] \in guilds[c] \ todo[c]
               PROVE  c \in targets'[j]
    OBVIOUS
  <2>0. Invariant /\ TypeOK /\ DeliveryTyped
    BY <1>1 DEF DeliveryInvariant, Invariant
  <2>1. JobStep(j)
    BY <1>1, <2>0, JobOrHandler DEF JobMoves, StartDispatch, DispatchToUser
  <2>2. ~QueueEvent(j)
    BY DEF QueueEvent, dispatchVars
  <2>3. PICK g \in Guilds : LookUp(j, g)
    BY <2>1, <2>2 DEF JobStep, SendTo, StoreReplayEvent
  <2>4. current'[j] = g
    BY <2>0, <2>3 DEF LookUp, DeliveryTyped
  <2> QED BY <2>0, <2>3, <2>4, LookUpFinds
<1>2. DeliveryInvariant /\ [DeliveryNext]_allVars => DeliveryInvariant'
  BY DeliveryInvariantStep
<1> QED BY <1>1, <1>2, DeliveryInvariantInit, PTL DEF DeliverySpec, LookUpFindsLive

=============================================================================
