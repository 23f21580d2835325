----------------------------- MODULE RingBuffer -----------------------------
(***************************************************************************)
(* The ring buffer that holds the last events of one guild for RESUME.     *)
(*                                                                         *)
(* storeReplayEvent adds under the write lock of replayMu.  handleResume   *)
(* takes the read lock only to find the buffer and runs `since` without    *)
(* it, so a scan races with the addition under way and with the next ones: *)
(* each load of a scan and each store of an addition is a step of its own. *)
(* Stores are seen in the order in which add makes them, except that the   *)
(* two parts of a slot are written in either order.                        *)
(*                                                                         *)
(* Event n is the n-th event added.                                        *)
(***************************************************************************)
EXTENDS Integers, Sequences, FiniteSets

CONSTANTS
    Size,       \* replayBufferSize
    Readers,    \* goroutines running since
    Asked,      \* values of afterSeq
    MaxSeq      \* bound: additions in a behaviour

ASSUME SizeAssumption == Size \in Nat \ {0}
ASSUME BoundAssumption == MaxSeq \in Nat
ASSUME AskedAssumption == Asked \subseteq Nat

VARIABLES
    events,     \* events[k]: slot k, a number and the event that is there
    pos,        \* the slot the next event goes to
    seq,        \* the number of the newest event
    full,       \* whether every slot has been written
    \* the addition under way
    writer,     \* the store that add makes next
    left,       \* the parts of the slot not yet written
    \* locals of since
    at,         \* at[r]: the load that r makes next
    afterSeq,   \* afterSeq[r]: its argument
    count,      \* count[r]: how many slots it visits
    start,      \* start[r]: the slot it visits first
    i,          \* i[r]: how many it has visited
    result,     \* result[r]: what it has collected
    \* history
    began,      \* began[r]: the newest event entered when r began
    raced       \* readers that an addition has overlapped

ring == <<events, pos, seq, full>>
adding == <<writer, left>>
locals == <<at, afterSeq, count, start, i, result>>
vars == <<ring, adding, locals, began, raced>>

Slots == 0 .. Size - 1
Numbers == 0 .. MaxSeq
Parts == {"Sequence", "Event"}
Slot == [Sequence : Numbers, Event : Numbers]
Loads == {"idle", "full", "pos", "startFull", "startPos", "sequence", "event",
          "done"}

\* In a result: words of two events, read while one replaced the other.
Torn == 0

TypeOK ==
    /\ events \in [Slots -> Slot]
    /\ pos \in Slots
    /\ seq \in Numbers
    /\ full \in BOOLEAN
    /\ writer \in {"idle", "slot", "pos", "full"}
    /\ left \in SUBSET Parts
    /\ at \in [Readers -> Loads]
    /\ afterSeq \in [Readers -> Nat]
    /\ count \in [Readers -> 0 .. Size]
    /\ start \in [Readers -> Slots]
    /\ i \in [Readers -> 0 .. Size]
    /\ result \in [Readers -> Seq(Numbers)]
    /\ began \in [Readers -> Numbers]
    /\ raced \in SUBSET Readers

Init ==
    /\ events = [k \in Slots |-> [Sequence |-> 0, Event |-> 0]]
    /\ pos = 0
    /\ seq = 0
    /\ full = FALSE
    /\ writer = "idle"
    /\ left = {}
    /\ at = [r \in Readers |-> "idle"]
    /\ afterSeq = [r \in Readers |-> 0]
    /\ count = [r \in Readers |-> 0]
    /\ start = [r \in Readers |-> 0]
    /\ i = [r \in Readers |-> 0]
    /\ result = [r \in Readers |-> <<>>]
    /\ began = [r \in Readers |-> 0]
    /\ raced = {}

-----------------------------------------------------------------------------
\* ringBuffer.add, under the write lock: one addition at a time.
NumberBefore(part) == IF part = "Sequence" THEN seq - 1 ELSE seq
Stored(part) == seq
NoWrap(p) == p + 1
NextPos(p) == (p + 1) % Size
FullOneEarly(p) == p = Size - 1
FullAt(p) == p = 0

\* rb.seq++
BeginAdd ==
    /\ writer = "idle"
    /\ seq < MaxSeq
    /\ seq' = seq + 1
    /\ writer' = "slot"
    /\ left' = Parts
    /\ raced' = raced \union {r \in Readers : at[r] # "idle" /\ at[r] # "done"}
    /\ UNCHANGED <<events, pos, full, locals, began>>

\* rb.events[rb.pos] = sequencedEvent{...}
StorePart(part) ==
    /\ writer = "slot"
    /\ part \in left
    /\ events' = [events EXCEPT ![pos][part] = Stored(part)]
    /\ left' = left \ {part}
    /\ writer' = IF left' = {} THEN "pos" ELSE "slot"
    /\ UNCHANGED <<pos, seq, full, locals, began, raced>>

\* rb.pos = (rb.pos + 1) % rb.size
StorePos ==
    /\ writer = "pos"
    /\ pos' = NextPos(pos)
    /\ writer' = "full"
    /\ UNCHANGED <<events, seq, full, left, locals, began, raced>>

\* if rb.pos == 0 { rb.full = true }
StoreFull ==
    /\ writer = "full"
    /\ full' = (full \/ FullAt(pos))
    /\ writer' = "idle"
    /\ UNCHANGED <<events, pos, seq, left, locals, began, raced>>

Add ==
    \/ BeginAdd
    \/ \E part \in Parts : StorePart(part)
    \/ StorePos
    \/ StoreFull

-----------------------------------------------------------------------------
\* ringBuffer.since, one load at a time.
Begin(r, n) ==
    /\ at[r] = "idle"
    /\ at' = [at EXCEPT ![r] = "full"]
    /\ afterSeq' = [afterSeq EXCEPT ![r] = n]
    /\ began' = [began EXCEPT ![r] = IF writer = "idle" THEN seq ELSE seq - 1]
    /\ raced' = IF writer = "idle" THEN raced ELSE raced \union {r}
    /\ UNCHANGED <<ring, adding, count, start, i, result>>

\* count := rb.size; if !rb.full ...
LoadFull(r) ==
    /\ at[r] = "full"
    /\ count' = [count EXCEPT ![r] = Size]
    /\ at' = [at EXCEPT ![r] = IF full THEN "startFull" ELSE "pos"]
    /\ UNCHANGED <<ring, adding, afterSeq, start, i, result, began, raced>>

\* ... count = rb.pos
LoadPos(r) ==
    /\ at[r] = "pos"
    /\ count' = [count EXCEPT ![r] = pos]
    /\ at' = [at EXCEPT ![r] = "startFull"]
    /\ UNCHANGED <<ring, adding, afterSeq, start, i, result, began, raced>>

\* start := 0; if rb.full ..., loaded again or kept from the first test.
LoadStartFull(r) ==
    /\ at[r] = "startFull"
    /\ \E isFull \in {full, count[r] = Size} :
          at' = [at EXCEPT ![r] = IF isFull THEN "startPos" ELSE "sequence"]
    /\ UNCHANGED <<ring, adding, afterSeq, count, start, i, result, began, raced>>

\* ... start = rb.pos
LoadStartPos(r) ==
    /\ at[r] = "startPos"
    /\ start' = [start EXCEPT ![r] = pos]
    /\ at' = [at EXCEPT ![r] = "sequence"]
    /\ UNCHANGED <<ring, adding, afterSeq, count, i, result, began, raced>>

FirstAgain(r) == start[r] % Size
SkipsPast(r) == (start[r] + i[r] + 1) % Size
Visited(r) == (start[r] + i[r]) % Size

\* if rb.events[idx].Sequence > afterSeq ...
AtLeast(n, m) == n >= m
Newer(n, m) == n > m

LoadSequence(r) ==
    /\ at[r] = "sequence"
    /\ i[r] < count[r]
    /\ IF Newer(events[Visited(r)].Sequence, afterSeq[r])
       THEN /\ at' = [at EXCEPT ![r] = "event"]
            /\ UNCHANGED i
       ELSE /\ i' = [i EXCEPT ![r] = @ + 1]
            /\ UNCHANGED at
    /\ UNCHANGED <<ring, adding, afterSeq, count, start, result, began, raced>>

\* ... result = append(result, rb.events[idx].Event)
Overwriting(k) == writer = "slot" /\ k = pos /\ "Event" \in left

LoadEvent(r) ==
    /\ at[r] = "event"
    /\ \E e \in {events[Visited(r)].Event}
                  \union (IF Overwriting(Visited(r)) THEN {Torn} ELSE {}) :
          result' = [result EXCEPT ![r] = Append(@, e)]
    /\ i' = [i EXCEPT ![r] = @ + 1]
    /\ at' = [at EXCEPT ![r] = "sequence"]
    /\ UNCHANGED <<ring, adding, afterSeq, count, start, began, raced>>

Finish(r) ==
    /\ at[r] = "sequence"
    /\ i[r] = count[r]
    /\ at' = [at EXCEPT ![r] = "done"]
    /\ UNCHANGED <<ring, adding, afterSeq, count, start, i, result, began, raced>>

Read(r) ==
    \/ \E n \in Asked : Begin(r, n)
    \/ LoadFull(r) \/ LoadPos(r) \/ LoadStartFull(r) \/ LoadStartPos(r)
    \/ LoadSequence(r) \/ LoadEvent(r) \/ Finish(r)

Next == Add \/ \E r \in Readers : Read(r)

Spec == Init /\ [][Next]_vars

-----------------------------------------------------------------------------
\* The buffer as the addition under way will leave it.
SettledEvents ==
    IF writer = "slot"
    THEN [events EXCEPT ![pos] = [Sequence |-> seq, Event |-> seq]]
    ELSE events
SettledPos == IF writer \in {"slot", "pos"} THEN NextPos(pos) ELSE pos
SettledFull == full \/ (writer # "idle" /\ SettledPos = 0)

\* The contents of a buffer in the order in which since visits its slots.
ContentsOf(slots, p, isFull) ==
    [k \in 1 .. (IF isFull THEN Size ELSE p) |->
        slots[((IF isFull THEN p ELSE 0) + k - 1) % Size]]

Contents == ContentsOf(SettledEvents, SettledPos, SettledFull)

Log == INSTANCE ReplayLog WITH Capacity <- Size, Events <- Numbers,
                               log <- Contents, last <- seq

\* The ring holds the last Size events in the order they were added: every
\* addition that overwrites a slot drops the oldest event and no other.
ImplementsLog == Log!Spec

\* Before the buffer is full slot k holds event k + 1; afterwards the slots
\* from p on hold the older lap and those before p the newer one.
InOrder(slots, p, isFull, n) ==
    /\ ~isFull => n = p
    /\ \A k \in Slots :
          slots[k].Sequence = IF k < p THEN n - p + k + 1
                              ELSE IF isFull THEN n - p - Size + k + 1
                              ELSE 0

\* Between additions, and once the one under way is over, the slots are
\* numbered in the order in which since walks them.
SlotsInOrder == InOrder(SettledEvents, SettledPos, SettledFull, seq)

\* A scan that no addition overlaps returns exactly the events the client is
\* missing, oldest first.
UnracedScanIsExact ==
    \A r \in Readers :
        at[r] = "done" /\ r \notin raced /\ seq = began[r] /\ writer = "idle" =>
            LET missed == Log!After(Contents, afterSeq[r])
            IN  result[r] = [k \in DOMAIN missed |-> missed[k].Event]

\* The events the buffer holds.
Held == {Contents[k].Sequence : k \in DOMAIN Contents}

\* Every event that is in the buffer from the first load of r's scan to the
\* last, and that the client is missing, is in its result.
Complete(r) ==
    \A n \in Held : afterSeq[r] < n /\ n <= began[r] =>
        \E k \in DOMAIN result[r] : result[r][k] = n

\* Whatever a scan races with, it returns events that were in the buffer since
\* it began: none twice, those that were there from the start in their order,
\* and for each addition one event that is new or torn at the most.
RacedScanIsBounded ==
    \A r \in Readers : at[r] = "done" =>
        LET found == result[r]
            Old == began[r] - Size + 1 .. began[r]
            IsOld(k) == found[k] \in Old /\ found[k] # Torn
        IN  /\ \A k \in DOMAIN found :
                   found[k] = Torn \/ found[k] \in Old \union began[r] + 1 .. seq
            /\ \A k, m \in DOMAIN found :
                   /\ k # m => found[k] # found[m] \/ found[k] = Torn
                   /\ k < m /\ IsOld(k) /\ IsOld(m) => found[k] < found[m]
            /\ Cardinality({k \in DOMAIN found : ~IsOld(k)}) <= seq - began[r]

\* A scan of a buffer that has been full from the start, or is not full at the
\* end, misses nothing, however many additions it races with.
ScanOfOneLapIsComplete ==
    \A r \in Readers : at[r] = "done" /\ (began[r] >= Size \/ seq < Size) =>
        Complete(r)

-----------------------------------------------------------------------------
\* manager.go: "since returns all events with sequence > afterSeq".  It does
\* not: the addition that first fills the buffer can come between two loads
\* and hide everything in it.
ScanIsComplete == \A r \in Readers : at[r] = "done" => Complete(r)

=============================================================================
