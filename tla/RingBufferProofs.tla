-------------------------- MODULE RingBufferProofs --------------------------
(***************************************************************************)
(* The ring buffer of any size keeps its slots in order and implements the *)
(* bounded log, whatever the scans that race with it read.                 *)
(*                                                                         *)
(* The argument looks at the buffer as the addition under way will leave   *)
(* it: the first store of add changes that all at once, the other stores   *)
(* and the scans do not change it.                                         *)
(***************************************************************************)
EXTENDS RingBuffer, SequenceTheorems, TLAPS

USE SizeAssumption, BoundAssumption, AskedAssumption

\* The types of the buffer's own fields, which no scan writes.
RingTyped ==
    /\ events \in [Slots -> Slot]
    /\ pos \in Slots
    /\ seq \in Numbers
    /\ full \in BOOLEAN
    /\ writer \in {"idle", "slot", "pos", "full"}
    /\ left \in SUBSET Parts

\* The parts of the slot that have been stored are those of the new event.
AddingShape ==
    writer = "slot" =>
        /\ left # {}
        /\ \A part \in Parts \ left : events[pos][part] = seq

RingInvariant == RingTyped /\ AddingShape /\ SlotsInOrder

\* The entry of the n-th event.
NthEntry(n) == [Sequence |-> n, Event |-> n]

\* What the first store of add does to the buffer as add will leave it.
SettledAdd ==
    /\ SettledEvents' = [SettledEvents EXCEPT ![SettledPos] = NthEntry(seq + 1)]
    /\ SettledPos' = NextPos(SettledPos)
    /\ SettledFull' = (SettledFull \/ NextPos(SettledPos) = 0)
    /\ seq' = seq + 1
    /\ seq + 1 \in Numbers

\* Arithmetic modulo the size, for one step past a slot.
LEMMA Wrap ==
  ASSUME NEW p \in Slots
  PROVE  (p + 1) % Size = IF p = Size - 1 THEN 0 ELSE p + 1
  BY DEF Slots

\* ... and for any number of steps up to one lap.
LEMMA WrapLap ==
  ASSUME NEW p \in Slots, NEW k \in 0 .. Size - 1
  PROVE  (p + k) % Size = IF p + k < Size THEN p + k ELSE p + k - Size
  BY DEF Slots

\* A position moves within the buffer.
LEMMA NextPosType ==
  ASSUME NEW p \in Slots
  PROVE  NextPos(p) \in Slots /\ NextPos(p) = IF p = Size - 1 THEN 0 ELSE p + 1
  BY Wrap DEF NextPos, Slots

\* The buffer that the addition will leave has the type of a buffer.
LEMMA SettledType ==
  ASSUME RingTyped
  PROVE  /\ SettledEvents \in [Slots -> Slot]
         /\ SettledPos \in Slots
         /\ SettledFull \in BOOLEAN
<1>1. [Sequence |-> seq, Event |-> seq] \in Slot
  BY DEF RingTyped, Slot
<1> QED BY <1>1, NextPosType DEF RingTyped, SettledEvents, SettledPos, SettledFull

-----------------------------------------------------------------------------
LEMMA RingInit == Init => RingInvariant
<1> SUFFICES ASSUME Init PROVE RingInvariant
  OBVIOUS
<1> USE DEF Init
<1>1. [k \in Slots |-> [Sequence |-> 0, Event |-> 0]] \in [Slots -> Slot]
  BY DEF Slot, Numbers
<1>2. RingTyped
  <2>1. pos \in Slots /\ seq \in Numbers
    BY DEF Slots, Numbers
  <2> QED BY <1>1, <2>1 DEF RingTyped
<1>3. SlotsInOrder
  BY DEF SlotsInOrder, InOrder, SettledEvents, SettledPos, SettledFull, Slots
<1> QED BY <1>2, <1>3 DEF RingInvariant, AddingShape

\* Types, and what has been stored of the event being added.
LEMMA TypedStep ==
  ASSUME RingTyped, AddingShape, [Next]_vars
  PROVE  RingTyped' /\ AddingShape'
<1> USE DEF RingTyped, AddingShape
<1>1. CASE BeginAdd
  <2>1. seq' \in Numbers
    BY <1>1 DEF BeginAdd, Numbers
  <2> QED BY <1>1, <2>1 DEF BeginAdd, Parts
<1>2. ASSUME NEW part \in Parts, StorePart(part) PROVE RingTyped' /\ AddingShape'
  <2>1. events' = [events EXCEPT ![pos][part] = seq]
    BY <1>2 DEF StorePart, Stored
  <2>2. [events[pos] EXCEPT ![part] = seq] \in Slot
    BY DEF Slot, Parts
  <2>3. events' \in [Slots -> Slot]
    BY <2>1, <2>2
  <2>4. \A q \in Parts : events'[pos][q] = IF q = part THEN seq ELSE events[pos][q]
    BY <2>1 DEF Slot, Parts
  <2>5. UNCHANGED <<pos, seq, full>> /\ left' = left \ {part}
    BY <1>2 DEF StorePart
  <2>6. writer = "slot" /\ writer' = IF left' = {} THEN "pos" ELSE "slot"
    BY <1>2 DEF StorePart
  <2>7. RingTyped'
    BY <2>3, <2>5, <2>6
  <2>8. AddingShape'
    BY <2>4, <2>5, <2>6
  <2> QED BY <2>7, <2>8
<1>3. CASE StorePos
  BY <1>3, NextPosType DEF StorePos
<1>4. CASE StoreFull
  BY <1>4 DEF StoreFull, FullAt
<1>5. ASSUME UNCHANGED <<ring, adding>> PROVE RingTyped' /\ AddingShape'
  BY <1>5 DEF ring, adding
<1>6. ASSUME NEW r \in Readers, Read(r) PROVE UNCHANGED <<ring, adding>>
  BY <1>6 DEF Read, Begin, LoadFull, LoadPos, LoadStartFull, LoadStartPos,
              LoadSequence, LoadEvent, Finish
<1> QED BY <1>1, <1>2, <1>3, <1>4, <1>5, <1>6 DEF Next, Add, vars

\* Seen as it will be left, the buffer changes with the first store alone.
LEMMA SettledStep ==
  ASSUME RingTyped, AddingShape, [Next]_vars
  PROVE  \/ SettledAdd
         \/ UNCHANGED <<SettledEvents, SettledPos, SettledFull, seq>>
<1> USE DEF SettledEvents, SettledPos, SettledFull
<1>1. CASE BeginAdd
  <2>1. seq + 1 \in Numbers
    BY <1>1 DEF BeginAdd, Numbers, RingTyped
  <2>2. /\ writer = "idle" /\ writer' = "slot"
        /\ UNCHANGED <<events, pos, full>> /\ seq' = seq + 1
    BY <1>1 DEF BeginAdd
  <2>3. NextPos(pos)' = NextPos(pos)
    BY <2>2 DEF NextPos
  <2> QED BY <2>1, <2>2, <2>3 DEF SettledAdd, NthEntry
<1>2. ASSUME NEW part \in Parts, StorePart(part)
      PROVE  UNCHANGED <<SettledEvents, SettledPos, SettledFull, seq>>
  <2>1. events' = [events EXCEPT ![pos][part] = seq]
    BY <1>2 DEF StorePart, Stored
  <2>2. /\ UNCHANGED <<pos, seq, full>> /\ writer = "slot" /\ part \in left
        /\ left' = left \ {part} /\ writer' = IF left' = {} THEN "pos" ELSE "slot"
    BY <1>2 DEF StorePart
  <2>3. UNCHANGED <<SettledPos, SettledFull, seq>>
    BY <2>2 DEF NextPos
  <2>4. events \in [Slots -> Slot] /\ pos \in Slots /\ seq \in Numbers
    BY DEF RingTyped
  <2>5. events'[pos] = [events[pos] EXCEPT ![part] = seq]
    BY <2>1, <2>4
  <2>6. \A k \in Slots : k # pos => events'[k] = events[k]
    BY <2>1, <2>4
  <2>7. events' \in [Slots -> Slot]
    BY <1>2, TypedStep DEF RingTyped
  <2>8. CASE left' = {}
    <3>1. events'[pos].Sequence = seq /\ events'[pos].Event = seq
      BY <2>2, <2>4, <2>5, <2>8 DEF AddingShape, Parts, Slot
    <3>2. events'[pos] = [Sequence |-> seq, Event |-> seq]
      BY <2>4, <2>7, <3>1 DEF Slot
    <3>3. events' = [events EXCEPT ![pos] = [Sequence |-> seq, Event |-> seq]]
      BY <2>4, <2>6, <2>7, <3>2
    <3> QED BY <2>2, <2>3, <2>8, <3>3
  <2>9. CASE left' # {}
    <3>1. [events' EXCEPT ![pos] = [Sequence |-> seq, Event |-> seq]]
             = [events EXCEPT ![pos] = [Sequence |-> seq, Event |-> seq]]
      BY <2>4, <2>6, <2>7
    <3> QED BY <2>2, <2>3, <2>9, <3>1
  <2> QED BY <2>8, <2>9
<1>3. CASE StorePos
  BY <1>3 DEF StorePos
<1>4. CASE StoreFull
  BY <1>4 DEF StoreFull, FullAt, RingTyped
<1>5. ASSUME UNCHANGED <<ring, adding>>
      PROVE  UNCHANGED <<SettledEvents, SettledPos, SettledFull, seq>>
  BY <1>5 DEF ring, adding, NextPos
<1>6. ASSUME NEW r \in Readers, Read(r) PROVE UNCHANGED <<ring, adding>>
  BY <1>6 DEF Read, Begin, LoadFull, LoadPos, LoadStartFull, LoadStartPos,
              LoadSequence, LoadEvent, Finish
<1> QED BY <1>1, <1>2, <1>3, <1>4, <1>5, <1>6 DEF Next, Add, vars

\* An addition keeps the slots in order, whether it fills a slot, overwrites
\* the oldest one or comes back to the first.
LEMMA InOrderStep ==
  ASSUME NEW slots \in [Slots -> Slot], NEW p \in Slots, NEW f \in BOOLEAN,
         NEW n \in Nat, InOrder(slots, p, f, n)
  PROVE  InOrder([slots EXCEPT ![p] = NthEntry(n + 1)], NextPos(p),
                 f \/ NextPos(p) = 0, n + 1)
<1> DEFINE new == [slots EXCEPT ![p] = NthEntry(n + 1)]
           q == NextPos(p)
           g == f \/ q = 0
<1>1. q \in Slots /\ q = IF p = Size - 1 THEN 0 ELSE p + 1
  BY NextPosType
<1>2. /\ ~f => n = p
      /\ \A k \in Slots :
            slots[k].Sequence = IF k < p THEN n - p + k + 1
                                ELSE IF f THEN n - p - Size + k + 1
                                ELSE 0
  BY DEF InOrder
<1>3. \A k \in Slots : new[k].Sequence = IF k = p THEN n + 1 ELSE slots[k].Sequence
  BY DEF NthEntry
<1>4. p \in 0 .. Size - 1
  BY DEF Slots
<1> HIDE DEF new, q
<1>5. ~g => n + 1 = q
  BY <1>1, <1>2, <1>4
<1>6. ASSUME NEW k \in Slots
      PROVE  new[k].Sequence = IF k < q THEN (n + 1) - q + k + 1
                               ELSE IF g THEN (n + 1) - q - Size + k + 1
                               ELSE 0
  <2>1. k \in 0 .. Size - 1
    BY DEF Slots
  <2>2. new[k].Sequence = IF k = p THEN n + 1
                          ELSE IF k < p THEN n - p + k + 1
                          ELSE IF f THEN n - p - Size + k + 1
                          ELSE 0
    BY <1>2, <1>3
  <2>3. CASE p = Size - 1
    <3>1. q = 0 /\ g
      BY <1>1, <2>3
    <3> QED BY <1>4, <2>1, <2>2, <2>3, <3>1
  <2>4. CASE p # Size - 1
    <3>1. q = p + 1 /\ g = f
      BY <1>1, <1>4, <2>4
    <3> QED BY <1>2, <1>4, <2>1, <2>2, <2>4, <3>1
  <2> QED BY <2>3, <2>4
<1> QED BY <1>5, <1>6 DEF InOrder, new, q

LEMMA RingStep == RingInvariant /\ [Next]_vars => RingInvariant'
<1> SUFFICES ASSUME RingInvariant, [Next]_vars PROVE RingInvariant'
  OBVIOUS
<1>1. RingTyped' /\ AddingShape'
  BY TypedStep DEF RingInvariant
<1>2. CASE SettledAdd
  <2>1. seq \in Nat
    BY DEF RingInvariant, RingTyped, Numbers
  <2>2. InOrder([SettledEvents EXCEPT ![SettledPos] = NthEntry(seq + 1)],
                NextPos(SettledPos), SettledFull \/ NextPos(SettledPos) = 0,
                seq + 1)
    BY <2>1, InOrderStep, SettledType DEF RingInvariant, SlotsInOrder
  <2> QED BY <1>1, <1>2, <2>2 DEF SettledAdd, RingInvariant, SlotsInOrder
<1>3. CASE UNCHANGED <<SettledEvents, SettledPos, SettledFull, seq>>
  BY <1>1, <1>3 DEF RingInvariant, SlotsInOrder, InOrder
<1> QED BY <1>2, <1>3, SettledStep DEF RingInvariant

\* The slots are in order at every size and after any number of additions.
THEOREM SlotsInOrderCorrect == Spec => []SlotsInOrder
<1>1. RingInvariant => SlotsInOrder BY DEF RingInvariant
<1> QED BY <1>1, RingInit, RingStep, PTL DEF Spec

-----------------------------------------------------------------------------
\* What the contents are, slot by slot and without the modulus.
LEMMA ContentsShape ==
  ASSUME NEW slots \in [Slots -> Slot], NEW p \in Slots, NEW f \in BOOLEAN
  PROVE  /\ ContentsOf(slots, p, f) \in Seq(Slot)
         /\ Len(ContentsOf(slots, p, f)) = IF f THEN Size ELSE p
         /\ \A k \in 1 .. (IF f THEN Size ELSE p) :
               ContentsOf(slots, p, f)[k] =
                   slots[IF f THEN IF p + k - 1 < Size THEN p + k - 1
                                   ELSE p + k - 1 - Size
                         ELSE k - 1]
<1> DEFINE n == IF f THEN Size ELSE p
           first == IF f THEN p ELSE 0
           C == ContentsOf(slots, p, f)
<1>1. n \in 0 .. Size /\ first \in Slots
  BY DEF Slots
<1>2. C = [k \in 1 .. n |-> slots[(first + k - 1) % Size]]
  BY DEF ContentsOf
<1>3. ASSUME NEW k \in 1 .. n
      PROVE  /\ (first + k - 1) % Size \in Slots
             /\ (first + k - 1) % Size = IF first + k - 1 < Size THEN first + k - 1
                                         ELSE first + k - 1 - Size
  <2>1. k - 1 \in 0 .. Size - 1
    BY <1>1
  <2>2. (first + (k - 1)) % Size = IF first + (k - 1) < Size THEN first + (k - 1)
                                   ELSE first + (k - 1) - Size
    BY <1>1, <2>1, WrapLap
  <2>3. first + (k - 1) = first + k - 1
    BY <1>1 DEF Slots
  <2> QED BY <1>1, <2>1, <2>2, <2>3 DEF Slots
<1> HIDE DEF n, first, C
<1>4. C \in [1 .. n -> Slot]
  BY <1>2, <1>3
<1>5. C \in Seq(Slot) /\ Len(C) = n
  BY <1>1, <1>4, SeqDef
<1>6. ASSUME NEW k \in 1 .. n
      PROVE  C[k] = slots[IF f THEN IF p + k - 1 < Size THEN p + k - 1
                                    ELSE p + k - 1 - Size
                          ELSE k - 1]
  <2>1. C[k] = slots[IF first + k - 1 < Size THEN first + k - 1
                     ELSE first + k - 1 - Size]
    BY <1>2, <1>3
  <2>2. CASE f
    BY <2>1, <2>2 DEF first
  <2>3. CASE ~f
    <3>1. first = 0 /\ k - 1 < Size
      BY <1>1, <2>3 DEF first, n, Slots
    <3> QED BY <2>1, <2>3, <3>1
  <2> QED BY <2>2, <2>3
<1> QED BY <1>5, <1>6 DEF n, C

\* An addition stores its event in the log: appended while there is room, in
\* place of the oldest one afterwards.
LEMMA AddStores ==
  ASSUME NEW slots \in [Slots -> Slot], NEW p \in Slots, NEW f \in BOOLEAN,
         NEW x \in Slot
  PROVE  ContentsOf([slots EXCEPT ![p] = x], NextPos(p), f \/ NextPos(p) = 0)
             = Log!Stored(ContentsOf(slots, p, f), x)
<1> DEFINE new == [slots EXCEPT ![p] = x]
           q == NextPos(p)
           g == f \/ q = 0
           C == ContentsOf(slots, p, f)
           D == ContentsOf(new, q, g)
           nC == IF f THEN Size ELSE p
           nD == IF g THEN Size ELSE q
<1>1. q \in Slots /\ q = IF p = Size - 1 THEN 0 ELSE p + 1
  BY NextPosType
<1>2. /\ C \in Seq(Slot) /\ Len(C) = nC
      /\ \A k \in 1 .. nC :
            C[k] = slots[IF f THEN IF p + k - 1 < Size THEN p + k - 1
                                   ELSE p + k - 1 - Size
                         ELSE k - 1]
  BY ContentsShape
<1>3. new \in [Slots -> Slot] /\ g \in BOOLEAN
  OBVIOUS
<1>4. /\ D \in Seq(Slot) /\ Len(D) = nD
      /\ \A k \in 1 .. nD :
            D[k] = new[IF g THEN IF q + k - 1 < Size THEN q + k - 1
                                 ELSE q + k - 1 - Size
                       ELSE k - 1]
  <2> HIDE DEF new, g, q
  <2>1. /\ ContentsOf(new, q, g) \in Seq(Slot)
        /\ Len(ContentsOf(new, q, g)) = IF g THEN Size ELSE q
        /\ \A k \in 1 .. (IF g THEN Size ELSE q) :
              ContentsOf(new, q, g)[k] =
                  new[IF g THEN IF q + k - 1 < Size THEN q + k - 1
                                ELSE q + k - 1 - Size
                      ELSE k - 1]
    <3>1. new \in [Slots -> Slot] /\ q \in Slots /\ g \in BOOLEAN
      BY <1>1, <1>3
    <3> QED BY <3>1, ContentsShape
  <2> QED BY <2>1
<1>5. g = (f \/ p = Size - 1)
  BY <1>1 DEF Slots
<1>6. \A j \in Slots : new[j] = IF j = p THEN x ELSE slots[j]
  OBVIOUS
<1>7. p \in 0 .. Size - 1 /\ nC \in 0 .. Size
  BY DEF Slots
<1> SUFFICES D = Log!Stored(C, x)
  OBVIOUS
<1> HIDE DEF new, q, g, C, D
<1>8. CASE f
  <2>1. nC = Size /\ nD = Size /\ g
    BY <1>5, <1>8
  <2>2. C # <<>>
    BY <1>2, <2>1, EmptySeq
  <2>3. /\ Tail(C) \in Seq(Slot) /\ Len(Tail(C)) = Size - 1
        /\ \A k \in 1 .. Size - 1 : Tail(C)[k] = C[k + 1]
    BY <1>2, <2>1, <2>2, HeadTailProperties
  <2>4. /\ Append(Tail(C), x) \in Seq(Slot)
        /\ Len(Append(Tail(C), x)) = Size
        /\ \A k \in 1 .. Size - 1 : Append(Tail(C), x)[k] = C[k + 1]
        /\ Append(Tail(C), x)[Size] = x
    <3>1. /\ Append(Tail(C), x) \in Seq(Slot)
          /\ Len(Append(Tail(C), x)) = Len(Tail(C)) + 1
          /\ \A k \in 1 .. Len(Tail(C)) : Append(Tail(C), x)[k] = Tail(C)[k]
          /\ Append(Tail(C), x)[Len(Tail(C)) + 1] = x
      BY <2>3, AppendProperties
    <3> QED BY <2>3, <3>1
  <2>5. ASSUME NEW k \in 1 .. Size PROVE D[k] = Append(Tail(C), x)[k]
    <3>1. D[k] = new[IF q + k - 1 < Size THEN q + k - 1 ELSE q + k - 1 - Size]
      BY <1>4, <2>1
    <3>2. CASE k = Size
      <4>1. D[k] = new[p]
        BY <3>1, <3>2, <1>1, <1>7
      <4> QED BY <4>1, <3>2, <2>4, <1>6
    <3>3. CASE k # Size
      <4>1. k + 1 \in 1 .. Size
        BY <3>3
      <4>2. C[k + 1] = slots[IF p + k < Size THEN p + k ELSE p + k - Size]
        BY <4>1, <1>2, <1>8, <2>1, <1>7
      <4> DEFINE j == IF p + k < Size THEN p + k ELSE p + k - Size
      <4>3. j \in Slots /\ j # p
        BY <1>7, <3>3 DEF Slots
      <4>4. D[k] = new[j]
        BY <3>1, <1>1, <1>7, <3>3
      <4> QED BY <4>1, <4>2, <4>3, <4>4, <1>6, <2>4
    <3> QED BY <3>2, <3>3
  <2>6. D = Append(Tail(C), x)
    BY <1>4, <2>1, <2>4, <2>5, SeqEqual
  <2>7. ~(Len(C) < Size)
    BY <1>2, <2>1
  <2> QED BY <2>6, <2>7 DEF Log!Stored
<1>9. CASE ~f
  <2>1. nC = p /\ nD = p + 1
    <3>1. CASE p = Size - 1
      <4>1. g
        BY <1>5, <3>1
      <4> QED BY <4>1, <3>1, <1>7, <1>9
    <3>2. CASE p # Size - 1
      <4>1. ~g
        BY <1>5, <1>9, <3>2
      <4> QED BY <4>1, <3>2, <1>1, <1>9
    <3> QED BY <3>1, <3>2
  <2>2. /\ Append(C, x) \in Seq(Slot)
        /\ Len(Append(C, x)) = p + 1
        /\ \A k \in 1 .. p : Append(C, x)[k] = C[k]
        /\ Append(C, x)[p + 1] = x
    <3>1. /\ Append(C, x) \in Seq(Slot)
          /\ Len(Append(C, x)) = Len(C) + 1
          /\ \A k \in 1 .. Len(C) : Append(C, x)[k] = C[k]
          /\ Append(C, x)[Len(C) + 1] = x
      BY <1>2, AppendProperties
    <3> QED BY <1>2, <2>1, <3>1
  <2>3. ASSUME NEW k \in 1 .. p + 1 PROVE D[k] = Append(C, x)[k]
    <3>1. D[k] = new[k - 1]
      BY <1>1, <1>4, <1>5, <1>7, <1>9, <2>1
    <3>2. k - 1 \in Slots
      BY <1>7 DEF Slots
    <3>3. CASE k = p + 1
      <4>1. k - 1 = p
        BY <1>7, <3>3
      <4> QED BY <4>1, <3>1, <3>3, <2>2, <1>6
    <3>4. CASE k # p + 1
      <4>1. k \in 1 .. p /\ k - 1 # p
        BY <1>7, <3>4
      <4>2. C[k] = slots[k - 1]
        BY <4>1, <1>2, <1>9, <2>1
      <4> QED BY <4>1, <4>2, <3>1, <3>2, <2>2, <1>6
    <3> QED BY <3>3, <3>4
  <2>4. D = Append(C, x)
    BY <1>4, <2>1, <2>2, <2>3, SeqEqual
  <2>5. Len(C) < Size
    BY <1>2, <1>7, <2>1
  <2> QED BY <2>4, <2>5 DEF Log!Stored
<1> QED BY <1>8, <1>9

\* The ring buffer implements the log of the last Size events: whatever scans
\* race with it, each addition stores its event and drops at most the oldest.
THEOREM RingImplementsLog == Spec => ImplementsLog
<1>1. Init => Log!Init
  BY EmptySeq DEF Init, Log!Init, Contents, ContentsOf, SettledEvents,
                  SettledPos, SettledFull
<1>2. RingInvariant /\ [Next]_vars => [Log!Next]_<<Contents, seq>>
  <2> SUFFICES ASSUME RingInvariant, [Next]_vars
               PROVE  Log!Next \/ UNCHANGED <<Contents, seq>>
    OBVIOUS
  <2>1. CASE SettledAdd
    <3>1. seq + 1 \in Numbers /\ NthEntry(seq + 1) \in Slot
      BY <2>1 DEF SettledAdd, NthEntry, Slot
    <3>2. Contents' = Log!Stored(Contents, NthEntry(seq + 1))
      <4>1. Contents' = ContentsOf(
                [SettledEvents EXCEPT ![SettledPos] = NthEntry(seq + 1)],
                NextPos(SettledPos), SettledFull \/ NextPos(SettledPos) = 0)
        <5>1. Contents' = ContentsOf(SettledEvents', SettledPos', SettledFull')
          BY DEF Contents
        <5>2. /\ SettledEvents' = [SettledEvents EXCEPT ![SettledPos] = NthEntry(seq + 1)]
              /\ SettledPos' = NextPos(SettledPos)
              /\ SettledFull' = (SettledFull \/ NextPos(SettledPos) = 0)
          BY <2>1 DEF SettledAdd
        <5> QED BY <5>1, <5>2, Zenon
      <4> QED BY <3>1, <4>1, AddStores, SettledType DEF RingInvariant, Contents
    <3>3. Log!Store(seq + 1)
      BY <2>1, <3>2 DEF SettledAdd, NthEntry, Log!Store, Log!Entry
    <3> QED BY <3>1, <3>3 DEF Log!Next
  <2>2. CASE UNCHANGED <<SettledEvents, SettledPos, SettledFull, seq>>
    BY <2>2 DEF Contents, ContentsOf
  <2> QED BY <2>1, <2>2, SettledStep DEF RingInvariant
<1> QED BY <1>1, <1>2, RingInit, RingStep, PTL DEF Spec, ImplementsLog, Log!Spec

-----------------------------------------------------------------------------
\* The scans.  What a reader needs of the ring besides its order.

\* The newest event whose addition is over.
Added == IF writer = "idle" THEN seq ELSE seq - 1

RingFull ==
    /\ \A k \in Slots : SettledEvents[k].Event = SettledEvents[k].Sequence
    /\ SettledFull => seq >= Size
    /\ Added >= Size => full
    /\ Added >= 0

LEMMA RingFullInit == Init => RingFull
<1> SUFFICES ASSUME Init PROVE RingFull
  OBVIOUS
<1> USE DEF Init
<1>1. \A k \in Slots : SettledEvents[k].Event = SettledEvents[k].Sequence
  BY DEF SettledEvents
<1>2. ~SettledFull /\ Added = 0
  BY DEF SettledFull, Added
<1> QED BY <1>1, <1>2 DEF RingFull

LEMMA RingFullStep ==
  ASSUME RingInvariant, RingFull, [Next]_vars
  PROVE  RingFull'
<1>0. RingTyped /\ AddingShape /\ SlotsInOrder /\ seq \in Nat
  BY DEF RingInvariant, RingTyped, Numbers
<1>1. ~SettledFull => seq = SettledPos
  BY <1>0 DEF SlotsInOrder, InOrder
<1>2. SettledPos \in Slots /\ SettledEvents \in [Slots -> Slot]
  BY <1>0, SettledType
<1>3. /\ \A k \in Slots : SettledEvents'[k].Event = SettledEvents'[k].Sequence
      /\ SettledFull' => seq' >= Size
  <2>1. CASE SettledAdd
    <3>1. \A k \in Slots : SettledEvents'[k] = IF k = SettledPos THEN NthEntry(seq + 1)
                                               ELSE SettledEvents[k]
      BY <1>2, <2>1 DEF SettledAdd
    <3>2. \A k \in Slots : SettledEvents'[k].Event = SettledEvents'[k].Sequence
      BY <3>1 DEF RingFull, NthEntry
    <3>3. NextPos(SettledPos) = 0 => SettledPos = Size - 1
      BY <1>2, NextPosType DEF Slots
    <3>4. SettledFull' => seq + 1 >= Size
      <4>1. SettledFull' => SettledFull \/ SettledPos = Size - 1
        BY <2>1, <3>3 DEF SettledAdd
      <4>2. SettledFull => seq >= Size
        BY DEF RingFull
      <4> QED BY <1>0, <1>1, <4>1, <4>2
    <3> QED BY <2>1, <3>2, <3>4 DEF SettledAdd
  <2>2. CASE UNCHANGED <<SettledEvents, SettledPos, SettledFull, seq>>
    BY <2>2 DEF RingFull
  <2> QED BY <1>0, <2>1, <2>2, SettledStep
<1>5. Added' >= 0
  <2>1. CASE BeginAdd \/ StorePos \/ StoreFull \/ \E part \in Parts : StorePart(part)
    BY <1>0, <2>1 DEF BeginAdd, StorePos, StoreFull, StorePart, Added, RingFull
  <2>2. ASSUME UNCHANGED <<ring, adding>> PROVE Added' >= 0
    BY <2>2 DEF ring, adding, Added, RingFull
  <2>3. ASSUME NEW r \in Readers, Read(r) PROVE UNCHANGED <<ring, adding>>
    BY <2>3 DEF Read, Begin, LoadFull, LoadPos, LoadStartFull, LoadStartPos,
                LoadSequence, LoadEvent, Finish
  <2> QED BY <2>1, <2>2, <2>3 DEF Next, Add, vars
<1>4. Added' >= Size => full'
  <2>1. CASE BeginAdd
    BY <1>0, <2>1 DEF BeginAdd, Added, RingFull
  <2>2. ASSUME NEW part \in Parts, StorePart(part) PROVE Added' >= Size => full'
    BY <1>0, <2>2 DEF StorePart, Added, RingFull
  <2>3. CASE StorePos
    BY <1>0, <2>3 DEF StorePos, Added, RingFull
  <2>4. CASE StoreFull
    <3>1. Added' = seq /\ full' = SettledFull
      BY <1>0, <2>4 DEF StoreFull, Added, SettledFull, SettledPos, FullAt
    <3> QED BY <1>1, <1>2, <3>1 DEF Slots
  <2>5. ASSUME UNCHANGED <<ring, adding>> PROVE Added' >= Size => full'
    BY <2>5 DEF ring, adding, Added, RingFull
  <2>6. ASSUME NEW r \in Readers, Read(r) PROVE UNCHANGED <<ring, adding>>
    BY <2>6 DEF Read, Begin, LoadFull, LoadPos, LoadStartFull, LoadStartPos,
                LoadSequence, LoadEvent, Finish
  <2> QED BY <2>1, <2>2, <2>3, <2>4, <2>5, <2>6 DEF Next, Add, vars
<1> QED BY <1>3, <1>4, <1>5 DEF RingFull

-----------------------------------------------------------------------------
\* The types of what the readers hold.
ReadersTyped ==
    /\ at \in [Readers -> Loads]
    /\ afterSeq \in [Readers -> Nat]
    /\ count \in [Readers -> 0 .. Size]
    /\ start \in [Readers -> Slots]
    /\ i \in [Readers -> 0 .. Size]
    /\ result \in [Readers -> Seq(Numbers)]
    /\ began \in [Readers -> Numbers]
    /\ raced \in SUBSET Readers

Scanning == {"sequence", "event", "done"}
Counted == {"startFull", "startPos"} \union Scanning

\* How many slots a reader visits and where it begins, against what has been
\* added when it began and since.
ReaderShape(r) ==
    /\ at[r] # "idle" => began[r] <= Added
    /\ at[r] \notin Scanning => i[r] = 0 /\ start[r] = 0 /\ result[r] = <<>>
    /\ at[r] = "pos" => began[r] < Size
    /\ at[r] \in Counted =>
          \/ count[r] = Size /\ seq >= Size
          \/ /\ count[r] < Size /\ began[r] < Size
             /\ seq < Size => count[r] >= began[r]
    /\ at[r] = "startPos" => seq >= Size
    /\ seq < Size => start[r] = 0
    /\ at[r] = "sequence" => i[r] <= count[r]
    /\ at[r] = "event" => i[r] < count[r]
    /\ at[r] = "done" => i[r] = count[r]

\* The slot that is visited is one of the buffer's.
LEMMA VisitedSlot ==
  ASSUME ReadersTyped, NEW r \in Readers, i[r] < count[r]
  PROVE  /\ Visited(r) \in Slots
         /\ Visited(r) = IF start[r] + i[r] < Size THEN start[r] + i[r]
                         ELSE start[r] + i[r] - Size
<1>1. start[r] \in Slots /\ i[r] \in 0 .. Size - 1
  BY DEF ReadersTyped
<1>2. Visited(r) = IF start[r] + i[r] < Size THEN start[r] + i[r]
                   ELSE start[r] + i[r] - Size
  BY <1>1, WrapLap DEF Visited
<1> QED BY <1>1, <1>2 DEF Slots

\* An addition leaves the readers' locals alone, a reader the ring and the
\* other readers.
LEMMA AddFrame == Add => UNCHANGED <<locals, began>>
  BY DEF Add, BeginAdd, StorePart, StorePos, StoreFull

LEMMA ReadFrame ==
  ASSUME ReadersTyped, NEW q \in Readers, Read(q), NEW r \in Readers
  PROVE  /\ UNCHANGED <<ring, adding>>
         /\ r # q => /\ at'[r] = at[r] /\ afterSeq'[r] = afterSeq[r]
                     /\ count'[r] = count[r] /\ start'[r] = start[r] /\ i'[r] = i[r]
                     /\ result'[r] = result[r] /\ began'[r] = began[r]
  BY DEF ReadersTyped, Read, Begin, LoadFull, LoadPos, LoadStartFull, LoadStartPos,
         LoadSequence, LoadEvent, Finish

LEMMA ReadersTypedStep ==
  ASSUME RingTyped, RingFull, ReadersTyped, \A r \in Readers : ReaderShape(r),
         [Next]_vars
  PROVE  ReadersTyped'
<1>0. seq \in Numbers /\ pos \in Slots /\ Slots \subseteq 0 .. Size
  BY DEF RingTyped, Slots
<1>1. CASE Add
  <2>1. raced' \in SUBSET Readers
    BY <1>1 DEF ReadersTyped, Add, BeginAdd, StorePart, StorePos, StoreFull
  <2> QED BY <1>1, <2>1, AddFrame DEF ReadersTyped, locals
<1>2. ASSUME NEW r \in Readers, Read(r) PROVE ReadersTyped'
  <2>1. ASSUME NEW n \in Asked, Begin(r, n) PROVE ReadersTyped'
    <3>1. (IF writer = "idle" THEN seq ELSE seq - 1) \in Numbers
      BY <1>0 DEF Numbers, RingTyped, RingFull, Added
    <3> QED BY <2>1, <3>1 DEF Begin, ReadersTyped, Loads
  <2>2. CASE LoadFull(r)
    BY <2>2 DEF LoadFull, ReadersTyped, Loads
  <2>3. CASE LoadPos(r)
    BY <1>0, <2>3 DEF LoadPos, ReadersTyped, Loads
  <2>4. CASE LoadStartFull(r)
    BY <2>4 DEF LoadStartFull, ReadersTyped, Loads
  <2>5. CASE LoadStartPos(r)
    BY <1>0, <2>5 DEF LoadStartPos, ReadersTyped, Loads
  <2>6. CASE LoadSequence(r)
    <3>1. i[r] + 1 \in 0 .. Size
      BY <2>6 DEF LoadSequence, ReadersTyped
    <3> QED BY <2>6, <3>1 DEF LoadSequence, ReadersTyped, Loads
  <2>7. CASE LoadEvent(r)
    <3>1. i[r] < count[r]
      BY <2>7 DEF LoadEvent, ReaderShape
    <3>2. i[r] + 1 \in 0 .. Size
      BY <3>1 DEF ReadersTyped
    <3>3. events[Visited(r)].Event \in Numbers /\ Torn \in Numbers
      BY <3>1, VisitedSlot DEF RingTyped, Slot, Torn, Numbers
    <3>4. PICK e \in Numbers : result' = [result EXCEPT ![r] = Append(@, e)]
      BY <2>7, <3>3 DEF LoadEvent
    <3>5. result' \in [Readers -> Seq(Numbers)]
      BY <3>4 DEF ReadersTyped
    <3> QED BY <2>7, <3>2, <3>5 DEF LoadEvent, ReadersTyped, Loads
  <2>8. CASE Finish(r)
    BY <2>8 DEF Finish, ReadersTyped, Loads
  <2> QED BY <1>2, <2>1, <2>2, <2>3, <2>4, <2>5, <2>6, <2>7, <2>8 DEF Read
<1>3. CASE UNCHANGED vars
  BY <1>3 DEF vars, locals, ReadersTyped
<1> QED BY <1>1, <1>2, <1>3 DEF Next
\* What an addition does to the two counters the readers' bounds rest on.
LEMMA AddCounts ==
  ASSUME RingTyped, Add
  PROVE  seq <= seq' /\ Added <= Added'
  BY DEF Add, BeginAdd, StorePart, StorePos, StoreFull, Added, RingTyped, Numbers

\* The position a reader loads while the buffer has never been full.
LEMMA PosOfFirstLap ==
  ASSUME RingInvariant, RingFull, seq < Size
  PROVE  Added <= pos
<1>0. RingTyped /\ seq \in Nat /\ pos \in 0 .. Size - 1
  BY DEF RingInvariant, RingTyped, Numbers, Slots
<1>1. ~SettledFull
  BY <1>0 DEF RingFull
<1>2. seq = SettledPos
  BY <1>1 DEF RingInvariant, SlotsInOrder, InOrder
<1>3. CASE writer = "slot" \/ writer = "pos"
  <2>1. SettledPos = NextPos(pos) /\ SettledPos # 0
    BY <1>1, <1>3 DEF SettledPos, SettledFull
  <2>2. NextPos(pos) = IF pos = Size - 1 THEN 0 ELSE pos + 1
    BY <1>0, NextPosType DEF RingTyped
  <2> QED BY <1>0, <1>2, <1>3, <2>1, <2>2 DEF Added
<1>4. CASE writer = "idle"
  BY <1>0, <1>2, <1>4 DEF Added, SettledPos
<1>5. CASE writer = "full"
  BY <1>0, <1>2, <1>5 DEF Added, SettledPos
<1> QED BY <1>0, <1>3, <1>4, <1>5 DEF RingTyped
\* The loads keep the shape: a reader that finds the buffer full finds that
\* Size events have been added, one that does not began on the first lap.
LEMMA ReaderShapeStep ==
  ASSUME RingInvariant, RingFull, RingFull', ReadersTyped,
         \A r \in Readers : ReaderShape(r), [Next]_vars
  PROVE  \A r \in Readers : ReaderShape(r)'
<1>0. RingTyped /\ seq \in Nat /\ pos \in 0 .. Size - 1 /\ Added \in Int
  BY DEF RingInvariant, RingTyped, Numbers, Slots, Added
<1>1. ASSUME Add, NEW r \in Readers PROVE ReaderShape(r)'
  <2>1. /\ at' = at /\ i' = i /\ start' = start /\ result' = result
        /\ count' = count /\ began' = began
    BY <1>1, AddFrame DEF locals
  <2>2. seq <= seq' /\ Added <= Added'
    BY <1>0, <1>1, AddCounts
  <2>3. seq' \in Int /\ Added' \in Int /\ began[r] \in Int
    BY <1>1, <1>0 DEF Add, BeginAdd, StorePart, StorePos, StoreFull, Added,
                      ReadersTyped, Numbers
  <2>4. ReaderShape(r)
    OBVIOUS
  <2> QED BY <1>0, <2>1, <2>2, <2>3, <2>4 DEF ReaderShape
<1>2. ASSUME NEW q \in Readers, Read(q), NEW r \in Readers PROVE ReaderShape(r)'
  <2>0. UNCHANGED <<ring, adding>> /\ Added' = Added /\ seq' = seq
    BY <1>2, ReadFrame DEF ring, adding, Added
  <2>1. ReaderShape(r)
    OBVIOUS
  <2>2. CASE r # q
    BY <1>2, <2>0, <2>1, <2>2, ReadFrame DEF ReaderShape
  <2>3. CASE r = q
    <3>0. /\ count[r] \in 0 .. Size /\ began[r] \in Nat /\ i[r] \in 0 .. Size
          /\ start[r] \in Slots /\ at[r] \in Loads
      BY DEF ReadersTyped, Numbers
    <3>1. ASSUME NEW n \in Asked, Begin(r, n) PROVE ReaderShape(r)'
      <4>1. at'[r] = "full" /\ began'[r] = Added
        BY <3>1 DEF Begin, ReadersTyped, Added
      <4>2. i'[r] = i[r] /\ start'[r] = start[r] /\ result'[r] = result[r] /\ at[r] = "idle"
        BY <3>1 DEF Begin
      <4> QED BY <1>0, <2>0, <2>1, <4>1, <4>2 DEF ReaderShape, Scanning, Counted
    <3>2. CASE LoadFull(r)
      <4>1. /\ at'[r] = IF full THEN "startFull" ELSE "pos"
            /\ count'[r] = Size /\ at[r] = "full"
        BY <3>2 DEF LoadFull, ReadersTyped
      <4>2. i'[r] = i[r] /\ start'[r] = start[r] /\ result'[r] = result[r] /\ began'[r] = began[r]
        BY <3>2 DEF LoadFull
      <4>3. full => seq >= Size
        BY DEF RingFull, SettledFull
      <4>4. ~full => began[r] < Size
        BY <1>0, <2>1, <3>0, <4>1 DEF RingFull, ReaderShape
      <4> QED BY <1>0, <2>0, <2>1, <3>0, <4>1, <4>2, <4>3, <4>4 DEF ReaderShape, Scanning, Counted
    <3>3. CASE LoadPos(r)
      <4>1. at'[r] = "startFull" /\ count'[r] = pos /\ at[r] = "pos"
        BY <3>3 DEF LoadPos, ReadersTyped
      <4>2. i'[r] = i[r] /\ start'[r] = start[r] /\ result'[r] = result[r] /\ began'[r] = began[r]
        BY <3>3 DEF LoadPos
      <4>3. seq < Size => began[r] <= pos
        BY <1>0, <2>1, <3>0, <4>1, PosOfFirstLap DEF ReaderShape
      <4> QED BY <1>0, <2>0, <2>1, <3>0, <4>1, <4>2, <4>3 DEF ReaderShape, Scanning, Counted
    <3>4. CASE LoadStartFull(r)
      <4>1. PICK isFull \in {full, count[r] = Size} :
               at' = [at EXCEPT ![r] = IF isFull THEN "startPos" ELSE "sequence"]
        BY <3>4 DEF LoadStartFull
      <4>2. at'[r] = (IF isFull THEN "startPos" ELSE "sequence") /\ at[r] = "startFull"
        BY <3>4, <4>1 DEF LoadStartFull, ReadersTyped
      <4>3. /\ i'[r] = i[r] /\ start'[r] = start[r] /\ result'[r] = result[r]
            /\ began'[r] = began[r] /\ count'[r] = count[r]
        BY <3>4 DEF LoadStartFull
      <4>4. at[r] \in Counted /\ at[r] \notin Scanning
        BY <4>2 DEF Counted, Scanning
      <4>5. isFull => seq >= Size
        <5>1. isFull => full \/ count[r] = Size
          BY <4>1
        <5>2. full => seq >= Size
          BY DEF RingFull, SettledFull
        <5>3. count[r] = Size => seq >= Size
          BY <1>0, <2>1, <3>0, <4>4 DEF ReaderShape
        <5> QED BY <5>1, <5>2, <5>3
      <4>6. CASE isFull
        <5>1. at'[r] = "startPos"
          BY <4>2, <4>6
        <5> QED BY <1>0, <2>0, <2>1, <3>0, <4>3, <4>4, <4>5, <4>6, <5>1 DEF ReaderShape, Scanning, Counted
      <4>7. CASE ~isFull
        <5>1. at'[r] = "sequence"
          BY <4>2, <4>7
        <5> QED BY <1>0, <2>0, <2>1, <3>0, <4>2, <4>3, <4>4, <5>1 DEF ReaderShape, Scanning, Counted
      <4> QED BY <4>6, <4>7
    <3>5. CASE LoadStartPos(r)
      <4>1. at'[r] = "sequence" /\ at[r] = "startPos"
        BY <3>5 DEF LoadStartPos, ReadersTyped
      <4>2. i'[r] = i[r] /\ count'[r] = count[r] /\ began'[r] = began[r]
        BY <3>5 DEF LoadStartPos
      <4> QED BY <1>0, <2>0, <2>1, <3>0, <4>1, <4>2 DEF ReaderShape, Scanning, Counted
    <3>6. CASE LoadSequence(r)
      <4>1. /\ at[r] = "sequence" /\ i[r] < count[r]
            /\ \/ at'[r] = "event" /\ i'[r] = i[r]
               \/ at'[r] = "sequence" /\ i'[r] = i[r] + 1
        BY <3>6 DEF LoadSequence, ReadersTyped
      <4>2. start'[r] = start[r] /\ count'[r] = count[r] /\ began'[r] = began[r]
        BY <3>6 DEF LoadSequence
      <4> QED BY <1>0, <2>0, <2>1, <3>0, <4>1, <4>2 DEF ReaderShape, Scanning, Counted
    <3>7. CASE LoadEvent(r)
      <4>1. at[r] = "event" /\ at'[r] = "sequence" /\ i'[r] = i[r] + 1
        BY <3>7 DEF LoadEvent, ReadersTyped
      <4>2. start'[r] = start[r] /\ count'[r] = count[r] /\ began'[r] = began[r]
        BY <3>7 DEF LoadEvent
      <4> QED BY <1>0, <2>0, <2>1, <3>0, <4>1, <4>2 DEF ReaderShape, Scanning, Counted
    <3>8. CASE Finish(r)
      <4>1. at[r] = "sequence" /\ at'[r] = "done" /\ i[r] = count[r]
        BY <3>8 DEF Finish, ReadersTyped
      <4>2. /\ i'[r] = i[r] /\ start'[r] = start[r] /\ count'[r] = count[r]
            /\ began'[r] = began[r]
        BY <3>8 DEF Finish
      <4> QED BY <1>0, <2>0, <2>1, <3>0, <4>1, <4>2 DEF ReaderShape, Scanning, Counted
    <3> QED BY <1>2, <2>3, <3>1, <3>2, <3>3, <3>4, <3>5, <3>6, <3>7, <3>8 DEF Read
  <2> QED BY <2>2, <2>3
<1>3. ASSUME UNCHANGED vars, NEW r \in Readers PROVE ReaderShape(r)'
  BY <1>3 DEF vars, locals, ring, adding, ReaderShape, Added
<1> QED BY <1>1, <1>2, <1>3 DEF Next

\* The invariant of the buffer and its readers.
ScanInvariant ==
    /\ RingInvariant
    /\ RingFull
    /\ ReadersTyped
    /\ \A r \in Readers : ReaderShape(r)

LEMMA ScanInit == Init => ScanInvariant
<1> SUFFICES ASSUME Init PROVE ScanInvariant
  OBVIOUS
<1>1. RingInvariant /\ RingFull
  BY RingInit, RingFullInit
<1>2. ReadersTyped
  <2>1. 0 \in Numbers /\ 0 \in Slots /\ 0 \in 0 .. Size /\ <<>> \in Seq(Numbers)
    BY EmptySeq DEF Numbers, Slots
  <2> QED BY <2>1 DEF Init, ReadersTyped, Loads
<1>3. ASSUME NEW r \in Readers PROVE ReaderShape(r)
  BY DEF Init, ReaderShape, Scanning, Counted
<1> QED BY <1>1, <1>2, <1>3 DEF ScanInvariant

LEMMA ScanStep == ScanInvariant /\ [Next]_vars => ScanInvariant'
<1> SUFFICES ASSUME ScanInvariant, [Next]_vars PROVE ScanInvariant'
  OBVIOUS
<1> USE DEF ScanInvariant
<1>1. RingInvariant' /\ RingFull'
  BY RingStep, RingFullStep
<1>2. ReadersTyped'
  BY ReadersTypedStep DEF RingInvariant
<1>3. \A r \in Readers : ReaderShape(r)'
  BY <1>1, ReaderShapeStep
<1> QED BY <1>1, <1>2, <1>3

\* The buffer's fields and the readers' locals keep their types: in
\* particular every slot that since visits is one of the buffer's, and it
\* visits at most Size of them.
THEOREM TypeCorrect == Spec => []TypeOK
<1>1. ScanInvariant => TypeOK
  BY DEF ScanInvariant, RingInvariant, RingTyped, ReadersTyped, TypeOK
<1> QED BY <1>1, ScanInit, ScanStep, PTL DEF Spec
-----------------------------------------------------------------------------
\* What a scan has found: of the slots it has visited, every event that it is
\* to return and that no later addition has replaced is in its result.
Place(r, d) == (start[r] + d) % Size

Collected(r, n) ==
    afterSeq[r] < n /\ n <= began[r] => \E m \in DOMAIN result[r] : result[r][m] = n

Found(r) ==
    at[r] \in Scanning =>
        \A d \in 0 .. i[r] - 1 : Collected(r, SettledEvents[Place(r, d)].Sequence)

\* The slots a scan visits are slots of the buffer.
LEMMA PlaceType ==
  ASSUME ReadersTyped, NEW r \in Readers, NEW d \in 0 .. Size - 1
  PROVE  /\ Place(r, d) \in Slots
         /\ Place(r, d) = IF start[r] + d < Size THEN start[r] + d
                          ELSE start[r] + d - Size
<1>1. start[r] \in Slots
  BY DEF ReadersTyped
<1>2. Place(r, d) = IF start[r] + d < Size THEN start[r] + d
                    ELSE start[r] + d - Size
  BY <1>1, WrapLap DEF Place
<1> QED BY <1>1, <1>2 DEF Slots

\* A slot that a scan is to return is not being overwritten: what is there is
\* what will be there.
LEMMA SettledSlot ==
  ASSUME ScanInvariant, NEW r \in Readers, at[r] # "idle", NEW k \in Slots,
         SettledEvents[k].Sequence <= began[r]
  PROVE  /\ SettledEvents[k] = events[k]
         /\ events[k].Event = events[k].Sequence
         /\ ~Overwriting(k)
<1>0. RingTyped /\ seq \in Nat /\ began[r] \in Nat
  BY DEF ScanInvariant, RingInvariant, RingTyped, ReadersTyped, Numbers
<1>1. began[r] <= Added
  BY DEF ScanInvariant, ReaderShape
<1>2. ~(writer = "slot" /\ k = pos)
  <2> SUFFICES ASSUME writer = "slot", k = pos PROVE FALSE
    OBVIOUS
  <2>1. SettledEvents[k].Sequence = seq
    BY <1>0 DEF SettledEvents, RingTyped
  <2> QED BY <1>0, <1>1, <2>1 DEF Added
<1>3. SettledEvents[k] = events[k]
  BY <1>0, <1>2 DEF SettledEvents, RingTyped
<1>4. SettledEvents[k].Event = SettledEvents[k].Sequence
  BY DEF ScanInvariant, RingFull
<1> QED BY <1>2, <1>3, <1>4 DEF Overwriting

LEMMA FoundStep ==
  ASSUME ScanInvariant, ScanInvariant', \A r \in Readers : Found(r), [Next]_vars
  PROVE  \A r \in Readers : Found(r)'
<1>0. /\ RingTyped /\ ReadersTyped /\ seq \in Nat
      /\ SettledEvents \in [Slots -> Slot] /\ SettledPos \in Slots
  BY SettledType DEF ScanInvariant, RingInvariant, RingTyped, Numbers
<1>1. ASSUME Add, NEW r \in Readers PROVE Found(r)'
  <2>1. /\ at' = at /\ i' = i /\ start' = start /\ result' = result
        /\ began' = began /\ afterSeq' = afterSeq
    BY <1>1, AddFrame DEF locals
  <2> SUFFICES ASSUME at[r] \in Scanning, NEW d \in 0 .. i[r] - 1
               PROVE  Collected(r, SettledEvents[Place(r, d)].Sequence)'
    BY <2>1 DEF Found, Place
  <2>2. began[r] <= seq /\ i[r] \in 0 .. Size /\ began[r] \in Nat
    <3>1. at[r] # "idle" /\ i[r] \in 0 .. Size /\ began[r] \in Nat
      BY <1>0 DEF Scanning, ReadersTyped, Numbers
    <3>2. began[r] <= Added
      BY <3>1 DEF ScanInvariant, ReaderShape
    <3> QED BY <1>0, <3>1, <3>2 DEF Added
  <2>3. Place(r, d)' = Place(r, d) /\ Place(r, d) \in Slots
    BY <1>0, <2>1, <2>2, PlaceType DEF Place
  <2>4. Collected(r, SettledEvents[Place(r, d)].Sequence)
    BY DEF Found
  <2> DEFINE k == Place(r, d)
  <2>5. CASE SettledAdd /\ k = SettledPos
    <3>1. SettledEvents'[k] = NthEntry(seq + 1)
      BY <1>0, <2>5 DEF SettledAdd
    <3>2. SettledEvents'[k].Sequence > began[r]
      BY <1>0, <2>2, <3>1 DEF NthEntry
    <3>3. SettledEvents'[k].Sequence \in Nat
      BY <1>0, <3>1 DEF NthEntry
    <3> QED BY <2>1, <2>2, <2>3, <3>2, <3>3 DEF Collected
  <2>6. CASE SettledEvents'[k] = SettledEvents[k]
    BY <2>1, <2>3, <2>4, <2>6 DEF Collected
  <2>7. SettledAdd /\ k # SettledPos => SettledEvents'[k] = SettledEvents[k]
    BY <1>0, <2>3 DEF SettledAdd
  <2>8. SettledAdd \/ SettledEvents' = SettledEvents
    BY <1>0, SettledStep DEF ScanInvariant, RingInvariant
  <2> QED BY <2>5, <2>6, <2>7, <2>8
<1>2. ASSUME NEW q \in Readers, Read(q), NEW r \in Readers PROVE Found(r)'
  <2>0. UNCHANGED <<events, pos, seq, full, writer, left, SettledEvents>>
    BY <1>0, <1>2, ReadFrame DEF ring, adding, SettledEvents
  <2>1. CASE r # q
    BY <1>0, <1>2, <2>0, <2>1, ReadFrame DEF Found, Collected, Place
  <2>2. CASE r = q
    <3>0. /\ i[r] \in 0 .. Size /\ began[r] \in Nat /\ at[r] \in Loads
          /\ result[r] \in Seq(Numbers) /\ count[r] \in 0 .. Size
      BY <1>0 DEF ReadersTyped, Numbers
    \* The loads before the first slot.
    <3>1. CASE i'[r] = 0
      BY <3>1 DEF Found
    <3>2. CASE Finish(r)
      <4>1. at[r] \in Scanning
        BY <3>2 DEF Finish, Scanning
      <4>2. UNCHANGED <<i, start, result, began, afterSeq>>
        BY <3>2 DEF Finish
      <4> QED BY <2>0, <4>1, <4>2 DEF Found, Collected, Place
    <3>3. CASE LoadSequence(r)
      <4>1. at[r] = "sequence" /\ i[r] < count[r] /\ at[r] \in Scanning
        BY <3>3 DEF LoadSequence, Scanning
      <4>2. UNCHANGED <<start, result, began, afterSeq>>
        BY <3>3 DEF LoadSequence
      <4>3. Place(r, i[r]) = Visited(r) /\ Visited(r) \in Slots
        BY <1>0, <4>1, VisitedSlot DEF Place, Visited
      <4>4. CASE Newer(events[Visited(r)].Sequence, afterSeq[r])
        <5>1. i' = i
          BY <3>3, <4>4 DEF LoadSequence
        <5> QED BY <2>0, <4>1, <4>2, <5>1 DEF Found, Collected, Place
      <4>5. CASE ~Newer(events[Visited(r)].Sequence, afterSeq[r])
        <5>1. i'[r] = i[r] + 1
          BY <1>0, <3>3, <4>5 DEF LoadSequence, ReadersTyped
        <5>2. Collected(r, SettledEvents[Visited(r)].Sequence)
          <6>1. SettledEvents[Visited(r)].Sequence <= began[r]
                    => ~(events[Visited(r)].Sequence > afterSeq[r])
                       /\ SettledEvents[Visited(r)] = events[Visited(r)]
            BY <4>1, <4>3, <4>5, SettledSlot DEF Newer
          <6>2. events[Visited(r)].Sequence \in Nat /\ afterSeq[r] \in Nat
            BY <1>0, <4>3 DEF RingTyped, Slot, Numbers, ReadersTyped
          <6> QED BY <6>1, <6>2 DEF Collected
        <5>3. ASSUME NEW d \in 0 .. i[r]
              PROVE  Collected(r, SettledEvents[Place(r, d)].Sequence)
          <6>1. CASE d = i[r]
            BY <4>3, <5>2, <6>1
          <6>2. CASE d # i[r]
            BY <3>0, <4>1, <6>2 DEF Found
          <6> QED BY <6>1, <6>2
        <5> QED BY <2>0, <3>0, <4>2, <5>1, <5>3 DEF Found, Collected, Place
      <4> QED BY <4>4, <4>5
    <3>4. CASE LoadEvent(r)
      <4>1. at[r] = "event" /\ i[r] < count[r] /\ at[r] \in Scanning
        BY <3>4 DEF LoadEvent, Scanning, ScanInvariant, ReaderShape
      <4>2. UNCHANGED <<start, began, afterSeq>> /\ i'[r] = i[r] + 1
        BY <1>0, <3>4 DEF LoadEvent, ReadersTyped
      <4>3. Place(r, i[r]) = Visited(r) /\ Visited(r) \in Slots
        BY <1>0, <4>1, VisitedSlot DEF Place, Visited
      <4>4. PICK e \in {events[Visited(r)].Event}
                          \union (IF Overwriting(Visited(r)) THEN {Torn} ELSE {}) :
               result' = [result EXCEPT ![r] = Append(@, e)]
        BY <3>4 DEF LoadEvent
      <4>5. e \in Numbers
        BY <1>0, <4>3 DEF RingTyped, Slot, Torn, Numbers
      <4>6. result'[r] = Append(result[r], e)
        BY <1>0, <4>4 DEF ReadersTyped
      <4>7. /\ DOMAIN result[r] = 1 .. Len(result[r])
            /\ DOMAIN Append(result[r], e) = 1 .. Len(result[r]) + 1
            /\ \A m \in 1 .. Len(result[r]) : Append(result[r], e)[m] = result[r][m]
            /\ Append(result[r], e)[Len(result[r]) + 1] = e
            /\ Len(result[r]) \in Nat
        BY <3>0, <4>5, AppendProperties
      <4>8. \A m \in DOMAIN result[r] :
                m \in DOMAIN result'[r] /\ result'[r][m] = result[r][m]
        BY <4>6, <4>7
      <4>9. \E m \in DOMAIN result'[r] : result'[r][m] = e
        BY <4>6, <4>7
      <4>10. SettledEvents[Visited(r)].Sequence <= began[r]
                => e = SettledEvents[Visited(r)].Sequence
        BY <4>1, <4>3, <4>4, SettledSlot
      <4>11. ASSUME NEW d \in 0 .. i[r]
             PROVE  Collected(r, SettledEvents[Place(r, d)].Sequence)'
        <5>0. Place(r, d)' = Place(r, d)
          BY <4>2 DEF Place
        <5>1. CASE d = i[r]
          BY <2>0, <4>2, <4>3, <4>9, <4>10, <5>0, <5>1 DEF Collected
        <5>2. CASE d # i[r]
          <6>1. Collected(r, SettledEvents[Place(r, d)].Sequence)
            BY <3>0, <4>1, <5>2 DEF Found
          <6> QED BY <2>0, <4>2, <4>8, <5>0, <6>1 DEF Collected
        <5> QED BY <5>1, <5>2
      <4>12. 0 .. i'[r] - 1 = 0 .. i[r]
        BY <3>0, <4>2
      <4> QED BY <4>11, <4>12 DEF Found
    <3>5. i'[r] = 0 \/ LoadSequence(r) \/ LoadEvent(r) \/ Finish(r)
      <4>1. at[r] \notin Scanning => i[r] = 0
        BY DEF ScanInvariant, ReaderShape
      <4> QED BY <1>2, <2>2, <4>1 DEF Read, Begin, LoadFull, LoadPos, LoadStartFull,
                                      LoadStartPos, Scanning
    <3> QED BY <3>1, <3>2, <3>3, <3>4, <3>5
  <2> QED BY <2>1, <2>2
<1>3. ASSUME UNCHANGED vars, NEW r \in Readers PROVE Found(r)'
  BY <1>3 DEF vars, locals, ring, adding, Found, Collected, Place, SettledEvents
<1> QED BY <1>1, <1>2, <1>3 DEF Next
\* A scan that has visited all it visits has found every event that it is to
\* return and that is still in the buffer, when it has visited every slot that
\* holds one.
LEMMA FoundIsComplete ==
  ASSUME ScanInvariant, NEW r \in Readers, Found(r), at[r] = "done",
         began[r] >= Size \/ seq < Size
  PROVE  Complete(r)
<1>0. /\ RingTyped /\ ReadersTyped /\ seq \in Nat /\ SlotsInOrder
      /\ SettledEvents \in [Slots -> Slot] /\ SettledPos \in Slots
      /\ SettledFull \in BOOLEAN
  BY SettledType DEF ScanInvariant, RingInvariant, RingTyped, Numbers
<1>1. /\ i[r] = count[r] /\ count[r] \in 0 .. Size /\ began[r] \in Nat
      /\ start[r] \in 0 .. Size - 1 /\ SettledPos \in 0 .. Size - 1
  BY <1>0 DEF ScanInvariant, ReaderShape, ReadersTyped, Numbers, Slots
<1>2. \/ count[r] = Size /\ seq >= Size
      \/ /\ count[r] < Size /\ began[r] < Size
         /\ seq < Size => count[r] >= began[r]
  BY DEF ScanInvariant, ReaderShape, Counted, Scanning
<1>3. seq < Size => start[r] = 0
  BY DEF ScanInvariant, ReaderShape
<1> SUFFICES ASSUME NEW n \in Held, afterSeq[r] < n, n <= began[r]
             PROVE  \E k \in DOMAIN result[r] : result[r][k] = n
  BY DEF Complete
<1> DEFINE P == SettledPos
           C == Contents
           m == IF SettledFull THEN Size ELSE P
<1>4. PICK k \in 1 .. m :
         /\ n = C[k].Sequence
         /\ C[k] = SettledEvents[IF SettledFull
                                 THEN IF P + k - 1 < Size THEN P + k - 1
                                      ELSE P + k - 1 - Size
                                 ELSE k - 1]
  <2>1. /\ C \in Seq(Slot) /\ Len(C) = m
        /\ \A k \in 1 .. m :
              C[k] = SettledEvents[IF SettledFull
                                   THEN IF P + k - 1 < Size THEN P + k - 1
                                        ELSE P + k - 1 - Size
                                   ELSE k - 1]
    BY <1>0, ContentsShape DEF Contents
  <2>2. PICK k \in DOMAIN C : n = C[k].Sequence
    BY DEF Held
  <2>3. k \in 1 .. m
    BY <2>1, <2>2
  <2> QED BY <2>1, <2>2, <2>3
<1> DEFINE s == IF SettledFull THEN IF P + k - 1 < Size THEN P + k - 1
                                    ELSE P + k - 1 - Size
                ELSE k - 1
<1>5. s \in Slots /\ n = SettledEvents[s].Sequence
  <2>1. n = SettledEvents[s].Sequence
    BY <1>4
  <2>2. s \in 0 .. Size - 1
    BY <1>1
  <2> QED BY <2>1, <2>2 DEF Slots
<1>6. \E d \in 0 .. i[r] - 1 : Place(r, d) = s
  <2>1. CASE count[r] = Size
    <3> DEFINE d == IF s >= start[r] THEN s - start[r] ELSE s - start[r] + Size
    <3>1. s \in 0 .. Size - 1
      BY <1>5 DEF Slots
    <3> HIDE DEF s
    <3>2. d \in 0 .. Size - 1
      BY <1>1, <3>1
    <3>3. s = IF start[r] + d < Size THEN start[r] + d ELSE start[r] + d - Size
      BY <1>1, <3>1
    <3> HIDE DEF d
    <3>4. Place(r, d) = s
      BY <1>0, <3>2, <3>3, PlaceType
    <3> QED BY <1>1, <2>1, <3>2, <3>4
  <2>2. CASE count[r] < Size
    <3>1. seq < Size /\ count[r] >= began[r] /\ start[r] = 0
      BY <1>0, <1>1, <1>2, <1>3, <2>2
    <3>2. ~SettledFull
      BY <1>0, <3>1 DEF ScanInvariant, RingFull
    <3>3. seq = P
      BY <1>0, <3>2 DEF SlotsInOrder, InOrder
    <3>4. s = k - 1 /\ s < P /\ k \in 1 .. P
      BY <1>1, <3>2
    <3>5. SettledEvents[s].Sequence = IF s < P THEN seq - P + s + 1
                                      ELSE IF SettledFull THEN seq - P - Size + s + 1
                                      ELSE 0
      BY <1>0, <1>5 DEF SlotsInOrder, InOrder
    <3>6. n = k
      BY <1>0, <1>1, <1>5, <3>3, <3>4, <3>5
    <3>7. k - 1 \in 0 .. i[r] - 1 /\ k - 1 \in 0 .. Size - 1
      BY <1>1, <2>2, <3>1, <3>4, <3>6
    <3>8. Place(r, k - 1) = k - 1
      BY <1>0, <3>1, <3>7, PlaceType
    <3> QED BY <3>4, <3>7, <3>8
  <2> QED BY <1>1, <2>1, <2>2
<1>7. PICK d \in 0 .. i[r] - 1 : Place(r, d) = s
  BY <1>6
<1>8. Collected(r, SettledEvents[Place(r, d)].Sequence)
  BY DEF Found, Scanning
<1> QED BY <1>5, <1>7, <1>8 DEF Collected

\* However many additions it races with, a scan of a buffer that has been full
\* from the start, or is not full at the end, returns every event its client
\* is missing that is in the buffer throughout.
THEOREM ScanOfOneLapCorrect == Spec => []ScanOfOneLapIsComplete
<1> DEFINE I == ScanInvariant /\ \A r \in Readers : Found(r)
<1>1. Init => I
  BY ScanInit DEF Init, Found, Scanning
<1>2. I /\ [Next]_vars => I'
  BY ScanStep, FoundStep
<1>3. I => ScanOfOneLapIsComplete
  BY FoundIsComplete DEF ScanOfOneLapIsComplete
<1> QED BY <1>1, <1>2, <1>3, PTL DEF Spec
-----------------------------------------------------------------------------
\* A scan that nothing overlaps.

\* The events in the buffer are numbered one by one up to the newest.
LEMMA ContentsNumbered ==
  ASSUME ScanInvariant
  PROVE  /\ Contents \in Seq(Slot)
         /\ Len(Contents) = IF SettledFull THEN Size ELSE SettledPos
         /\ \A k \in 1 .. Len(Contents) :
               Contents[k].Sequence = seq - Len(Contents) + k
<1>0. /\ seq \in Nat /\ SlotsInOrder
      /\ SettledEvents \in [Slots -> Slot] /\ SettledPos \in Slots
      /\ SettledFull \in BOOLEAN
  BY SettledType DEF ScanInvariant, RingInvariant, RingTyped, Numbers
<1> DEFINE P == SettledPos
           F == SettledFull
           m == IF F THEN Size ELSE P
<1>1. /\ Contents \in Seq(Slot) /\ Len(Contents) = m
      /\ \A k \in 1 .. m :
            Contents[k] = SettledEvents[IF F THEN IF P + k - 1 < Size THEN P + k - 1
                                                  ELSE P + k - 1 - Size
                                        ELSE k - 1]
  BY <1>0, ContentsShape DEF Contents
<1>2. ASSUME NEW k \in 1 .. m PROVE Contents[k].Sequence = seq - m + k
  <2> DEFINE s == IF F THEN IF P + k - 1 < Size THEN P + k - 1
                            ELSE P + k - 1 - Size
                  ELSE k - 1
  <2>0. P \in 0 .. Size - 1
    BY <1>0 DEF Slots
  <2>1. s \in Slots
    BY <2>0 DEF Slots
  <2>2. SettledEvents[s].Sequence = IF s < P THEN seq - P + s + 1
                                    ELSE IF F THEN seq - P - Size + s + 1
                                    ELSE 0
    BY <1>0, <2>1 DEF SlotsInOrder, InOrder
  <2>3. ~F => seq = P
    BY <1>0 DEF SlotsInOrder, InOrder
  <2>4. Contents[k].Sequence = SettledEvents[s].Sequence
    BY <1>1
  <2> HIDE DEF P, F
  <2>5. CASE F
    <3>1. CASE P + k - 1 < Size
      BY <1>0, <2>0, <2>2, <2>4, <2>5, <3>1
    <3>2. CASE ~(P + k - 1 < Size)
      BY <1>0, <2>0, <2>2, <2>4, <2>5, <3>2
    <3> QED BY <3>1, <3>2
  <2>6. CASE ~F
    BY <1>0, <2>0, <2>2, <2>3, <2>4, <2>6
  <2> QED BY <2>5, <2>6
<1> QED BY <1>1, <1>2

\* The events a client who has seen n is missing are those from FirstAfter on.
LEMMA FirstAfterNumbered ==
  ASSUME ScanInvariant, NEW n \in Nat
  PROVE  /\ Log!FirstAfter(Contents, n) \in 1 .. Len(Contents) + 1
         /\ \A m \in 1 .. Len(Contents) :
               Contents[m].Sequence > n <=> m >= Log!FirstAfter(Contents, n)
<1> DEFINE L == Len(Contents)
           base == seq - L
           Begins(k) == /\ \A m \in 1 .. k - 1 : Contents[m].Sequence <= n
                        /\ k <= L => Contents[k].Sequence > n
           f == IF n < base THEN 1 ELSE IF n >= base + L THEN L + 1 ELSE n - base + 1
<1>1. /\ L \in Nat /\ base \in Int
      /\ \A k \in 1 .. L : Contents[k].Sequence = base + k
  <2>1. seq \in Nat /\ Contents \in Seq(Slot)
    BY ContentsNumbered DEF ScanInvariant, RingInvariant, RingTyped, Numbers
  <2>2. L \in Nat
    BY <2>1, LenProperties
  <2> QED BY <2>1, <2>2, ContentsNumbered
<1> HIDE DEF L, base
<1>2. f \in 1 .. L + 1 /\ Begins(f)
  BY <1>1
<1>3. Log!FirstAfter(Contents, n) = CHOOSE k \in 1 .. L + 1 : Begins(k)
  BY DEF Log!FirstAfter, L
<1> HIDE DEF f
<1> DEFINE g == Log!FirstAfter(Contents, n)
<1>4. g \in 1 .. L + 1 /\ Begins(g)
  <2> HIDE DEF Begins
  <2> QED BY <1>2, <1>3
<1> HIDE DEF g
<1>5. ASSUME NEW m \in 1 .. L PROVE Contents[m].Sequence > n <=> m >= g
  <2>1. CASE m >= g
    <3>1. Contents[g].Sequence > n /\ g \in 1 .. L
      BY <1>1, <1>4, <2>1
    <3> QED BY <1>1, <2>1, <3>1
  <2>2. CASE ~(m >= g)
    <3>1. m \in 1 .. g - 1
      BY <1>1, <1>4, <2>2
    <3> QED BY <1>1, <1>4, <2>2, <3>1
  <2> QED BY <2>1, <2>2
<1> QED BY <1>4, <1>5 DEF g, L
\* What a scan of contents C has returned of the first n, of which those from
\* the f-th on are missing.
Returned(C, n, f) ==
    [m \in 1 .. (IF n >= f THEN n - f + 1 ELSE 0) |-> C[f + m - 1].Event]

\* A scan at load a, with its locals, that has loaded what the buffer holds.
ExactScan(C, isFull, p, a, f, c, s, n, res) ==
    /\ a = "pos" => ~isFull
    /\ a \in Counted => c = IF isFull THEN Size ELSE p
    /\ a = "startPos" => isFull
    /\ a \in Scanning => s = IF isFull THEN p ELSE 0
    /\ a = "event" => n + 1 >= f
    /\ a \in Scanning => res = Returned(C, n, f)

\* A scan that has begun and that no addition has overlapped.
Quiet(r) == at[r] # "idle" /\ seq = began[r] /\ writer = "idle"

Exact(r) ==
    Quiet(r) => ExactScan(Contents, full, pos, at[r],
                          Log!FirstAfter(Contents, afterSeq[r]),
                          count[r], start[r], i[r], result[r])

\* The slot it visits next is the next of the contents.
LEMMA QuietVisit ==
  ASSUME ScanInvariant, NEW r \in Readers, Quiet(r), Exact(r),
         at[r] = "sequence" \/ at[r] = "event", i[r] < count[r]
  PROVE  /\ i[r] + 1 \in 1 .. Len(Contents)
         /\ Contents[i[r] + 1] = events[Visited(r)]
         /\ ~Overwriting(Visited(r))
         /\ events[Visited(r)].Event \in Numbers
<1>0. /\ RingTyped /\ ReadersTyped /\ pos \in Slots /\ events \in [Slots -> Slot]
      /\ i[r] \in 0 .. Size /\ count[r] \in 0 .. Size
  BY DEF ScanInvariant, RingInvariant, RingTyped, ReadersTyped
<1>1. SettledEvents = events /\ SettledPos = pos /\ SettledFull = full /\ writer = "idle"
  BY <1>0 DEF Quiet, SettledEvents, SettledPos, SettledFull, RingTyped
<1>2. /\ count[r] = IF full THEN Size ELSE pos
      /\ start[r] = IF full THEN pos ELSE 0
  BY DEF Exact, ExactScan, Counted, Scanning
<1>3. Len(Contents) = count[r]
  BY <1>1, <1>2, ContentsNumbered
<1>4. i[r] + 1 \in 1 .. count[r]
  BY <1>0
<1>5. Contents[i[r] + 1]
          = events[IF full THEN IF pos + (i[r] + 1) - 1 < Size THEN pos + (i[r] + 1) - 1
                                ELSE pos + (i[r] + 1) - 1 - Size
                   ELSE (i[r] + 1) - 1]
  <2>1. full \in BOOLEAN
    BY <1>0 DEF RingTyped
  <2> QED BY <1>0, <1>1, <1>2, <1>4, <2>1, ContentsShape DEF Contents
<1>6. /\ Visited(r) \in Slots
      /\ Visited(r) = IF start[r] + i[r] < Size THEN start[r] + i[r]
                      ELSE start[r] + i[r] - Size
  BY <1>0, VisitedSlot
<1>7. Contents[i[r] + 1] = events[Visited(r)]
  <2>1. pos \in Int /\ i[r] \in Int
    BY <1>0 DEF Slots
  <2>2. CASE full
    BY <1>2, <1>5, <1>6, <2>1, <2>2
  <2>3. CASE ~full
    <3>1. i[r] < Size
      BY <1>0
    <3> QED BY <1>2, <1>5, <1>6, <2>1, <2>3, <3>1
  <2> QED BY <2>2, <2>3
<1> QED BY <1>0, <1>1, <1>3, <1>4, <1>6, <1>7 DEF Overwriting, Slot

\* A scan that has visited nothing has returned nothing, one that visits a
\* missing event returns it next, one that visits another returns nothing more.
LEMMA ReturnedNext ==
  ASSUME NEW C \in Seq(Slot), NEW f \in Nat \ {0}, NEW n \in Nat
  PROVE  /\ Returned(C, 0, f) = <<>>
         /\ n + 1 < f => Returned(C, n + 1, f) = Returned(C, n, f)
         /\ n + 1 >= f /\ n + 1 <= Len(C) =>
               Returned(C, n + 1, f) = Append(Returned(C, n, f), C[n + 1].Event)
<1>1. Returned(C, 0, f) = <<>>
  <2>1. ~(0 >= f)
    OBVIOUS
  <2> QED BY <2>1 DEF Returned
<1>2. n + 1 < f => Returned(C, n + 1, f) = Returned(C, n, f)
  <2>1. n + 1 < f => ~(n + 1 >= f) /\ ~(n >= f)
    OBVIOUS
  <2> QED BY <2>1 DEF Returned
<1>3. ASSUME n + 1 >= f, n + 1 <= Len(C)
      PROVE  Returned(C, n + 1, f) = Append(Returned(C, n, f), C[n + 1].Event)
  <2> DEFINE l == IF n >= f THEN n - f + 1 ELSE 0
             x == C[n + 1].Event
             R == Returned(C, n, f)
             Q == Returned(C, n + 1, f)
  <2>0. Len(C) \in Nat /\ \A k \in 1 .. Len(C) : C[k].Event \in Numbers
    <3>1. Len(C) \in Nat /\ \A k \in 1 .. Len(C) : C[k] \in Slot
      BY LenProperties, ElementOfSeq
    <3> QED BY <3>1 DEF Slot
  <2>1. l \in Nat /\ (IF n + 1 >= f THEN n + 1 - f + 1 ELSE 0) = l + 1 /\ f + l = n + 1
    BY <1>3
  <2>2. R = [m \in 1 .. l |-> C[f + m - 1].Event]
    BY DEF Returned
  <2>3. Q = [m \in 1 .. l + 1 |-> C[f + m - 1].Event]
    BY <2>1 DEF Returned
  <2> HIDE DEF l, R, Q
  <2>4. \A m \in 1 .. l + 1 : f + m - 1 \in 1 .. Len(C)
    BY <1>3, <2>0, <2>1
  <2>5. R \in Seq(Numbers) /\ Len(R) = l
    <3>1. R \in [1 .. l -> Numbers]
      BY <2>0, <2>1, <2>2, <2>4
    <3> QED BY <2>1, <3>1, SeqDef
  <2>6. Q \in Seq(Numbers) /\ Len(Q) = l + 1
    <3>1. Q \in [1 .. l + 1 -> Numbers]
      BY <2>0, <2>3, <2>4
    <3>2. l + 1 \in Nat
      BY <2>1
    <3> QED BY <3>1, <3>2, SeqDef
  <2>7. x \in Numbers /\ Q[l + 1] = x
    <3>1. l + 1 \in 1 .. l + 1 /\ f + (l + 1) - 1 = n + 1 /\ n + 1 \in 1 .. Len(C)
      BY <1>3, <2>0, <2>1
    <3> HIDE DEF x
    <3>2. Q[l + 1] = C[f + (l + 1) - 1].Event
      BY <2>3, <3>1
    <3> QED BY <2>0, <3>1, <3>2 DEF x
  <2> HIDE DEF x
  <2>8. /\ Append(R, x) \in Seq(Numbers) /\ Len(Append(R, x)) = l + 1
        /\ \A m \in 1 .. l : Append(R, x)[m] = R[m]
        /\ Append(R, x)[l + 1] = x
    BY <2>5, <2>7, AppendProperties
  <2>9. \A m \in 1 .. l : Q[m] = R[m]
    BY <2>1, <2>2, <2>3
  <2>10. \A m \in 1 .. l + 1 : Q[m] = Append(R, x)[m]
    BY <2>1, <2>7, <2>8, <2>9
  <2>11. Q = Append(R, x)
    BY <2>6, <2>8, <2>10, SeqEqual
  <2> QED BY <2>11 DEF x, R, Q
<1> QED BY <1>1, <1>2, <1>3
LEMMA ExactStep ==
  ASSUME ScanInvariant, \A r \in Readers : Exact(r), [Next]_vars
  PROVE  \A r \in Readers : Exact(r)'
<1>0. /\ RingTyped /\ ReadersTyped /\ seq \in Nat /\ pos \in 0 .. Size - 1
      /\ full \in BOOLEAN
  BY DEF ScanInvariant, RingInvariant, RingTyped, Numbers, Slots
\* An addition that ends leaves the reader behind, one under way counts.
<1>1. ASSUME Add, NEW r \in Readers PROVE ~Quiet(r)'
  <2> SUFFICES ASSUME Quiet(r)' PROVE FALSE
    OBVIOUS
  <2>1. at' = at /\ began' = began
    BY <1>1, AddFrame DEF locals
  <2>2. writer # "idle" /\ seq' = seq
    BY <1>1 DEF Quiet, Add, BeginAdd, StorePart, StorePos, StoreFull
  <2>3. at[r] # "idle" /\ seq = began[r]
    BY <2>1, <2>2 DEF Quiet
  <2>4. began[r] <= Added
    BY <2>3 DEF ScanInvariant, ReaderShape
  <2> QED BY <1>0, <2>2, <2>3, <2>4 DEF Added
\* What is to be shown of a step that leaves the buffer alone.
<1>2. ASSUME UNCHANGED <<ring, adding>>, NEW r \in Readers,
             Quiet(r)' => ExactScan(Contents, full, pos, at'[r],
                                    Log!FirstAfter(Contents, afterSeq'[r]),
                                    count'[r], start'[r], i'[r], result'[r])
      PROVE  Exact(r)'
  <2>1. full' = full /\ pos' = pos
    BY <1>2 DEF ring
  <2>2. Contents' = Contents
    <3>1. /\ SettledEvents' = SettledEvents /\ SettledPos' = SettledPos
          /\ SettledFull' = SettledFull
      BY <1>2 DEF ring, adding, SettledEvents, SettledPos, SettledFull, NextPos
    <3> QED BY <3>1 DEF Contents, ContentsOf
  <2>3. Exact(r)' = (Quiet(r)' => ExactScan(Contents', full', pos', at'[r],
                                    Log!FirstAfter(Contents', afterSeq'[r]),
                                    count'[r], start'[r], i'[r], result'[r]))
    BY DEF Exact
  <2> QED BY <1>2, <2>1, <2>2, <2>3
<1>3. ASSUME NEW q \in Readers, Read(q), NEW r \in Readers PROVE Exact(r)'
  <2>0. UNCHANGED <<ring, adding>> /\ seq' = seq /\ writer' = writer
    BY <1>0, <1>3, ReadFrame DEF ring, adding
  <2>1. Exact(r)
    OBVIOUS
  <2>2. CASE r # q
    <3>1. /\ at'[r] = at[r] /\ afterSeq'[r] = afterSeq[r]
          /\ count'[r] = count[r] /\ start'[r] = start[r] /\ i'[r] = i[r]
          /\ result'[r] = result[r] /\ began'[r] = began[r]
      BY <1>0, <1>3, <2>2, ReadFrame
    <3> QED BY <1>2, <2>0, <2>1, <3>1 DEF Exact, Quiet
  <2>3. CASE r = q
    <3> DEFINE f == Log!FirstAfter(Contents, afterSeq[r])
    <3>0. /\ i[r] \in 0 .. Size /\ at[r] \in Loads /\ count[r] \in 0 .. Size
          /\ Contents \in Seq(Slot)
      BY <1>0, ContentsNumbered DEF ReadersTyped
    <3>1. f \in Nat \ {0} /\ \A m \in 1 .. Len(Contents) :
                                 Contents[m].Sequence > afterSeq[r] <=> m >= f
      <4>1. afterSeq[r] \in Nat
        BY <1>0 DEF ReadersTyped
      <4>2. f \in 1 .. Len(Contents) + 1
        BY <4>1, FirstAfterNumbered
      <4>3. \A m \in 1 .. Len(Contents) : Contents[m].Sequence > afterSeq[r] <=> m >= f
        BY <4>1, FirstAfterNumbered
      <4> HIDE DEF f
      <4> QED BY <4>2, <4>3
    <3> HIDE DEF f
    <3>2. at[r] \notin Scanning => i[r] = 0 /\ start[r] = 0 /\ result[r] = <<>>
      BY DEF ScanInvariant, ReaderShape
    <3>3. Returned(Contents, 0, f) = <<>>
      BY <3>0, <3>1, ReturnedNext
    \* The same, of a step after the first.
    <3>4. ASSUME at[r] # "idle", UNCHANGED <<afterSeq, began>>,
                 ASSUME Quiet(r), ExactScan(Contents, full, pos, at[r], f, count[r],
                                            start[r], i[r], result[r])
                 PROVE  ExactScan(Contents, full, pos, at'[r], f, count'[r],
                                  start'[r], i'[r], result'[r])
          PROVE  Exact(r)'
      <4>1. Quiet(r)' => Quiet(r)
        BY <2>0, <3>4 DEF Quiet
      <4>2. Quiet(r) => ExactScan(Contents, full, pos, at[r], f, count[r],
                                  start[r], i[r], result[r])
        BY <2>1 DEF Exact, f
      <4> QED BY <1>2, <2>0, <3>4, <4>1, <4>2 DEF f
    <3>5. ASSUME NEW n \in Asked, Begin(r, n) PROVE Exact(r)'
      <4>1. at'[r] = "full"
        BY <1>0, <3>5 DEF Begin, ReadersTyped
      <4> QED BY <1>2, <2>0, <4>1 DEF ExactScan, Counted, Scanning
    <3>6. CASE LoadFull(r)
      <4>1. /\ at'[r] = IF full THEN "startFull" ELSE "pos"
            /\ count'[r] = Size /\ at[r] = "full" /\ UNCHANGED <<afterSeq, began>>
        BY <1>0, <3>6 DEF LoadFull, ReadersTyped
      <4>2. ExactScan(Contents, full, pos, at'[r], f, count'[r], start'[r], i'[r], result'[r])
        BY <4>1 DEF ExactScan, Counted, Scanning
      <4> QED BY <3>4, <4>1, <4>2
    <3>7. CASE LoadPos(r)
      <4>1. /\ at'[r] = "startFull" /\ count'[r] = pos /\ at[r] = "pos"
            /\ UNCHANGED <<afterSeq, began>>
        BY <1>0, <3>7 DEF LoadPos, ReadersTyped
      <4>2. ExactScan(Contents, full, pos, at[r], f, count[r], start[r], i[r], result[r])
               => ExactScan(Contents, full, pos, at'[r], f, count'[r], start'[r], i'[r],
                            result'[r])
        BY <4>1 DEF ExactScan, Counted, Scanning
      <4> QED BY <3>4, <4>1, <4>2
    <3>8. CASE LoadStartFull(r)
      <4>1. PICK isFull \in {full, count[r] = Size} :
               at' = [at EXCEPT ![r] = IF isFull THEN "startPos" ELSE "sequence"]
        BY <3>8 DEF LoadStartFull
      <4>2. /\ at'[r] = IF isFull THEN "startPos" ELSE "sequence"
            /\ at[r] = "startFull" /\ UNCHANGED <<afterSeq, began, count, start, i, result>>
        BY <1>0, <3>8, <4>1 DEF LoadStartFull, ReadersTyped
      <4>3. i[r] = 0 /\ start[r] = 0 /\ result[r] = <<>>
        BY <3>2, <4>2 DEF Scanning
      <4>4. ASSUME ExactScan(Contents, full, pos, at[r], f, count[r], start[r], i[r], result[r])
            PROVE  ExactScan(Contents, full, pos, at'[r], f, count'[r], start'[r], i'[r],
                             result'[r])
        <5>1. count[r] = IF full THEN Size ELSE pos
          BY <4>2, <4>4 DEF ExactScan, Counted
        <5>2. isFull = full
          BY <1>0, <4>1, <5>1
        <5> QED BY <3>3, <4>2, <4>3, <5>1, <5>2 DEF ExactScan, Counted, Scanning
      <4> QED BY <3>4, <4>2, <4>4
    <3>9. CASE LoadStartPos(r)
      <4>1. /\ at'[r] = "sequence" /\ at[r] = "startPos" /\ start'[r] = pos
            /\ UNCHANGED <<afterSeq, began, count, i, result>>
        BY <1>0, <3>9 DEF LoadStartPos, ReadersTyped
      <4>2. i[r] = 0 /\ result[r] = <<>>
        BY <3>2, <4>1 DEF Scanning
      <4>3. ExactScan(Contents, full, pos, at[r], f, count[r], start[r], i[r], result[r])
               => ExactScan(Contents, full, pos, at'[r], f, count'[r], start'[r], i'[r],
                            result'[r])
        BY <3>3, <4>1, <4>2 DEF ExactScan, Counted, Scanning
      <4> QED BY <3>4, <4>1, <4>3
    <3>10. CASE LoadSequence(r)
      <4>1. /\ at[r] = "sequence" /\ i[r] < count[r]
            /\ UNCHANGED <<afterSeq, began, count, start, result>>
        BY <3>10 DEF LoadSequence
      <4>2. IF events[Visited(r)].Sequence > afterSeq[r]
            THEN at'[r] = "event" /\ i'[r] = i[r]
            ELSE at'[r] = "sequence" /\ i'[r] = i[r] + 1
        BY <1>0, <3>10 DEF LoadSequence, Newer, ReadersTyped
      <4>3. ASSUME Quiet(r),
                   ExactScan(Contents, full, pos, at[r], f, count[r], start[r], i[r], result[r])
            PROVE  ExactScan(Contents, full, pos, at'[r], f, count'[r], start'[r], i'[r],
                             result'[r])
        <5>1. i[r] + 1 \in 1 .. Len(Contents) /\ Contents[i[r] + 1] = events[Visited(r)]
          BY <2>1, <4>1, <4>3, QuietVisit
        <5>2. events[Visited(r)].Sequence > afterSeq[r] <=> i[r] + 1 >= f
          BY <3>1, <5>1
        <5>3. i[r] + 1 < f => Returned(Contents, i[r] + 1, f) = Returned(Contents, i[r], f)
          BY <3>0, <3>1, ReturnedNext
        <5>4. /\ count[r] = IF full THEN Size ELSE pos
              /\ start[r] = IF full THEN pos ELSE 0
              /\ result[r] = Returned(Contents, i[r], f)
          BY <4>1, <4>3 DEF ExactScan, Counted, Scanning
        <5>5. CASE i[r] + 1 >= f
          BY <4>1, <4>2, <5>2, <5>4, <5>5 DEF ExactScan
        <5>6. CASE ~(i[r] + 1 >= f)
          <6>1. i[r] + 1 < f
            BY <3>0, <3>1, <5>6
          <6> QED BY <4>1, <4>2, <5>2, <5>3, <5>4, <5>6, <6>1 DEF ExactScan
        <5> QED BY <5>5, <5>6
      <4> QED BY <3>4, <4>1, <4>3
    <3>11. CASE LoadEvent(r)
      <4>1. /\ at[r] = "event" /\ at'[r] = "sequence" /\ i'[r] = i[r] + 1
            /\ UNCHANGED <<afterSeq, began, count, start>>
        BY <1>0, <3>11 DEF LoadEvent, ReadersTyped
      <4>2. i[r] < count[r]
        BY <4>1 DEF ScanInvariant, ReaderShape
      <4>3. PICK e \in {events[Visited(r)].Event}
                          \union (IF Overwriting(Visited(r)) THEN {Torn} ELSE {}) :
               result'[r] = Append(result[r], e)
        BY <1>0, <3>11 DEF LoadEvent, ReadersTyped
      <4>4. ASSUME Quiet(r),
                   ExactScan(Contents, full, pos, at[r], f, count[r], start[r], i[r], result[r])
            PROVE  ExactScan(Contents, full, pos, at'[r], f, count'[r], start'[r], i'[r],
                             result'[r])
        <5>1. /\ i[r] + 1 \in 1 .. Len(Contents) /\ Contents[i[r] + 1] = events[Visited(r)]
              /\ ~Overwriting(Visited(r))
          BY <2>1, <4>1, <4>2, <4>4, QuietVisit
        <5>2. e = Contents[i[r] + 1].Event
          BY <4>3, <5>1
        <5>3. /\ count[r] = IF full THEN Size ELSE pos
              /\ start[r] = IF full THEN pos ELSE 0
              /\ result[r] = Returned(Contents, i[r], f) /\ i[r] + 1 >= f
          BY <4>1, <4>4 DEF ExactScan, Counted, Scanning
        <5>4. i[r] + 1 <= Len(Contents)
          BY <5>1
        <5>5. Returned(Contents, i[r] + 1, f)
                 = Append(Returned(Contents, i[r], f), Contents[i[r] + 1].Event)
          BY <3>0, <3>1, <5>3, <5>4, ReturnedNext
        <5>6. result'[r] = Returned(Contents, i'[r], f)
          BY <4>1, <4>3, <5>2, <5>3, <5>5
        <5> QED BY <4>1, <5>3, <5>6 DEF ExactScan
      <4> QED BY <3>4, <4>1, <4>4
    <3>12. CASE Finish(r)
      <4>1. /\ at[r] = "sequence" /\ at'[r] = "done"
            /\ UNCHANGED <<afterSeq, began, count, start, i, result>>
        BY <1>0, <3>12 DEF Finish, ReadersTyped
      <4>2. ExactScan(Contents, full, pos, at[r], f, count[r], start[r], i[r], result[r])
               => ExactScan(Contents, full, pos, at'[r], f, count'[r], start'[r], i'[r],
                            result'[r])
        BY <4>1 DEF ExactScan, Counted, Scanning
      <4> QED BY <3>4, <4>1, <4>2
    <3> QED BY <1>3, <2>3, <3>5, <3>6, <3>7, <3>8, <3>9, <3>10, <3>11, <3>12 DEF Read
  <2> QED BY <2>2, <2>3
<1>4. ASSUME UNCHANGED vars, NEW r \in Readers PROVE Exact(r)'
  <2>1. UNCHANGED <<ring, adding, at, afterSeq, count, start, i, result, began>>
    BY <1>4 DEF vars, locals
  <2>2. Quiet(r)' = Quiet(r)
    BY <2>1 DEF Quiet, ring, adding
  <2>3. Exact(r)
    OBVIOUS
  <2> QED BY <1>2, <2>1, <2>2, <2>3 DEF Exact
<1>5. \A r \in Readers : ~Quiet(r)' => Exact(r)'
  BY DEF Exact
<1> QED BY <1>1, <1>3, <1>4, <1>5 DEF Next

\* A scan that no addition overlaps returns exactly what its client is missing.
THEOREM UnracedScanCorrect == Spec => []UnracedScanIsExact
<1> DEFINE I == ScanInvariant /\ \A r \in Readers : Exact(r)
<1>1. Init => I
  BY ScanInit DEF Init, Exact, Quiet
<1>2. I /\ [Next]_vars => I'
  BY ScanStep, ExactStep
<1>3. I => UnracedScanIsExact
  <2> SUFFICES ASSUME ScanInvariant, NEW r \in Readers, Exact(r), at[r] = "done",
                      seq = began[r], writer = "idle"
               PROVE  LET missed == Log!After(Contents, afterSeq[r])
                      IN  result[r] = [k \in DOMAIN missed |-> missed[k].Event]
    BY DEF UnracedScanIsExact
  <2> DEFINE f == Log!FirstAfter(Contents, afterSeq[r])
             L == Len(Contents)
             missed == SubSeq(Contents, f, L)
  <2>1. Contents \in Seq(Slot) /\ L \in Nat /\ f \in 1 .. L + 1
    <3>1. afterSeq[r] \in Nat
      BY DEF ScanInvariant, ReadersTyped
    <3> QED BY <3>1, ContentsNumbered, FirstAfterNumbered, LenProperties
  <2>2. /\ result[r] = Returned(Contents, i[r], f)
        /\ count[r] = IF full THEN Size ELSE pos
    BY DEF Exact, Quiet, ExactScan, Counted, Scanning
  <2>3. i[r] = L
    <3>1. i[r] = count[r]
      BY DEF ScanInvariant, ReaderShape
    <3>2. full \in BOOLEAN
      BY DEF ScanInvariant, RingInvariant, RingTyped
    <3>3. SettledPos = pos /\ SettledFull = full
      BY <3>2 DEF SettledPos, SettledFull
    <3> QED BY <2>2, <3>1, <3>3, ContentsNumbered
  <2>4. /\ Len(missed) = IF L >= f THEN L - f + 1 ELSE 0
        /\ \A m \in 1 .. Len(missed) : missed[m] = Contents[f + m - 1]
        /\ DOMAIN missed = 1 .. Len(missed)
    <3> HIDE DEF f
    <3>1. CASE f <= L
      <4>1. f \in 1 .. L + 1 /\ L \in f - 1 .. L
        BY <2>1, <3>1
      <4>2. /\ missed \in Seq(Slot) /\ Len(missed) = L - f + 1
            /\ \A m \in 1 .. L - f + 1 : missed[m] = Contents[f + m - 1]
        BY <2>1, <4>1, SubSeqProperties
      <4> QED BY <2>1, <3>1, <4>2
    <3>2. CASE f = L + 1
      <4>1. /\ missed \in Seq(Slot) /\ Len(missed) = L - f + 1
            /\ \A m \in 1 .. L - f + 1 : missed[m] = Contents[f + m - 1]
        BY <2>1, <3>2, SubSeqProperties
      <4> QED BY <2>1, <3>2, <4>1
    <3> QED BY <2>1, <3>1, <3>2
  <2> HIDE DEF f, L, missed
  <2>5. Returned(Contents, L, f) = [k \in DOMAIN missed |-> missed[k].Event]
    BY <2>4 DEF Returned
  <2>6. missed = Log!After(Contents, afterSeq[r])
    BY DEF missed, f, L, Log!After
  <2> QED BY <2>2, <2>3, <2>5, <2>6
<1> QED BY <1>1, <1>2, <1>3, PTL DEF Spec

=============================================================================
