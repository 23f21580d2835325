-------------------------- MODULE SnowflakeProofs ---------------------------
(***************************************************************************)
(* Ids increase and never repeat, for any number of generators and any     *)
(* widths of the fields, until the clock steps back.                       *)
(***************************************************************************)
EXTENDS Snowflake, TLAPS

USE SizesAssumption, NumbersAssumption, BoundsAssumption

\* A number times a unit, plus less than a unit, is ordered as the number is.
LEMMA UnitOrder ==
  ASSUME NEW k \in Nat \ {0}, NEW a \in Nat, NEW b \in Nat, a < b,
         NEW r \in 0 .. k - 1, NEW s \in 0 .. k - 1
  PROVE  a * k + r < b * k + s
<1>1. (b - a) * k >= k
  <2>1. b - a >= 1
    OBVIOUS
  <2> QED BY <2>1, SMTT(30)
<1>2. b * k - a * k = (b - a) * k
  BY SMTT(30)
<1>3. a * k \in Int /\ b * k \in Int
  OBVIOUS
<1> QED BY <1>1, <1>2, <1>3

\* Two numbers packed with the same unit are equal field by field.
LEMMA UnitInjective ==
  ASSUME NEW k \in Nat \ {0}, NEW a \in Nat, NEW b \in Nat,
         NEW r \in 0 .. k - 1, NEW s \in 0 .. k - 1,
         a * k + r = b * k + s
  PROVE  a = b /\ r = s
<1>1. ~(a < b) /\ ~(b < a)
  <2>1. a * k \in Int /\ b * k \in Int
    OBVIOUS
  <2> QED BY <2>1, UnitOrder
<1>2. a = b
  BY <1>1
<1>3. a * k \in Int
  OBVIOUS
<1> QED BY <1>2, <1>3

\* A field of w values above one of k values fits in w * k.
LEMMA FieldFits ==
  ASSUME NEW w \in Nat \ {0}, NEW k \in Nat \ {0},
         NEW a \in 0 .. w - 1, NEW r \in 0 .. k - 1
  PROVE  a * k + r \in 0 .. (w * k) - 1
<1>1. w * k - a * k = (w - a) * k
  BY SMTT(30)
<1>2. (w - a) * k >= k
  <2>1. w - a >= 1
    OBVIOUS
  <2> QED BY <2>1, SMTT(30)
<1>3. a * k \in Nat /\ w * k \in Nat
  BY SMTT(30)
<1> QED BY <1>1, <1>2, <1>3

-----------------------------------------------------------------------------
SequenceNumbers == 0 .. SequenceSize - 1

\* The fields below the millisecond.
Low(g, n) ==
    workerID[g] * (ProcessSize * SequenceSize)
        + (processID[g] * SequenceSize + n)

\* The sizes of the fields below the worker number and below the millisecond.
LEMMA Units ==
  /\ ProcessSize * SequenceSize \in Nat \ {0}
  /\ TimestampUnit \in Nat \ {0}
<1>1. \A a, b \in Nat \ {0} : a * b \in Nat \ {0}
  BY SMTT(30)
<1>2. ProcessSize * SequenceSize \in Nat \ {0}
  BY <1>1
<1>3. WorkerSize * (ProcessSize * SequenceSize) \in Nat \ {0}
  BY <1>1, <1>2
<1> QED BY <1>2, <1>3 DEF TimestampUnit

LEMMA LowFits ==
  ASSUME NEW g \in Generators, NEW n \in SequenceNumbers
  PROVE  /\ processID[g] * SequenceSize + n
                \in 0 .. (ProcessSize * SequenceSize) - 1
         /\ Low(g, n) \in 0 .. TimestampUnit - 1
<1>1. processID[g] * SequenceSize + n \in 0 .. (ProcessSize * SequenceSize) - 1
  BY FieldFits DEF SequenceNumbers
<1>2. workerID[g] \in 0 .. WorkerSize - 1
  OBVIOUS
<1> DEFINE k == ProcessSize * SequenceSize
           r == processID[g] * SequenceSize + n
<1>3. k \in Nat \ {0} /\ r \in 0 .. k - 1
  BY <1>1, Units
<1> HIDE DEF k, r
<1>4. workerID[g] * k + r \in 0 .. (WorkerSize * k) - 1
  BY <1>2, <1>3, FieldFits
<1> QED BY <1>1, <1>4 DEF Low, TimestampUnit, k, r

LEMMA PackType ==
  ASSUME NEW g \in Generators, NEW t \in Nat, NEW n \in SequenceNumbers
  PROVE  /\ Pack(g, t, n) = t * TimestampUnit + Low(g, n)
         /\ Pack(g, t, n) \in Nat
         /\ t # 0 => Pack(g, t, n) > 0
<1>1. Pack(g, t, n) = t * TimestampUnit + Low(g, n)
  BY DEF Pack, Low
<1>2. Low(g, n) \in Nat /\ TimestampUnit \in Nat \ {0}
  BY LowFits, Units
<1>3. \A a, b \in Nat \ {0} : a * b \in Nat \ {0}
  BY SMTT(30)
<1>4. t * TimestampUnit \in Nat /\ (t # 0 => t * TimestampUnit > 0)
  BY <1>2, <1>3
<1> QED BY <1>1, <1>2, <1>4

\* A later millisecond makes a greater id, whatever the other fields.
LEMMA PackOrder ==
  ASSUME NEW g \in Generators, NEW t \in Nat, NEW n \in SequenceNumbers,
         NEW u \in Nat, NEW m \in SequenceNumbers, t < u
  PROVE  Pack(g, t, n) < Pack(g, u, m)
<1>1. Low(g, n) \in 0 .. TimestampUnit - 1 /\ Low(g, m) \in 0 .. TimestampUnit - 1
  BY LowFits
<1>2. t * TimestampUnit + Low(g, n) < u * TimestampUnit + Low(g, m)
  BY <1>1, Units, UnitOrder
<1> QED BY <1>2, PackType

\* Within a millisecond the sequence number orders the ids.
LEMMA PackNext ==
  ASSUME NEW g \in Generators, NEW t \in Nat, NEW n \in SequenceNumbers,
         NEW m \in SequenceNumbers, n < m
  PROVE  Pack(g, t, n) < Pack(g, t, m)
<1>1. /\ t * TimestampUnit \in Int /\ processID[g] * SequenceSize \in Int
      /\ workerID[g] * (ProcessSize * SequenceSize) \in Int
  BY Units
<1>2. n \in Int /\ m \in Int
  BY DEF SequenceNumbers
<1> DEFINE a == t * TimestampUnit
           b == processID[g] * SequenceSize
           w == workerID[g] * (ProcessSize * SequenceSize)
<1>3. Pack(g, t, n) = a + (w + (b + n)) /\ Pack(g, t, m) = a + (w + (b + m))
  BY DEF Pack
<1> HIDE DEF a, b, w
<1>4. a \in Int /\ b \in Int /\ w \in Int
  BY <1>1 DEF a, b, w
<1> QED BY <1>2, <1>3, <1>4

\* Equal ids have equal fields.
LEMMA PackInjective ==
  ASSUME NEW g \in Generators, NEW t \in Nat, NEW n \in SequenceNumbers,
         NEW h \in Generators, NEW u \in Nat, NEW m \in SequenceNumbers,
         Pack(g, t, n) = Pack(h, u, m)
  PROVE  g = h
<1>1. Low(g, n) \in 0 .. TimestampUnit - 1 /\ Low(h, m) \in 0 .. TimestampUnit - 1
  BY LowFits
<1>2. t * TimestampUnit + Low(g, n) = u * TimestampUnit + Low(h, m)
  BY PackType
<1>3. Low(g, n) = Low(h, m)
  BY <1>1, <1>2, Units, UnitInjective
<1> DEFINE k == ProcessSize * SequenceSize
           r == processID[g] * SequenceSize + n
           s == processID[h] * SequenceSize + m
           a == workerID[g]
           b == workerID[h]
<1>4. r \in 0 .. k - 1 /\ s \in 0 .. k - 1 /\ k \in Nat \ {0}
  BY LowFits, Units
<1>5. a * k + r = b * k + s
  BY <1>3 DEF Low
<1>6. a \in Nat /\ b \in Nat
  OBVIOUS
<1> HIDE DEF k, r, s, a, b
<1>7. a = b /\ r = s
  BY <1>4, <1>5, <1>6, UnitInjective
<1>8. processID[g] * SequenceSize + n = processID[h] * SequenceSize + m
  BY <1>7 DEF r, s
<1>9. processID[g] \in Nat /\ processID[h] \in Nat
  OBVIOUS
<1>10. processID[g] = processID[h]
  BY <1>8, <1>9, UnitInjective DEF SequenceNumbers
<1> QED BY <1>7, <1>10, DistinctAssumption DEF a, b

-----------------------------------------------------------------------------
\* Where the latest id of g stands against the clock: in an earlier millisecond
\* when the generator has not used this one, in this one otherwise.
LatestShape(g) ==
    /\ lastTime[g] <= clock
    /\ \/ latest[g] = 0 /\ lastTime[g] # clock
       \/ \E t \in 1 .. clock, n \in SequenceNumbers :
             /\ latest[g] = Pack(g, t, n)
             /\ lastTime[g] # clock => t < clock
             /\ lastTime[g] = clock =>
                   t = clock /\ (~spinning[g] => n = sequence[g])

\* Every id came from a generator that has not gone below it since.
IssuedShape ==
    \A id \in issued : \E g \in Generators, t \in Nat, n \in SequenceNumbers :
        id = Pack(g, t, n) /\ id <= latest[g]

Ordered == (\A g \in Generators : LatestShape(g)) /\ IssuedShape

IInv == TypeOK /\ (~setBack => Ordered)

\* What a call that returns does: it returns an id greater than the latest.
Returns(g, now, n) ==
    /\ now = clock
    /\ n \in SequenceNumbers
    /\ Return(g, now, n)
    /\ spinning' = [spinning EXCEPT ![g] = FALSE]
    /\ Pack(g, now, n) > latest[g]

LEMMA ReturnsGreater ==
  ASSUME TypeOK, Ordered, NEW g \in Generators, GenerateFresh(g) \/ GenerateNext(g) \/ EndSpin(g)
  PROVE  \E n \in SequenceNumbers : Returns(g, clock, n)
<1> USE DEF Ordered, TypeOK
<1>1. LatestShape(g) /\ clock \in Nat \ {0}
  OBVIOUS
<1>2. 0 \in SequenceNumbers
  BY DEF SequenceNumbers
<1>3. ASSUME lastTime[g] # clock PROVE Pack(g, clock, 0) > latest[g]
  <2>1. CASE latest[g] = 0
    BY <1>1, <1>2, <2>1, PackType
  <2>2. CASE latest[g] # 0
    <3>1. PICK t \in 1 .. clock, n \in SequenceNumbers :
              latest[g] = Pack(g, t, n) /\ t < clock
      BY <1>1, <1>3, <2>2 DEF LatestShape
    <3>2. Pack(g, t, n) < Pack(g, clock, 0)
      BY <1>1, <1>2, <3>1, PackOrder
    <3> QED BY <1>1, <1>2, <3>1, <3>2, PackType
  <2> QED BY <2>1, <2>2
<1>4. CASE GenerateFresh(g)
  <2>1. lastTime[g] # clock /\ Return(g, clock, 0)
    BY <1>4 DEF GenerateFresh
  <2>2. spinning' = [spinning EXCEPT ![g] = FALSE]
    BY <1>4 DEF GenerateFresh
  <2> QED BY <1>2, <1>3, <2>1, <2>2 DEF Returns
<1>5. CASE EndSpin(g)
  <2>1. lastTime[g] # clock /\ Return(g, clock, 0)
    BY <1>1, <1>5 DEF EndSpin, Later
  <2>2. spinning' = [spinning EXCEPT ![g] = FALSE]
    BY <1>5 DEF EndSpin
  <2> QED BY <1>2, <1>3, <2>1, <2>2 DEF Returns
<1>6. CASE GenerateNext(g)
  <2>1. lastTime[g] = clock /\ Return(g, clock, Following(g)) /\ Following(g) # 0
    BY <1>6 DEF GenerateNext, Exhausted
  <2>2. ~spinning[g] /\ spinning' = [spinning EXCEPT ![g] = FALSE]
    BY <1>6 DEF GenerateNext
  <2>3. /\ sequence[g] \in SequenceNumbers
        /\ Following(g) = sequence[g] + 1
        /\ Following(g) \in SequenceNumbers
    BY <2>1 DEF Following, SequenceNumbers
  <2>4. latest[g] = Pack(g, clock, sequence[g])
    BY <1>1, <2>1, <2>2 DEF LatestShape
  <2>5. Pack(g, clock, sequence[g]) < Pack(g, clock, Following(g))
    BY <1>1, <2>3, PackNext DEF SequenceNumbers
  <2>6. Pack(g, clock, Following(g)) > latest[g]
    BY <1>1, <2>3, <2>4, <2>5, PackType
  <2> QED BY <2>1, <2>2, <2>3, <2>6 DEF Returns
<1> QED BY <1>4, <1>5, <1>6

LEMMA InitInv == Init => IInv
<1> SUFFICES ASSUME Init PROVE IInv
  OBVIOUS
<1>1. TypeOK
  <2>1. setBack \in BOOLEAN
    BY Zenon DEF Init
  <2> QED BY <2>1 DEF Init, TypeOK
<1>2. Ordered
  BY DEF Init, Ordered, LatestShape, IssuedShape
<1> QED BY <1>1, <1>2 DEF IInv

\* Only StepBack disturbs the order.
LEMMA StepKeepsOrder ==
  ASSUME TypeOK, Ordered, [Next]_vars, ~StepBack
  PROVE  Ordered'
<1> USE DEF Ordered, TypeOK
<1>0. \A g \in Generators : LatestShape(g)
  OBVIOUS
<1>1. ASSUME NEW g \in Generators, NEW n \in SequenceNumbers, Returns(g, clock, n)
      PROVE  Ordered'
  <2> DEFINE id == Pack(g, clock, n)
  <2>1. /\ sequence' = [sequence EXCEPT ![g] = n]
        /\ lastTime' = [lastTime EXCEPT ![g] = clock]
        /\ latest' = [latest EXCEPT ![g] = id]
        /\ issued' = issued \union {id}
        /\ calls' = [calls EXCEPT ![g] = @ + 1]
        /\ spinning' = [spinning EXCEPT ![g] = FALSE]
        /\ clock' = clock
        /\ id > latest[g]
    BY <1>1 DEF Returns, Return
  <2>2. id \in Nat
    BY PackType
  <2>3. Pack(g, clock, n)' = Pack(g, clock, n)
    BY <2>1 DEF Pack
  <2> HIDE DEF id
  <2>5. ASSUME NEW h \in Generators PROVE LatestShape(h)'
    <3>1. CASE h = g
      <4>1. clock \in 1 .. clock
        OBVIOUS
      <4>2. /\ latest'[h] = Pack(h, clock, n) /\ lastTime'[h] = clock
            /\ sequence'[h] = n /\ clock' = clock
        BY <2>1, <3>1 DEF id
      <4> QED BY <4>1, <4>2 DEF LatestShape, Pack
    <3>2. CASE h # g
      BY <1>0, <2>1, <3>2 DEF LatestShape, Pack
    <3> QED BY <3>1, <3>2
  <2>6. IssuedShape'
    <3> SUFFICES ASSUME NEW x \in issued'
                 PROVE  \E h \in Generators, t \in Nat, m \in SequenceNumbers :
                            x = Pack(h, t, m) /\ x <= latest'[h]
      BY DEF IssuedShape, Pack
    <3>1. CASE x = id
      BY <2>1, <2>2, <3>1 DEF id
    <3>2. CASE x # id
      <4>1. PICK h \in Generators, t \in Nat, m \in SequenceNumbers :
                x = Pack(h, t, m) /\ x <= latest[h]
        BY <2>1, <3>2 DEF IssuedShape
      <4>2. x <= latest'[h]
        <5>1. x \in Nat
          BY <2>1, <3>2
        <5> QED BY <2>1, <2>2, <4>1, <5>1
      <4> QED BY <4>1, <4>2
    <3> QED BY <3>1, <3>2
  <2> QED BY <2>5, <2>6
<1>2. ASSUME NEW g \in Generators, BeginSpin(g) PROVE Ordered'
  <2>2. \A h \in Generators : LatestShape(h)'
    BY <1>0, <1>2 DEF BeginSpin, LatestShape, Pack
  <2>3. IssuedShape'
    BY <1>2 DEF BeginSpin, IssuedShape, Pack
  <2> QED BY <2>2, <2>3
<1>3. ASSUME NEW g \in Generators, Restart(g) PROVE Ordered'
  <2>2. ASSUME NEW h \in Generators PROVE LatestShape(h)'
    <3>1. /\ latest' = latest /\ clock' = clock + 1
          /\ lastTime'[h] <= clock /\ lastTime'[h] \in Nat
      BY <1>0, <1>3 DEF Restart, LatestShape
    <3>2. \/ latest[h] = 0
          \/ \E t \in 1 .. clock, n \in SequenceNumbers : latest[h] = Pack(h, t, n)
      BY <1>0 DEF LatestShape
    <3> QED BY <3>1, <3>2 DEF LatestShape, Pack
  <2>3. IssuedShape'
    BY <1>3 DEF Restart, IssuedShape, Pack
  <2> QED BY <2>2, <2>3
<1>4. CASE Tick
  <2>2. ASSUME NEW h \in Generators PROVE LatestShape(h)'
    <3>1. /\ latest' = latest /\ clock' = clock + 1
          /\ lastTime'[h] <= clock /\ lastTime'[h] \in Nat
      BY <1>0, <1>4 DEF Tick, LatestShape
    <3>2. \/ latest[h] = 0
          \/ \E t \in 1 .. clock, n \in SequenceNumbers : latest[h] = Pack(h, t, n)
      BY <1>0 DEF LatestShape
    <3> QED BY <3>1, <3>2 DEF LatestShape, Pack
  <2>3. IssuedShape'
    BY <1>4 DEF Tick, IssuedShape, Pack
  <2> QED BY <2>2, <2>3
<1>5. CASE UNCHANGED vars
  <2>2. \A h \in Generators : LatestShape(h)'
    BY <1>0, <1>5 DEF vars, LatestShape, Pack
  <2>3. IssuedShape'
    BY <1>5 DEF vars, IssuedShape, Pack
  <2> QED BY <2>2, <2>3
<1>6. ASSUME NEW g \in Generators, Generate(g) PROVE Ordered'
  BY <1>1, <1>2, <1>6, ReturnsGreater DEF Generate
<1> QED BY <1>3, <1>4, <1>5, <1>6 DEF Next

LEMMA StepType ==
  ASSUME TypeOK, [Next]_vars
  PROVE  TypeOK'
<1> USE DEF TypeOK
<1>1. ASSUME NEW g \in Generators, NEW n \in SequenceNumbers, Return(g, clock, n),
             spinning' \in [Generators -> BOOLEAN]
      PROVE  TypeOK'
  <2>1. Pack(g, clock, n) \in Nat
    BY PackType
  <2>2. setBack' \in BOOLEAN
    BY <1>1, Zenon DEF Return
  <2>3. clock' \in Nat \ {0} /\ lastTime' \in [Generators -> Nat]
    BY <1>1 DEF Return
  <2>4. sequence' \in [Generators -> 0 .. SequenceSize - 1]
    BY <1>1 DEF Return, SequenceNumbers
  <2>5. calls' \in [Generators -> Nat]
    BY <1>1 DEF Return
  <2>6. latest' \in [Generators -> Nat] /\ issued' \in SUBSET Nat
    BY <1>1, <2>1 DEF Return
  <2> QED BY <1>1, <2>2, <2>3, <2>4, <2>5, <2>6
<1>2. ASSUME NEW g \in Generators, Generate(g) PROVE TypeOK'
  <2>1. 0 \in SequenceNumbers /\ Following(g) \in SequenceNumbers
    BY DEF SequenceNumbers, Following
  <2>2. CASE BeginSpin(g)
    BY <2>1, <2>2 DEF BeginSpin, SequenceNumbers
  <2>3. CASE GenerateFresh(g) \/ EndSpin(g)
    BY <1>1, <2>1, <2>3 DEF GenerateFresh, EndSpin
  <2>4. CASE GenerateNext(g)
    BY <1>1, <2>1, <2>4 DEF GenerateNext
  <2> QED BY <1>2, <2>2, <2>3, <2>4 DEF Generate
<1>3. ASSUME NEW g \in Generators, Restart(g) PROVE TypeOK'
  BY <1>3 DEF Restart
<1>4. CASE Tick
  BY <1>4 DEF Tick
<1>5. CASE StepBack
  BY <1>5 DEF StepBack
<1>6. CASE UNCHANGED vars
  BY <1>6 DEF vars
<1> QED BY <1>2, <1>3, <1>4, <1>5, <1>6 DEF Next

LEMMA StepInv ==
  ASSUME IInv, [Next]_vars
  PROVE  IInv'
<1>1. TypeOK'
  BY StepType DEF IInv
<1>2. CASE StepBack
  BY <1>1, <1>2 DEF StepBack, IInv
<1>3. CASE setBack /\ ~StepBack
  <2>1. setBack'
    BY <1>3 DEF Next, Generate, GenerateFresh, GenerateNext, BeginSpin, EndSpin, Return,
                Restart, Tick, vars
  <2> QED BY <1>1, <2>1 DEF IInv
<1>4. CASE ~setBack /\ ~StepBack
  BY <1>1, <1>4, StepKeepsOrder DEF IInv
<1> QED BY <1>2, <1>3, <1>4

-----------------------------------------------------------------------------
\* A step that returns an id returns one greater than the generator's latest.
LEMMA StepIncreases ==
  ASSUME TypeOK, Ordered, [Next]_vars, NEW g \in Generators, calls'[g] # calls[g]
  PROVE  \E n \in SequenceNumbers : Returns(g, clock, n)
<1> USE DEF TypeOK
<1>1. ASSUME NEW h \in Generators, Generate(h)
      PROVE  GenerateFresh(g) \/ GenerateNext(g) \/ EndSpin(g)
  <2>1. ~BeginSpin(h)
    <3>1. BeginSpin(h) => UNCHANGED calls
      BY DEF BeginSpin
    <3> QED BY <3>1
  <2>2. calls' = [calls EXCEPT ![h] = @ + 1]
    BY <1>1, <2>1 DEF Generate, GenerateFresh, GenerateNext, EndSpin, Return
  <2>3. g = h
    BY <2>2
  <2> QED BY <1>1, <2>1, <2>3 DEF Generate
<1>2. ASSUME NEW h \in Generators, Restart(h) PROVE FALSE
  BY <1>2 DEF Restart
<1>3. ~Tick /\ ~StepBack /\ ~UNCHANGED vars
  BY DEF Tick, StepBack, vars
<1>4. PICK h \in Generators : Generate(h)
  BY <1>2, <1>3 DEF Next
<1> QED BY <1>1, <1>4, ReturnsGreater

\* The generators keep their types; the sequence number fits its field.
THEOREM TypeCorrect == Spec => []TypeOK
<1>1. IInv /\ [Next]_vars => IInv'
  BY StepInv
<1>2. IInv => TypeOK
  BY DEF IInv
<1> QED BY <1>1, <1>2, InitInv, PTL DEF Spec

\* Until the clock steps back the ids of a process increase, restarts included.
THEOREM IncreasingCorrect == Spec => Increasing
<1>1. ASSUME IInv, [Next]_vars
      PROVE  [\A g \in Generators :
                 calls'[g] # calls[g] /\ ~setBack => latest'[g] > latest[g]]_vars
  <2> SUFFICES ASSUME NEW g \in Generators, calls'[g] # calls[g], ~setBack
               PROVE  latest'[g] > latest[g]
    OBVIOUS
  <2>1. PICK n \in SequenceNumbers : Returns(g, clock, n)
    BY <1>1, StepIncreases DEF IInv
  <2> QED BY <1>1, <2>1 DEF Returns, Return, IInv, TypeOK
<1>2. IInv /\ [Next]_vars => IInv'
  BY StepInv
<1> QED BY <1>1, <1>2, InitInv, PTL DEF Spec, Increasing

\* No id is returned twice, by the same process or by two of them.
THEOREM UniqueCorrect == Spec => UniqueUntilSetBack
<1>1. ASSUME IInv, [Next]_vars
      PROVE  [\A g \in Generators :
                 calls'[g] # calls[g] /\ ~setBack => latest'[g] \notin issued]_vars
  <2> SUFFICES ASSUME NEW g \in Generators, calls'[g] # calls[g], ~setBack,
                      latest'[g] \in issued
               PROVE  FALSE
    OBVIOUS
  <2> USE <1>1
  <2>1. PICK n \in SequenceNumbers : Returns(g, clock, n)
    BY StepIncreases DEF IInv
  <2>2. latest'[g] = Pack(g, clock, n) /\ latest'[g] > latest[g]
    BY <2>1 DEF Returns, Return, IInv, TypeOK
  <2>3. PICK h \in Generators, t \in Nat, m \in SequenceNumbers :
            latest'[g] = Pack(h, t, m) /\ latest'[g] <= latest[h]
    BY DEF IInv, Ordered, IssuedShape
  <2>4. g = h
    <3>1. clock \in Nat
      BY DEF IInv, TypeOK
    <3> QED BY <2>2, <2>3, <3>1, PackInjective
  <2>5. latest'[g] \in Nat /\ latest[g] \in Nat
    BY DEF IInv, TypeOK
  <2> QED BY <2>2, <2>3, <2>4, <2>5
<1>2. IInv /\ [Next]_vars => IInv'
  BY StepInv
<1> QED BY <1>1, <1>2, InitInv, PTL DEF Spec, UniqueUntilSetBack

-----------------------------------------------------------------------------
\* A number packed with a unit is found again by dividing by the unit, and what
\* was added to it is the remainder.
LEMMA UnitDivision ==
  ASSUME NEW k \in Nat \ {0}, NEW a \in Nat, NEW r \in 0 .. k - 1
  PROVE  (a * k + r) \div k = a /\ (a * k + r) % k = r
<1> DEFINE x == a * k + r
<1>1. x \in Nat
  <2>1. a * k \in Nat
    BY SMTT(30)
  <2> QED BY <2>1
<1> HIDE DEF x
<1>2. /\ x \div k \in Nat /\ x % k \in 0 .. k - 1
      /\ x = (x \div k) * k + (x % k)
  BY <1>1, SMTT(60)
<1>3. a * k + r = (x \div k) * k + (x % k)
  BY <1>2 DEF x
<1>4. a = x \div k /\ r = x % k
  BY <1>2, <1>3, UnitInjective
<1> QED BY <1>4 DEF x

\* The fields that Pack packed are the fields that are read.
LEMMA PackFields ==
  ASSUME NEW g \in Generators, NEW t \in Nat, NEW n \in SequenceNumbers
  PROVE  /\ ExtractTimestamp(Pack(g, t, n)) = t
         /\ WorkerOf(Pack(g, t, n)) = workerID[g]
         /\ ProcessOf(Pack(g, t, n)) = processID[g]
<1> DEFINE k == ProcessSize * SequenceSize
           r == processID[g] * SequenceSize + n
           id == Pack(g, t, n)
<1>1. k \in Nat \ {0} /\ TimestampUnit \in Nat \ {0} /\ r \in 0 .. k - 1
  BY Units, LowFits
<1>2. id = t * TimestampUnit + Low(g, n) /\ Low(g, n) \in 0 .. TimestampUnit - 1
  BY PackType, LowFits
<1>3. id \div TimestampUnit = t /\ id % TimestampUnit = Low(g, n)
  <2> HIDE DEF id
  <2> QED BY <1>1, <1>2, UnitDivision
<1>4. workerID[g] \in Nat /\ processID[g] \in Nat /\ n \in 0 .. SequenceSize - 1
  BY DEF SequenceNumbers
<1>5. Low(g, n) = workerID[g] * k + r
  BY DEF Low
<1>6. Low(g, n) \div k = workerID[g]
  <2> HIDE DEF k, r
  <2> QED BY <1>1, <1>4, <1>5, UnitDivision
<1>7. r \div SequenceSize = processID[g]
  BY <1>4, UnitDivision
<1>8. id % k = r
  <2> DEFINE above == t * WorkerSize + workerID[g]
  <2>1. above \in Nat
    BY <1>4, SMTT(30)
  <2>2. id = above * k + r
    <3> HIDE DEF k, r, id
    <3>1. t * (WorkerSize * k) = (t * WorkerSize) * k
      <4>1. t \in Int /\ WorkerSize \in Int /\ k \in Int
        BY <1>1
      <4> QED BY <4>1, SMTT(30)
    <3>2. above * k = (t * WorkerSize) * k + workerID[g] * k
      <4> DEFINE p == t * WorkerSize
      <4>1. p \in Int /\ k \in Int /\ workerID[g] \in Int
        BY <1>1, <1>4, SMTT(30)
      <4> HIDE DEF p
      <4>2. (p + workerID[g]) * k = p * k + workerID[g] * k
        BY <4>1, SMTT(30)
      <4> QED BY <4>2 DEF p
    <3>3. TimestampUnit = WorkerSize * k
      BY DEF TimestampUnit, k
    <3>4. id = t * (WorkerSize * k) + (workerID[g] * k + r)
      BY <1>2, <1>5, <3>3
    <3>5. (t * WorkerSize) * k \in Int /\ workerID[g] * k \in Int /\ r \in Int
      <4>1. t * WorkerSize \in Int
        BY SMTT(30)
      <4> QED BY <1>1, <1>4, <4>1, SMTT(30)
    <3> QED BY <3>1, <3>2, <3>4, <3>5
  <2> HIDE DEF above, id, k, r
  <2> QED BY <1>1, <2>1, <2>2, UnitDivision
<1> QED BY <1>3, <1>6, <1>7, <1>8
        DEF ExtractTimestamp, WorkerOf, ProcessOf, Remainder

\* The latest id was packed from the generator's own numbers, at the time it
\* remembers unless it has started again since.
Packed ==
    \A g \in Generators : calls[g] > 0 =>
        \E t \in Nat, n \in SequenceNumbers :
            /\ latest[g] = Pack(g, t, n)
            /\ lastTime[g] # 0 => t = lastTime[g]

LEMMA StepPacked ==
  ASSUME TypeOK, Packed, [Next]_vars
  PROVE  Packed'
<1> USE DEF TypeOK
<1>1. ASSUME NEW g \in Generators, NEW n \in SequenceNumbers, Return(g, clock, n)
      PROVE  Packed'
  <2> SUFFICES ASSUME NEW h \in Generators, calls'[h] > 0
               PROVE  \E t \in Nat, m \in SequenceNumbers :
                          /\ latest'[h] = Pack(h, t, m)
                          /\ lastTime'[h] # 0 => t = lastTime'[h]
    BY DEF Packed, Pack
  <2>1. CASE h = g
    <3>1. latest'[h] = Pack(h, clock, n) /\ lastTime'[h] = clock /\ clock \in Nat
      BY <1>1, <2>1 DEF Return
    <3> QED BY <3>1
  <2>2. CASE h # g
    BY <1>1, <2>2 DEF Return, Packed
  <2> QED BY <2>1, <2>2
<1>2. ASSUME NEW g \in Generators, Generate(g) PROVE Packed'
  <2>1. 0 \in SequenceNumbers /\ Following(g) \in SequenceNumbers
    BY DEF SequenceNumbers, Following
  <2>2. CASE BeginSpin(g)
    BY <2>2 DEF BeginSpin, Packed, Pack
  <2>3. CASE GenerateFresh(g) \/ GenerateNext(g) \/ EndSpin(g)
    BY <1>1, <2>1, <2>3 DEF GenerateFresh, GenerateNext, EndSpin
  <2> QED BY <1>2, <2>2, <2>3 DEF Generate
<1>3. ASSUME NEW g \in Generators, Restart(g) PROVE Packed'
  BY <1>3 DEF Restart, Packed, Pack
<1>4. CASE Tick \/ StepBack \/ UNCHANGED vars
  BY <1>4 DEF Tick, StepBack, vars, Packed, Pack
<1> QED BY <1>2, <1>3, <1>4 DEF Next

\* Whatever the clock does, the worker and process numbers and the millisecond
\* are read back from every id: no field ever spills into the next one.
THEOREM FieldsCorrect == Spec => []FieldsKept
<1>1. Init => Packed
  BY DEF Init, Packed
<1>2. TypeOK /\ Packed /\ [Next]_vars => TypeOK' /\ Packed'
  BY StepType, StepPacked
<1>3. ASSUME TypeOK, Packed PROVE FieldsKept
  <2> SUFFICES ASSUME NEW g \in Generators, calls[g] > 0
               PROVE  /\ WorkerOf(latest[g]) = workerID[g]
                      /\ ProcessOf(latest[g]) = processID[g]
                      /\ lastTime[g] # 0 => ExtractTimestamp(latest[g]) = lastTime[g]
    BY DEF FieldsKept
  <2>1. PICK t \in Nat, n \in SequenceNumbers :
            latest[g] = Pack(g, t, n) /\ (lastTime[g] # 0 => t = lastTime[g])
    BY <1>3 DEF Packed
  <2> QED BY <2>1, PackFields
<1>4. Init => TypeOK
  BY InitInv DEF IInv
<1> QED BY <1>1, <1>2, <1>3, <1>4, PTL DEF Spec

=============================================================================
