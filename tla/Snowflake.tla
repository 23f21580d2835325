----------------------------- MODULE Snowflake ------------------------------
(***************************************************************************)
(* The generators of snowflake ids: the server's and the one of the seeding *)
(* CLI, each a process with its own mutex, counter and worker and process   *)
(* numbers, all reading the wall clock of one machine.                      *)
(*                                                                         *)
(* An id packs a millisecond, the two numbers and a sequence number into    *)
(* bit fields.  Generate holds the mutex from its first read of the clock   *)
(* to its return, also while it spins for the next millisecond.             *)
(***************************************************************************)
EXTENDS Integers

CONSTANTS
    Generators,     \* generators, one per process
    workerID,       \* workerID[g]
    processID,      \* processID[g]
    WorkerSize,     \* 2^workerIDBits
    ProcessSize,    \* 2^processIDBits
    SequenceSize,   \* 2^sequenceBits
    MaxTime,        \* bound: milliseconds of a behaviour
    MaxCalls        \* bound: ids one process generates

ASSUME SizesAssumption ==
    /\ WorkerSize \in Nat \ {0}
    /\ ProcessSize \in Nat \ {0}
    /\ SequenceSize \in Nat \ {0}

\* NewGenerator refuses numbers that do not fit their fields.
ASSUME NumbersAssumption ==
    /\ workerID \in [Generators -> 0 .. WorkerSize - 1]
    /\ processID \in [Generators -> 0 .. ProcessSize - 1]

\* The server is started with numbers (1, 1), the CLI with (0, 0).
ASSUME DistinctAssumption ==
    \A g, h \in Generators :
        g # h => workerID[g] # workerID[h] \/ processID[g] # processID[h]

ASSUME BoundsAssumption ==
    /\ MaxTime \in Nat
    /\ MaxCalls \in Nat

VARIABLES
    clock,      \* UnixMilli() - epoch of the machine
    sequence,   \* sequence[g]: Generator.sequence
    lastTime,   \* lastTime[g]: Generator.lastTime
    spinning,   \* spinning[g]: Generate waits for the next millisecond
    calls,      \* calls[g]: how many ids g has returned, over all restarts
    latest,     \* latest[g]: the id it returned last
    issued,     \* ids that have been returned
    setBack     \* history: whether the clock has stepped back

vars == <<clock, sequence, lastTime, spinning, calls, latest, issued, setBack>>

\* The bit layout: shifted fields that do not overlap are added.
TimestampUnit == WorkerSize * (ProcessSize * SequenceSize)

NoTimestampShift(g, now, n) ==
    workerID[g] * (ProcessSize * SequenceSize) + processID[g] * SequenceSize + n

Pack(g, now, n) ==
    now * TimestampUnit
        + (workerID[g] * (ProcessSize * SequenceSize)
            + (processID[g] * SequenceSize + n))

TypeOK ==
    /\ clock \in Nat \ {0}
    /\ sequence \in [Generators -> 0 .. SequenceSize - 1]
    /\ lastTime \in [Generators -> Nat]
    /\ spinning \in [Generators -> BOOLEAN]
    /\ calls \in [Generators -> Nat]
    /\ latest \in [Generators -> Nat]
    /\ issued \in SUBSET Nat
    /\ setBack \in BOOLEAN

\* The epoch is years ago.
Init ==
    /\ clock = 1
    /\ sequence = [g \in Generators |-> 0]
    /\ lastTime = [g \in Generators |-> 0]
    /\ spinning = [g \in Generators |-> FALSE]
    /\ calls = [g \in Generators |-> 0]
    /\ latest = [g \in Generators |-> 0]
    /\ issued = {}
    /\ setBack = FALSE

Return(g, now, n) ==
    /\ sequence' = [sequence EXCEPT ![g] = n]
    /\ lastTime' = [lastTime EXCEPT ![g] = now]
    /\ latest' = [latest EXCEPT ![g] = Pack(g, now, n)]
    /\ issued' = issued \union {Pack(g, now, n)}
    /\ calls' = [calls EXCEPT ![g] = @ + 1]
    /\ UNCHANGED <<clock, setBack>>

Unmasked(g) == sequence[g] + 1
Following(g) == (sequence[g] + 1) % SequenceSize

\* The first id of a millisecond that is not the last one used.
GenerateFresh(g) ==
    /\ ~spinning[g]
    /\ calls[g] < MaxCalls
    /\ clock # lastTime[g]
    /\ Return(g, clock, 0)
    /\ UNCHANGED spinning

NeverExhausted(g) == FALSE
Exhausted(g) == Following(g) = 0

\* Another id of the same millisecond.
GenerateNext(g) ==
    /\ ~spinning[g]
    /\ calls[g] < MaxCalls
    /\ clock = lastTime[g]
    /\ ~Exhausted(g)
    /\ Return(g, clock, Following(g))
    /\ UNCHANGED spinning

\* The millisecond has no number left.
BeginSpin(g) ==
    /\ ~spinning[g]
    /\ calls[g] < MaxCalls
    /\ clock = lastTime[g]
    /\ Exhausted(g)
    /\ sequence' = [sequence EXCEPT ![g] = 0]
    /\ spinning' = [spinning EXCEPT ![g] = TRUE]
    /\ UNCHANGED <<clock, lastTime, calls, latest, issued, setBack>>

NotEarlier(now, last) == now >= last
Later(now, last) == now > last

\* The loop ends at a clock past the millisecond used up.
EndSpin(g) ==
    /\ spinning[g]
    /\ Later(clock, lastTime[g])
    /\ Return(g, clock, 0)
    /\ spinning' = [spinning EXCEPT ![g] = FALSE]

\* The process dies and comes back with a new Generator; that takes longer
\* than a millisecond.
Restart(g) ==
    /\ clock < MaxTime
    /\ clock' = clock + 1
    /\ sequence' = [sequence EXCEPT ![g] = 0]
    /\ lastTime' = [lastTime EXCEPT ![g] = 0]
    /\ spinning' = [spinning EXCEPT ![g] = FALSE]
    /\ UNCHANGED <<calls, latest, issued, setBack>>

Tick ==
    /\ clock < MaxTime
    /\ clock' = clock + 1
    /\ UNCHANGED <<sequence, lastTime, spinning, calls, latest, issued, setBack>>

\* The wall clock is set back; nothing in Generate asks for a monotonic one.
StepBack ==
    /\ \E t \in 1 .. clock - 1 : clock' = t
    /\ setBack' = TRUE
    /\ UNCHANGED <<sequence, lastTime, spinning, calls, latest, issued>>

Generate(g) ==
    GenerateFresh(g) \/ GenerateNext(g) \/ BeginSpin(g) \/ EndSpin(g)

Next ==
    \/ \E g \in Generators : Generate(g) \/ Restart(g)
    \/ Tick
    \/ StepBack

Spec == Init /\ [][Next]_vars

-----------------------------------------------------------------------------
\* The fields of an id.
ExtractTimestamp(id) == id \div TimestampUnit
Remainder(id) == id % TimestampUnit
WorkerOf(id) == Remainder(id) \div (ProcessSize * SequenceSize)
ProcessOf(id) == (id % (ProcessSize * SequenceSize)) \div SequenceSize

\* Until the clock steps back every id a process returns, before or after a
\* restart, is greater than all it returned before: cursors over ids are cursors
\* over time.
Increasing ==
    [][\A g \in Generators :
          calls'[g] # calls[g] /\ ~setBack => latest'[g] > latest[g]]_vars

\* Until the clock steps back no id is returned twice, whichever of the processes
\* returned the earlier ones.
UniqueUntilSetBack ==
    [][\A g \in Generators :
          calls'[g] # calls[g] /\ ~setBack => latest'[g] \notin issued]_vars

\* The fields of an id can be told apart again, so generators with different
\* numbers never return the same id.
FieldsKept ==
    \A g \in Generators : calls[g] > 0 =>
        /\ WorkerOf(latest[g]) = workerID[g]
        /\ ProcessOf(latest[g]) = processID[g]
        /\ lastTime[g] # 0 => ExtractTimestamp(latest[g]) = lastTime[g]

=============================================================================
