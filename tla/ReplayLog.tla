----------------------------- MODULE ReplayLog ------------------------------
(***************************************************************************)
(* What a guild's replay buffer promises: the last Capacity events of the  *)
(* guild, oldest first, numbered 1, 2, 3... in the order they were stored. *)
(***************************************************************************)
EXTENDS Integers, Sequences

CONSTANTS
    Capacity,   \* how many events are kept
    Events      \* the events

VARIABLES
    log,        \* the events kept, oldest first, with their numbers
    last        \* the number of the newest event

Entry(n, e) == [Sequence |-> n, Event |-> e]

\* The log `kept` with entry x stored in it; a full log drops its oldest entry.
Stored(kept, x) ==
    IF Len(kept) < Capacity THEN Append(kept, x) ELSE Append(Tail(kept), x)

\* Where the entries newer than n begin, one past the end when there are none.
FirstAfter(kept, n) ==
    CHOOSE k \in 1 .. Len(kept) + 1 :
        /\ \A m \in 1 .. k - 1 : kept[m].Sequence <= n
        /\ k <= Len(kept) => kept[k].Sequence > n

\* The entries of `kept` that a client who has seen number n is missing: the
\* numbers increase, so they are the newest ones.
After(kept, n) == SubSeq(kept, FirstAfter(kept, n), Len(kept))

Init == log = <<>> /\ last = 0

Store(e) ==
    /\ last' = last + 1
    /\ log' = Stored(log, Entry(last + 1, e))

Next == \E e \in Events : Store(e)

Spec == Init /\ [][Next]_<<log, last>>

=============================================================================
