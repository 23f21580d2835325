---------------------------- MODULE MCRingBuffer ----------------------------
(* An instance of RingBuffer for TLC: several laps of a small buffer.       *)
EXTENDS RingBuffer

CONSTANTS r1

MCReaders == {r1}
MCAsked == {0, 2, 5}

=============================================================================
