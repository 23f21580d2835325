----------------------------- MODULE MCDelivery -----------------------------
(* Instances of Delivery for TLC.                                           *)
EXTENDS Delivery, TLC

CONSTANTS u1, g1, c1, c2, t1

MCUsers == {u1}
MCGuilds == {g1}
MCConns == {c1, c2}
MCTask == {t1}
MCNone == {}
MCNoStatuses == {}

\* Only a RESUME reads what a client keeps, when no event is tracked: states
\* that differ in it alone are one state once every handshake has begun.
MayResume == \E c \in Conns : phase[c] = "new" \/ AwaitsHandshake(c)
View == <<vars, replay, dispatchVars, nextSeq, queue, pending, resumeVars,
          IF MayResume THEN clientVars ELSE <<>>, reached, raced>>

Symmetry == Permutations(Conns) \union Permutations(Tasks)

=============================================================================
