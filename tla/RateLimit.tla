------------------------------ MODULE RateLimit ------------------------------
(***************************************************************************)
(* The rate limit in front of the routes: a counter in Redis per caller    *)
(* and path, which expires a window after its first increment.  The script *)
(* that increments is atomic.                                              *)
(***************************************************************************)
EXTENDS Integers, FiniteSets

CONSTANT Window

ASSUME WindowAssumption == Window \in Nat \ {0}

VARIABLES now,      \* the clock of Redis
          counters, \* [key, count, expires], one per key
          admitted  \* for the properties: [key, at, count] of admitted requests

Live(key) == {c \in counters : c.key = key /\ now < c.expires}

\* INCR, and PEXPIRE by the increment that finds no counter.
Counted(key) ==
  IF Live(key) = {} THEN [key |-> key, count |-> 1, expires |-> now + Window]
  ELSE CHOOSE c \in {[l EXCEPT !.count = @ + 1] : l \in Live(key)} : TRUE

OneMore(count, limit) == count <= limit + 1
Within(count, limit) == count <= limit

AdmittedAt(key, at) ==
  LET here == {a \in admitted : a.key = key /\ a.at = at}
  IN  IF here = {} THEN 0 ELSE (CHOOSE a \in here : TRUE).count

\* CheckRateLimit: whether the request passes is `passes'.
Check(key, limit, passes) ==
  /\ counters' = {c \in counters : c.key # key} \cup {Counted(key)}
  /\ passes <=> Within(Counted(key).count, limit)
  /\ admitted' = IF passes
                 THEN {a \in admitted : a.key # key \/ a.at # now}
                        \cup {[key |-> key, at |-> now, count |-> AdmittedAt(key, now) + 1]}
                 ELSE admitted
  /\ UNCHANGED now

\* Time passes; a counter whose time is over is gone.
Tick ==
  /\ now' = now + 1
  /\ counters' = {c \in counters : now' < c.expires}
  /\ UNCHANGED admitted

SumOf(as) == Cardinality(UNION {{<<a, n>> : n \in 1..a.count} : a \in as})

\* A window that opens late and the next one: never more than twice the limit
\* passes within the length of a window, whenever it begins
\* (rateLimitScript, RateLimitMiddleware).
BurstBounded(limit) ==
  \A a \in admitted :
    SumOf({b \in admitted : b.key = a.key /\ a.at <= b.at /\ b.at < a.at + Window}) <= 2 * limit
=============================================================================
