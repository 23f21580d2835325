------------------------------ MODULE Requests ------------------------------
(***************************************************************************)
(* How the services run: a request is a goroutine (Tasks) that runs one    *)
(* method of a service, statement by statement.  task[t] holds the call    *)
(* with its arguments, the place in the method and what the method has     *)
(* read.  Between two statements of a request any other request may take   *)
(* steps: no service uses a transaction or a lock.                         *)
(*                                                                         *)
(* A step is a statement with the tests that follow it up to the next      *)
(* statement.  Require and Select are reads with an early return, Execute  *)
(* and Create are writes, Create takes the next id of the generator first. *)
(* The dispatch of events at the end of a method belongs to the last step: *)
(* what it does is module Delivery's.                                      *)
(***************************************************************************)
EXTENDS Store

CONSTANTS Tasks,  \* requests that may be served at once
          None    \* no row read yet

ASSUME TasksAssumption == IsFiniteSet(Tasks) /\ Tasks # {}

VARIABLES task,      \* per task: [call, at, row]
          lastId,    \* the generator's last id (module Snowflake)
          past       \* what the properties remember; no step tests it

Free == [call |-> [op |-> "none"], at |-> "idle", row |-> None]

Calls(t, op) == task[t].call.op = op

Go(t, next) ==
  task' = [task EXCEPT ![t] = IF next = "done" THEN Free ELSE [@ EXCEPT !.at = next]]

Carry(t, next, row) ==
  task' = [task EXCEPT ![t] = IF next = "done" THEN Free ELSE [@ EXCEPT !.at = next, !.row = row]]

Return(t) == task' = [task EXCEPT ![t] = Free]

\* A read, and an early return unless the condition holds.
Require(t, at, condition, next) ==
  /\ task[t].at = at
  /\ IF condition THEN Go(t, next) ELSE Return(t)
  /\ UNCHANGED <<db, lastId>>

\* A read of a row that later statements use, and an early return without one.
Select(t, at, rows, next) ==
  /\ task[t].at = at
  /\ IF rows = {} THEN Return(t) ELSE \E r \in rows : Carry(t, next, r)
  /\ UNCHANGED <<db, lastId>>

\* A write; a constraint that refuses it ends the request.
Execute(t, at, statement, next) ==
  /\ task[t].at = at
  /\ IF statement.ok THEN db' = statement.db /\ Go(t, next) ELSE UNCHANGED db /\ Return(t)
  /\ UNCHANGED lastId

\* A write of a row with a new id.
Create(t, at, statement, next, row) ==
  /\ task[t].at = at
  /\ IF statement.ok THEN db' = statement.db /\ Carry(t, next, row) ELSE UNCHANGED db /\ Return(t)
  /\ lastId' = lastId + 1

\* Snowflake.Generate ahead of other statements: the id goes into the row.
NewId(t, at, next, row) ==
  /\ task[t].at = at
  /\ Carry(t, next, row)
  /\ lastId' = lastId + 1
  /\ UNCHANGED db

Unserved == [t \in Tasks |-> Free]
=============================================================================
