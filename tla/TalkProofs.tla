----------------------------- MODULE TalkProofs -----------------------------
(***************************************************************************)
(* Direct messages: how far the requests of service/dm.go, which look or   *)
(* count and then insert, can go beyond what they test.                    *)
(*                                                                         *)
(* A channel is never deleted, so what a request has seen of a group stays *)
(* true of it.  Each bound is on the sum of what is in the tables and of   *)
(* the requests that have tested and not written yet.                      *)
(***************************************************************************)
EXTENDS GuildProofs, WellFoundedInduction

IsGroup(d, dm) == \E g \in d.dms : g.id = dm /\ g.type = "group"

\* What a request has tested before its first write.
TalkTask(call, at, d) ==
  /\ call.op \in {"AddGroupDMMember", "RemoveGroupDMMember"} /\ at # "start" => IsGroup(d, call.channel)
  /\ call.op = "CreateDM" /\ at # "start" => call.user # call.by
  /\ call.op = "CreateGroupDM" => IsFiniteSet(call.users)
  /\ call.op = "CreateGroupDM" /\ at # "start" => Cardinality(call.users \cup {call.by}) <= MaxRecipients

IsRecipientRow(r) == r = [channel |-> r.channel, user |-> r.user]

DMsInv ==
  /\ \A r \in db.recipients : IsRecipientRow(r)
  /\ IsFiniteSet(db.dms) /\ \A d \in db.dms : IsFiniteSet(RecipientsOf(d.id))
  /\ \A t \in Tasks : TalkTask(task[t].call, task[t].at, db)
-----------------------------------------------------------------------------
(***************************************************************************)
(* What the statements do to the recipients of a channel.                  *)
(***************************************************************************)
LEMMA Added ==
  ASSUME IsDatabase(db), NEW dm, NEW u
  PROVE  LET d == AddRecipient(dm, u).db IN
         /\ d.dms = db.dms /\ d.recipients = db.recipients \cup {[channel |-> dm, user |-> u]}
         /\ \A c : RecipientsIn(d, c) = IF c = dm THEN RecipientsOf(c) \cup {u} ELSE RecipientsOf(c)
<1> DEFINE d == AddRecipient(dm, u).db
<1>1. d.dms = db.dms /\ d.recipients = db.recipients \cup {[channel |-> dm, user |-> u]}
  BY DEF AddRecipient, Insert, Statement, IsDatabase, Tables
<1>2. PICK row : row = [channel |-> dm, user |-> u]
  OBVIOUS
<1>3. row.channel = dm /\ row.user = u /\ d.recipients = db.recipients \cup {row}
  BY <1>1, <1>2
<1> HIDE DEF d
<1>4. \A c : RecipientsIn(d, c) = IF c = dm THEN RecipientsOf(c) \cup {u} ELSE RecipientsOf(c)
  BY <1>3 DEF RecipientsIn, RecipientsOf
<1> QED BY <1>1, <1>4 DEF d

LEMMA Removed ==
  ASSUME IsDatabase(db), \A r \in db.recipients : IsRecipientRow(r), NEW dm, NEW u
  PROVE  LET d == RemoveRecipient(dm, u).db IN
         /\ d.dms = db.dms /\ d.recipients \subseteq db.recipients
         /\ \A c : RecipientsIn(d, c) = IF c = dm THEN RecipientsOf(c) \ {u} ELSE RecipientsOf(c)
<1> DEFINE d == RemoveRecipient(dm, u).db
<1>1. d.dms = db.dms /\ d.recipients = db.recipients \ {[channel |-> dm, user |-> u]}
  BY DEF RemoveRecipient, Delete, Statement, IsDatabase, Tables
<1>2. \A r \in db.recipients : r = [channel |-> dm, user |-> u] <=> r.channel = dm /\ r.user = u
  BY DEF IsRecipientRow
<1>3. d.recipients = {r \in db.recipients : ~(r.channel = dm /\ r.user = u)}
  BY <1>1, <1>2
<1> HIDE DEF d
<1>4. \A c : RecipientsIn(d, c) = IF c = dm THEN RecipientsOf(c) \ {u} ELSE RecipientsOf(c)
  BY <1>3 DEF RecipientsIn, RecipientsOf
<1> QED BY <1>1, <1>4 DEF d

\* A new channel has the recipients it is created with and no others, because
\* recipients refer to channels that are there.
LEMMA Opened ==
  ASSUME Sound(db), NEW row, NEW users, InsertDM(row, users).ok
  PROVE  LET d == InsertDM(row, users).db IN
         /\ d.dms = db.dms \cup {row} /\ \A c \in db.dms : c.id # row.id
         /\ \A r \in d.recipients : r \in db.recipients \/ IsRecipientRow(r)
         /\ RecipientsIn(d, row.id) = users
         /\ \A c \in db.dms : RecipientsIn(d, c.id) = RecipientsOf(c.id)
<1> DEFINE d == InsertDM(row, users).db
           added == {[channel |-> row.id, user |-> u] : u \in users}
<1>1. d.dms = db.dms \cup {row} /\ d.recipients = db.recipients \cup added
  BY DEF InsertDM, Statement, Sound, IsDatabase, Tables
<1>2. \A c \in db.dms : c.id # row.id
  BY DEF InsertDM, Statement, ById
<1>3. \A r \in added : r.channel = row.id /\ r.user \in users /\ IsRecipientRow(r)
  BY DEF IsRecipientRow
<1>4. \A u \in users : \E r \in added : r.channel = row.id /\ r.user = u
  <2> SUFFICES ASSUME NEW u \in users PROVE \E r \in added : r.channel = row.id /\ r.user = u
    OBVIOUS
  <2>1. PICK r : r = [channel |-> row.id, user |-> u]
    OBVIOUS
  <2> QED BY <2>1
<1> HIDE DEF d, added
<1>5. \A r \in db.recipients : r.channel # row.id
  BY <1>2 DEF Sound, Refers, IdsIn, Tables
<1>6. RecipientsIn(d, row.id) = users
  BY <1>1, <1>3, <1>4, <1>5 DEF RecipientsIn
<1>7. \A c \in db.dms : RecipientsIn(d, c.id) = RecipientsOf(c.id)
  BY <1>1, <1>2, <1>3 DEF RecipientsIn, RecipientsOf
<1> QED BY <1>1, <1>2, <1>3, <1>6, <1>7 DEF d
-----------------------------------------------------------------------------
(***************************************************************************)
(* What each request has tested where it is, and what it writes.           *)
(***************************************************************************)
LEMMA AddSteps ==
  ASSUME Base, NEW t \in Tasks, AddGroupDMMember(t)
  PROVE  LET c == task[t].call IN
         \/ /\ db' = db
            /\ \/ task'[t] = Free
               \/ /\ task'[t].call = c
                  /\ task[t].at = "start" => IsGroup(db, c.channel)
                  /\ task'[t].at = "add" => task[t].at # "add" /\ ~Full(c.channel)
         \/ /\ db' = AddRecipient(c.channel, c.user).db
            /\ task[t].at = "add" /\ task'[t].at # "add"
            /\ task'[t] = Free \/ task'[t].call = c
<1> DEFINE c == task[t].call
           r == task[t].row
           G == \E g \in Group(c.channel) : g.owner = c.by
<1>0. TasksShape
  BY DEF Base, Shape
<1>1. G => IsGroup(db, c.channel)
  BY DEF Group, ById, IsGroup
<1> HIDE DEF G
<1>2. CASE Require(t, "start", G, "user")
  <2>1. db' = db /\ ((G /\ Go(t, "user")) \/ Return(t)) /\ task[t].at = "start"
    BY <1>2 DEF Require
  <2>2. task'[t] = Free \/ (G /\ task'[t].call = c /\ task'[t].at = "user")
    BY <1>0, <2>1, Coming DEF Comes
  <2> QED BY <1>1, <2>1, <2>2
<1>3. CASE \/ Require(t, "user", HasUser(c.user), "member")
           \/ Require(t, "member", ~IsRecipient(c.channel, c.user), "count")
           \/ Require(t, "read", ById("dms", c.channel) # {}, "done")
  <2>1. db' = db /\ task[t].at # "start"
        /\ (Go(t, "member") \/ Go(t, "count") \/ Go(t, "done") \/ Return(t))
    BY <1>3 DEF Require
  <2>2. task'[t] = Free \/ (task'[t].call = c /\ task'[t].at \in {"member", "count", "done"})
    BY <1>0, <2>1, Coming DEF Comes
  <2> QED BY <2>1, <2>2
<1>4. CASE Require(t, "count", ~Full(c.channel), "add")
  <2>1. db' = db /\ task[t].at = "count" /\ ((~Full(c.channel) /\ Go(t, "add")) \/ Return(t))
    BY <1>4 DEF Require
  <2>2. task'[t] = Free \/ (~Full(c.channel) /\ task'[t].call = c)
    BY <1>0, <2>1, Coming DEF Comes
  <2> QED BY <2>1, <2>2
<1>5. CASE Execute(t, "add", AddRecipient(c.channel, c.user), "read")
  <2>1. /\ (db' = db /\ Return(t)) \/ (db' = AddRecipient(c.channel, c.user).db /\ Go(t, "read"))
        /\ task[t].at = "add"
    BY <1>5 DEF Execute
  <2>2. \/ db' = db /\ task'[t] = Free
        \/ /\ db' = AddRecipient(c.channel, c.user).db
           /\ task'[t] = Free \/ (task'[t].call = c /\ task'[t].at = "read")
    BY <1>0, <2>1, Coming DEF Comes
  <2>3. task'[t] = Free => task'[t].at = "idle"
    BY DEF Free
  <2> QED BY <2>1, <2>2, <2>3
<1> QED BY <1>2, <1>3, <1>4, <1>5 DEF AddGroupDMMember, G

LEMMA RemoveSteps ==
  ASSUME Base, NEW t \in Tasks, RemoveGroupDMMember(t)
  PROVE  LET c == task[t].call IN
         /\ db' = db \/ (db' = RemoveRecipient(c.channel, c.user).db /\ task[t].at = "remove")
         /\ \/ task'[t] = Free
            \/ task'[t].call = c /\ (task[t].at = "start" => IsGroup(db, c.channel))
<1> DEFINE c == task[t].call
           G == \E g \in Group(c.channel) : c.by = c.user \/ g.owner = c.by
<1>0. TasksShape
  BY DEF Base, Shape
<1>1. G => IsGroup(db, c.channel)
  BY DEF Group, ById, IsGroup
<1> HIDE DEF G
<1>2. CASE Require(t, "start", G, "caller")
  <2>1. db' = db /\ ((G /\ Go(t, "caller")) \/ Return(t))
    BY <1>2 DEF Require
  <2>2. task'[t] = Free \/ (G /\ task'[t].call = c)
    BY <1>0, <2>1, Coming DEF Comes
  <2> QED BY <1>1, <2>1, <2>2
<1>3. CASE \/ Require(t, "caller", IsRecipient(c.channel, c.by), "target")
           \/ Require(t, "target", IsRecipient(c.channel, c.user), "remove")
           \/ Require(t, "read", ById("dms", c.channel) # {}, "done")
           \/ Execute(t, "remove", RemoveRecipient(c.channel, c.user), "read")
  <2>1. /\ task[t].at # "start"
        /\ db' = db \/ (db' = RemoveRecipient(c.channel, c.user).db /\ task[t].at = "remove")
        /\ Go(t, "target") \/ Go(t, "remove") \/ Go(t, "done") \/ Go(t, "read") \/ Return(t)
    BY <1>3 DEF Require, Execute
  <2>2. task'[t] = Free \/ task'[t].call = c
    BY <1>0, <2>1, Coming DEF Comes
  <2> QED BY <2>1, <2>2
<1> QED BY <1>2, <1>3 DEF RemoveGroupDMMember, G

LEMMA PairSteps ==
  ASSUME Base, NEW t \in Tasks, CreateDM(t)
  PROVE  LET c == task[t].call
             new == InsertDM([id |-> task[t].row.id, type |-> "dm", owner |-> 0], {c.by, c.user})
         IN  \/ /\ db' = db
                /\ \/ task'[t] = Free
                   \/ /\ task'[t].call = c
                      /\ task[t].at = "start" => c.user # c.by
                      /\ task'[t].at = "create" => task[t].at # "create" /\ DMsBetween(c.by, c.user) = {}
             \/ new.ok /\ db' = new.db /\ task[t].at = "create" /\ task'[t] = Free
<1> DEFINE c == task[t].call
           row == [id |-> task[t].row.id, type |-> "dm", owner |-> 0]
           new == InsertDM(row, {c.by, c.user})
           fresh == [id |-> lastId + 1]
<1>0. TasksShape
  BY DEF Base, Shape
<1>2. CASE Require(t, "start", c.user # c.by /\ HasUser(c.user), "id")
  <2>1. db' = db /\ ((c.user # c.by /\ Go(t, "id")) \/ Return(t))
    BY <1>2 DEF Require
  <2>2. task'[t] = Free \/ (c.user # c.by /\ task'[t].call = c /\ task'[t].at = "id")
    BY <1>0, <2>1, Coming DEF Comes
  <2> QED BY <2>1, <2>2
<1>3. CASE NewId(t, "id", "find", fresh)
  <2>1. db' = db /\ task[t].at = "id" /\ Carry(t, "find", fresh)
    BY <1>3 DEF NewId
  <2> HIDE DEF fresh
  <2>2. task'[t] = Free \/ (task'[t].call = c /\ task'[t].at = "find")
    BY <1>0, <2>1, Coming DEF Comes
  <2> QED BY <2>1, <2>2
<1>4. CASE Require(t, "find", DMsBetween(c.by, c.user) = {}, "create")
  <2>1. db' = db /\ task[t].at = "find" /\ ((DMsBetween(c.by, c.user) = {} /\ Go(t, "create")) \/ Return(t))
    BY <1>4 DEF Require
  <2>2. task'[t] = Free \/ (DMsBetween(c.by, c.user) = {} /\ task'[t].call = c)
    BY <1>0, <2>1, Coming DEF Comes
  <2> QED BY <2>1, <2>2
<1>5. CASE Execute(t, "create", new, "done")
  <2>1. /\ (db' = db /\ Return(t)) \/ (new.ok /\ db' = new.db /\ Go(t, "done"))
        /\ task[t].at = "create"
    BY <1>5 DEF Execute
  <2>2. Go(t, "done") => task'[t] = Free
    BY <1>0 DEF Go, TasksShape
  <2>3. Return(t) => task'[t] = Free
    BY <1>0, Coming
  <2> HIDE DEF new
  <2>4. (db' = db /\ task'[t] = Free) \/ (new.ok /\ db' = new.db /\ task[t].at = "create" /\ task'[t] = Free)
    BY <2>1, <2>2, <2>3
  <2> QED BY <2>4 DEF new
<1> QED BY <1>2, <1>3, <1>4, <1>5 DEF CreateDM

LEMMA GroupSteps ==
  ASSUME Base, NEW t \in Tasks, CreateGroupDM(t)
  PROVE  LET c == task[t].call
             new == InsertDM([id |-> lastId + 1, type |-> "group", owner |-> c.by], c.users \cup {c.by})
         IN  /\ db' = db \/ (new.ok /\ db' = new.db /\ task[t].at = "create")
             /\ \/ task'[t] = Free
                \/ /\ task'[t].call = c
                   /\ task[t].at = "start" => Cardinality(c.users \cup {c.by}) <= MaxRecipients
<1> DEFINE c == task[t].call
           users == c.users \cup {c.by}
           row == [id |-> lastId + 1, type |-> "group", owner |-> c.by]
           new == InsertDM(row, users)
           fresh == [id |-> lastId + 1]
           few == c.users # {} /\ c.by \notin c.users /\ Cardinality(users) <= MaxRecipients
<1>0. TasksShape
  BY DEF Base, Shape
<1>2. CASE Require(t, "start", few, "users")
  <2>1. db' = db /\ ((Cardinality(users) <= MaxRecipients /\ Go(t, "users")) \/ Return(t))
    BY <1>2 DEF Require
  <2>2. task'[t] = Free \/ (Cardinality(users) <= MaxRecipients /\ task'[t].call = c)
    BY <1>0, <2>1, Coming DEF Comes
  <2> QED BY <2>1, <2>2
<1>3. CASE \/ Require(t, "users", \A u \in c.users : HasUser(u), "create")
           \/ Create(t, "create", new, "read", fresh)
           \/ Require(t, "read", ById("dms", task[t].row.id) # {}, "done")
  <2>1. /\ task[t].at # "start"
        /\ db' = db \/ (new.ok /\ db' = new.db /\ task[t].at = "create")
        /\ Go(t, "create") \/ Carry(t, "read", fresh) \/ Go(t, "done") \/ Return(t)
    BY <1>3 DEF Require, Create
  <2> HIDE DEF fresh, new
  <2>2. task'[t] = Free \/ task'[t].call = c
    BY <1>0, <2>1, Coming DEF Comes
  <2> QED BY <2>1, <2>2 DEF new
<1> QED BY <1>2, <1>3 DEF CreateGroupDM
-----------------------------------------------------------------------------
(***************************************************************************)
(* Channels only come, and only groups change.                             *)
(***************************************************************************)
Opens(row, users) == InsertDM(row, users).ok /\ db' = InsertDM(row, users).db

\* What a step does to the tables of direct messages.
Converses ==
  \/ db'.dms = db.dms /\ db'.recipients = db.recipients
  \/ \E dm, u : IsGroup(db, dm) /\ (db' = AddRecipient(dm, u).db \/ db' = RemoveRecipient(dm, u).db)
  \/ \E row, users : /\ Opens(row, users) /\ IsFiniteSet(users)
                     /\ row.type = "dm" => Cardinality(users) = 2

Talkers == {"CreateDM", "CreateGroupDM", "AddGroupDMMember", "RemoveGroupDMMember"}

LEMMA Untalked ==
  ASSUME Base, NEW t \in Tasks, Serve(t), task[t].call.op \notin Talkers
  PROVE  db'.dms = db.dms /\ db'.recipients = db.recipients
BY ServeFrame DEF Frame, Writes, Talkers, Tables

LEMMA PairSize ==
  ASSUME NEW u, NEW v, u # v
  PROVE  IsFiniteSet({u, v}) /\ Cardinality({u, v}) = 2
<1>1. IsFiniteSet({u}) /\ Cardinality({u}) = 1
  BY FS_Singleton
<1>2. {u, v} = {u} \cup {v} /\ v \notin {u}
  OBVIOUS
<1> QED BY <1>1, <1>2, FS_AddElement

LEMMA ServeConverses ==
  ASSUME Base, DMsInv, NEW t \in Tasks, Serve(t)
  PROVE  Converses
<1> DEFINE c == task[t].call
<1>0. TalkTask(c, task[t].at, db)
  BY DEF DMsInv
<1>1. CASE task[t].call.op \notin Talkers
  BY <1>1, Untalked DEF Converses
<1>2. CASE task[t].call.op = "AddGroupDMMember"
  <2>1. db' = db \/ (db' = AddRecipient(c.channel, c.user).db /\ task[t].at = "add")
    BY <1>2, Dispatch, AddSteps
  <2> QED BY <1>0, <1>2, <2>1 DEF Converses, TalkTask
<1>3. CASE task[t].call.op = "RemoveGroupDMMember"
  <2>1. db' = db \/ (db' = RemoveRecipient(c.channel, c.user).db /\ task[t].at = "remove")
    BY <1>3, Dispatch, RemoveSteps
  <2> QED BY <1>0, <1>3, <2>1 DEF Converses, TalkTask
<1>4. CASE task[t].call.op = "CreateDM"
  <2> DEFINE row == [id |-> task[t].row.id, type |-> "dm", owner |-> 0]
  <2>1. db' = db \/ (Opens(row, {c.by, c.user}) /\ task[t].at = "create")
    BY <1>4, Dispatch, PairSteps DEF Opens
  <2> HIDE DEF row
  <2>2. task[t].at = "create" => c.user # c.by
    BY <1>0, <1>4 DEF TalkTask
  <2>3. task[t].at = "create" => IsFiniteSet({c.by, c.user}) /\ Cardinality({c.by, c.user}) = 2
    BY <2>2, PairSize
  <2>4. CASE db' = db
    BY <2>4 DEF Converses
  <2>5. CASE Opens(row, {c.by, c.user}) /\ task[t].at = "create"
    BY <2>3, <2>5 DEF Converses
  <2> QED BY <2>1, <2>4, <2>5
<1>5. CASE task[t].call.op = "CreateGroupDM"
  <2>1. PICK row : row = [id |-> lastId + 1, type |-> "group", owner |-> c.by]
    OBVIOUS
  <2>2. db' = db \/ Opens(row, c.users \cup {c.by})
    BY <1>5, <2>1, Dispatch, GroupSteps DEF Opens
  <2>3. IsFiniteSet(c.users \cup {c.by})
    BY <1>0, <1>5, FS_AddElement DEF TalkTask
  <2>4. row.type # "dm"
    BY <2>1
  <2> QED BY <2>2, <2>3, <2>4 DEF Converses
<1> QED BY <1>1, <1>2, <1>3, <1>4, <1>5 DEF Talkers

LEMMA Conversation ==
  ASSUME Base, DMsInv, Converses
  PROVE  /\ \A r \in db'.recipients : IsRecipientRow(r)
         /\ IsFiniteSet(db'.dms) /\ \A d \in db'.dms : IsFiniteSet(RecipientsIn(db', d.id))
         /\ db.dms \subseteq db'.dms
         /\ \A d \in db.dms : d.type = "dm" => RecipientsIn(db', d.id) = RecipientsOf(d.id)
         /\ \A d \in db'.dms \ db.dms : d.type = "dm" => Cardinality(RecipientsIn(db', d.id)) = 2
<1>0. /\ IsDatabase(db) /\ Sound(db) /\ IsFiniteSet(db.dms)
      /\ \A r \in db.recipients : IsRecipientRow(r)
      /\ \A d \in db.dms : IsFiniteSet(RecipientsOf(d.id))
  BY DEF Base, Shape, StoreInv, DMsInv
<1>1. CASE db'.dms = db.dms /\ db'.recipients = db.recipients
  BY <1>0, <1>1 DEF RecipientsIn, RecipientsOf
<1>2. ASSUME NEW dm, NEW u, IsGroup(db, dm), db' = AddRecipient(dm, u).db \/ db' = RemoveRecipient(dm, u).db
      PROVE  /\ db'.dms = db.dms
             /\ \A r \in db'.recipients : IsRecipientRow(r)
             /\ \A d \in db.dms : IsFiniteSet(RecipientsIn(db', d.id))
             /\ \A d \in db.dms : d.type = "dm" => RecipientsIn(db', d.id) = RecipientsOf(d.id)
  <2>1. /\ db'.dms = db.dms
        /\ \/ db'.recipients = db.recipients \cup {[channel |-> dm, user |-> u]}
           \/ db'.recipients \subseteq db.recipients
        /\ \A c : RecipientsIn(db', c) \in {RecipientsOf(c), RecipientsOf(c) \cup {u}, RecipientsOf(c) \ {u}}
        /\ \A c : c # dm => RecipientsIn(db', c) = RecipientsOf(c)
    <3>1. CASE db' = AddRecipient(dm, u).db
      <4>1. \A c : RecipientsIn(db', c) = IF c = dm THEN RecipientsOf(c) \cup {u} ELSE RecipientsOf(c)
        BY <1>0, <3>1, Added
      <4>2. db'.dms = db.dms /\ db'.recipients = db.recipients \cup {[channel |-> dm, user |-> u]}
        BY <1>0, <3>1, Added
      <4> QED BY <4>1, <4>2
    <3>2. CASE db' = RemoveRecipient(dm, u).db
      <4>1. \A c : RecipientsIn(db', c) = IF c = dm THEN RecipientsOf(c) \ {u} ELSE RecipientsOf(c)
        BY <1>0, <3>2, Removed
      <4>2. db'.dms = db.dms /\ db'.recipients \subseteq db.recipients
        BY <1>0, <3>2, Removed
      <4> QED BY <4>1, <4>2
    <3> QED BY <1>2, <3>1, <3>2
  <2>2. IsRecipientRow([channel |-> dm, user |-> u])
    BY DEF IsRecipientRow
  <2>3. ASSUME NEW d \in db.dms PROVE IsFiniteSet(RecipientsIn(db', d.id))
    <3>1. IsFiniteSet(RecipientsOf(d.id))
      BY <1>0
    <3>2. IsFiniteSet(RecipientsOf(d.id) \cup {u}) /\ IsFiniteSet(RecipientsOf(d.id) \ {u})
      BY <3>1, FS_AddElement, FS_RemoveElement
    <3> QED BY <2>1, <3>1, <3>2
  <2>4. ASSUME NEW d \in db.dms, d.type = "dm" PROVE d.id # dm
    <3>1. Unique("dms", db.dms)
      BY <1>0 DEF Sound, Keyed
    <3>2. PICK g \in db.dms : g.id = dm /\ g.type = "group"
      BY <1>2 DEF IsGroup
    <3> QED BY <2>4, <3>1, <3>2 DEF Unique, Same
  <2> QED BY <1>0, <2>1, <2>2, <2>3, <2>4
<1>3. ASSUME NEW row, NEW users, Opens(row, users), IsFiniteSet(users), row.type = "dm" => Cardinality(users) = 2
      PROVE  /\ \A r \in db'.recipients : IsRecipientRow(r)
             /\ db'.dms = db.dms \cup {row}
             /\ IsFiniteSet(db'.dms) /\ \A d \in db'.dms : IsFiniteSet(RecipientsIn(db', d.id))
             /\ \A d \in db.dms : d.type = "dm" => RecipientsIn(db', d.id) = RecipientsOf(d.id)
             /\ \A d \in db'.dms \ db.dms : d.type = "dm" => Cardinality(RecipientsIn(db', d.id)) = 2
  <2>1. /\ db'.dms = db.dms \cup {row}
        /\ \A r \in db'.recipients : r \in db.recipients \/ IsRecipientRow(r)
        /\ RecipientsIn(db', row.id) = users
        /\ \A c \in db.dms : RecipientsIn(db', c.id) = RecipientsOf(c.id)
    BY <1>0, <1>3, Opened DEF Opens
  <2>2. IsFiniteSet(db'.dms)
    BY <1>0, <2>1, FS_AddElement
  <2> QED BY <1>0, <1>3, <2>1, <2>2
<1> QED BY <1>0, <1>1, <1>2, <1>3 DEF Converses

LEMMA TalkTaskServed ==
  ASSUME Base, DMsInv, NEW t \in Tasks, Serve(t)
  PROVE  TalkTask(task'[t].call, task'[t].at, db)
<1> DEFINE c == task[t].call
<1>0. TalkTask(c, task[t].at, db) /\ Moves(t)
  BY ServeFrame DEF DMsInv
<1>1. task'[t] = Free => task'[t].call.op = "none"
  BY DEF Free
<1>2. \/ task'[t] = Free
      \/ /\ task'[t].call = c
         /\ task[t].at = "start" =>
              /\ c.op \in {"AddGroupDMMember", "RemoveGroupDMMember"} => IsGroup(db, c.channel)
              /\ c.op = "CreateDM" => c.user # c.by
              /\ c.op = "CreateGroupDM" => Cardinality(c.users \cup {c.by}) <= MaxRecipients
  <2>1. CASE c.op \notin Talkers
    BY <1>0, <2>1 DEF Moves, Talkers
  <2>2. CASE c.op = "AddGroupDMMember"
    <3>1. AddGroupDMMember(t)
      BY <2>2, Dispatch
    <3> QED BY <2>2, <3>1, AddSteps
  <2>3. CASE c.op = "RemoveGroupDMMember"
    <3>1. RemoveGroupDMMember(t)
      BY <2>3, Dispatch
    <3> QED BY <2>3, <3>1, RemoveSteps
  <2>4. CASE c.op = "CreateDM"
    <3>1. CreateDM(t)
      BY <2>4, Dispatch
    <3> QED BY <2>4, <3>1, PairSteps
  <2>5. CASE c.op = "CreateGroupDM"
    <3>1. CreateGroupDM(t)
      BY <2>5, Dispatch
    <3> QED BY <2>5, <3>1, GroupSteps
  <2> QED BY <2>1, <2>2, <2>3, <2>4, <2>5 DEF Talkers
<1>3. CASE task'[t] = Free
  BY <1>1, <1>3 DEF TalkTask
<1>4. CASE task'[t] # Free
  BY <1>0, <1>2, <1>4 DEF TalkTask
<1> QED BY <1>3, <1>4

LEMMA CalmTalk ==
  ASSUME Base, Calm
  PROVE  /\ db'.dms = db.dms /\ db'.recipients = db.recipients
         /\ \A t \in Tasks : \/ task'[t] = task[t]
                             \/ task'[t].call.op = "none" /\ task'[t].at = "idle"
                             \/ /\ task'[t].at = "start"
                                /\ task'[t].call.op = "CreateGroupDM" => IsFiniteSet(task'[t].call.users)
<1>1. db'.dms = db.dms /\ db'.recipients = db.recipients
  BY DEF Calm, Tables
<1>2. \A call \in This.calls : call.op = "CreateGroupDM" => IsFiniteSet(call.users)
  BY ScenarioAssumption DEF Base, Shape, This
<1>3. \A t : task'[t] = Free => task'[t].call.op = "none" /\ task'[t].at = "idle"
  BY DEF Free
<1>4. ASSUME NEW t, Begun(t)
      PROVE  /\ task'[t].at = "start"
             /\ task'[t].call.op = "CreateGroupDM" => IsFiniteSet(task'[t].call.users)
  BY <1>2, <1>4 DEF Begun
<1> QED BY <1>1, <1>3, <1>4 DEF Calm

LEMMA DMsStep ==
  Base /\ DMsInv /\ [Next]_vars =>
    DMsInv' /\ Converses
<1> SUFFICES ASSUME Base, DMsInv, [Next]_vars PROVE DMsInv' /\ Converses
  OBVIOUS
<1>1. Converses
  BY CalmSteps, CalmTalk, ServeConverses DEF Converses
<1>2. ASSUME NEW t \in Tasks PROVE TalkTask(task'[t].call, task'[t].at, db)
  <2>1. TalkTask(task[t].call, task[t].at, db)
    BY DEF DMsInv
  <2>2. ASSUME NEW s \in Tasks, Serve(s) PROVE TalkTask(task'[t].call, task'[t].at, db)
    <3>1. CASE s = t
      BY <2>2, <3>1, TalkTaskServed
    <3>2. CASE s # t
      <4>1. task'[t] = task[t]
        BY <2>2, <3>2, ServeFrame DEF Moves
      <4> QED BY <2>1, <4>1
    <3> QED BY <3>1, <3>2
  <2>3. CASE Calm
    <3>1. CASE task'[t] = task[t]
      BY <2>1, <3>1
    <3>2. CASE task'[t].call.op = "none" /\ task'[t].at = "idle"
      BY <3>2 DEF TalkTask
    <3>3. CASE /\ task'[t].at = "start"
               /\ task'[t].call.op = "CreateGroupDM" => IsFiniteSet(task'[t].call.users)
      BY <3>3 DEF TalkTask
    <3> QED BY <2>3, <3>1, <3>2, <3>3, CalmTalk
  <2> QED BY <2>2, <2>3, CalmSteps
<1>3. db.dms \subseteq db'.dms
  BY <1>1, Conversation
<1>4. \A t \in Tasks : TalkTask(task'[t].call, task'[t].at, db')
  BY <1>2, <1>3 DEF TalkTask, IsGroup
<1>5. \A dm : RecipientsOf(dm)' = RecipientsIn(db', dm)
  BY DEF RecipientsOf, RecipientsIn
<1> QED BY <1>1, <1>4, <1>5, Conversation DEF DMsInv
-----------------------------------------------------------------------------
(***************************************************************************)
(* A pair stays a pair.                                                    *)
(***************************************************************************)
LEMMA InitialConversing ==
  ASSUME NEW d, NEW ids, Initial(d, ids)
  PROVE  /\ \A r \in d.recipients : IsRecipientRow(r)
         /\ IsFiniteSet(d.dms) /\ \A dm : IsFiniteSet(RecipientsIn(d, dm))
<1>1. IsFiniteSet(d.dms) /\ IsFiniteSet(d.recipients)
  BY DEF Initial, Tables
<1>2. ASSUME NEW dm PROVE IsFiniteSet(RecipientsIn(d, dm))
  <2> DEFINE rows == {r \in d.recipients : r.channel = dm}
             users == {r.user : r \in rows}
             f == [r \in rows |-> r.user]
  <2>1. IsFiniteSet(rows)
    BY <1>1, FS_Subset
  <2>2. f \in Surjection(rows, users)
    BY DEF Surjection
  <2>3. RecipientsIn(d, dm) = users
    BY DEF RecipientsIn
  <2> QED BY <2>1, <2>2, <2>3, FS_Surjection
<1>3. \A r \in d.recipients : IsRecipientRow(r)
  BY DEF Initial, Conversing, IsRecipientRow
<1> QED BY <1>1, <1>2, <1>3

LEMMA DMsInit == Init => DMsInv /\ Initial(db, lastId) /\ \A t \in Tasks : task[t].at = "idle" /\ task[t].call.op = "none"
<1> SUFFICES ASSUME Init
             PROVE DMsInv /\ Initial(db, lastId) /\ \A t \in Tasks : task[t].at = "idle" /\ task[t].call.op = "none"
  OBVIOUS
<1>1. Initial(db, lastId)
  BY ScenarioAssumption DEF Init, This
<1>2. \A t \in Tasks : task[t].at = "idle" /\ task[t].call.op = "none"
  BY DEF Init, Unserved, Free
<1>3. \A t \in Tasks : TalkTask(task[t].call, task[t].at, db)
  BY <1>2 DEF TalkTask
<1>4. \A dm : RecipientsOf(dm) = RecipientsIn(db, dm)
  BY DEF RecipientsOf, RecipientsIn
<1> QED BY <1>1, <1>2, <1>3, <1>4, InitialConversing DEF DMsInv

\* A direct-message channel of two users keeps its two recipients: the methods
\* that add and remove test that the channel is a group (dm.go), some statements
\* before they write, and a channel does not change its kind.
THEOREM PairCorrect == Spec => []PairKeepsBoth
<1>1. Init => Base /\ DMsInv /\ PairKeepsBoth
  <2> SUFFICES ASSUME Init PROVE Base /\ DMsInv /\ PairKeepsBoth
    OBVIOUS
  <2>1. \A d \in db.dms : d.type = "dm" => Cardinality(RecipientsIn(db, d.id)) = 2
    BY DMsInit DEF Initial, Conversing
  <2> QED BY <2>1, BaseInit, DMsInit DEF PairKeepsBoth, RecipientsIn, RecipientsOf
<1>2. Base /\ DMsInv /\ PairKeepsBoth /\ [Next]_vars => (Base /\ DMsInv /\ PairKeepsBoth)'
  <2> SUFFICES ASSUME Base, DMsInv, PairKeepsBoth, [Next]_vars PROVE (Base /\ DMsInv /\ PairKeepsBoth)'
    OBVIOUS
  <2>1. Base' /\ DMsInv' /\ Converses
    BY BaseStep, DMsStep
  <2>2. ASSUME NEW d \in db'.dms, d.type = "dm" PROVE Cardinality(RecipientsIn(db', d.id)) = 2
    BY <2>1, <2>2, Conversation DEF PairKeepsBoth
  <2>3. \A dm : RecipientsOf(dm)' = RecipientsIn(db', dm)
    BY DEF RecipientsOf, RecipientsIn
  <2> QED BY <2>1, <2>2, <2>3 DEF PairKeepsBoth
<1> QED BY <1>1, <1>2, PTL DEF Spec
-----------------------------------------------------------------------------
(***************************************************************************)
(* The channels of two users.                                              *)
(***************************************************************************)
\* Requests that have found no channel of two users and have created none yet.
Creating(u, v) ==
  {t \in Tasks : /\ Calls(t, "CreateDM") /\ task[t].at = "create"
                 /\ {task[t].call.by, task[t].call.user} = {u, v}}

PairsInv ==
  \A u, v : u # v => Cardinality(SharedIn(db, u, v)) + Cardinality(Creating(u, v)) <= Cardinality(Tasks)

LEMMA SharedFinite ==
  ASSUME DMsInv, NEW u, NEW v
  PROVE  /\ IsFiniteSet(SharedIn(db, u, v)) /\ Cardinality(SharedIn(db, u, v)) \in Nat
         /\ Creating(u, v) \subseteq Tasks
<1>1. IsFiniteSet(db.dms) /\ SharedIn(db, u, v) \subseteq db.dms
  BY DEF DMsInv, SharedIn
<1> QED BY <1>1, FS_Subset, FS_CardinalityType DEF Creating

\* The pairs that a step leaves alone.
LEMMA PairUntouched ==
  ASSUME Base, DMsInv, PairsInv, Converses, NEW u, NEW v, u # v,
         \A d \in db'.dms \ db.dms : d.type = "dm" => ~({u, v} \subseteq RecipientsIn(db', d.id)),
         Creating(u, v)' \subseteq Creating(u, v)
  PROVE  Cardinality(SharedIn(db', u, v)) + Cardinality(Creating(u, v)') <= Cardinality(Tasks)
<1>1. SharedIn(db', u, v) = SharedIn(db, u, v)
  <2>1. /\ db.dms \subseteq db'.dms
        /\ \A d \in db.dms : d.type = "dm" => RecipientsIn(db', d.id) = RecipientsOf(d.id)
    BY Conversation
  <2>2. \A dm : RecipientsOf(dm) = RecipientsIn(db, dm)
    BY DEF RecipientsOf, RecipientsIn
  <2> QED BY <2>1, <2>2 DEF SharedIn
<1>2. Cardinality(SharedIn(db, u, v)) \in Nat /\ Creating(u, v) \subseteq Tasks
  BY SharedFinite
<1>3. Cardinality(Creating(u, v)') \in Nat /\ Cardinality(Creating(u, v)) \in Nat
      /\ Cardinality(Creating(u, v)') <= Cardinality(Creating(u, v)) /\ Cardinality(Tasks) \in Nat
  BY <1>2, FlightSize
<1>4. Cardinality(SharedIn(db, u, v)) + Cardinality(Creating(u, v)) <= Cardinality(Tasks)
  BY DEF PairsInv
<1> QED BY <1>1, <1>2, <1>3, <1>4

LEMMA PairUnserved ==
  ASSUME Base, DMsInv, PairsInv, NEW t \in Tasks, Serve(t), task[t].call.op # "CreateDM"
  PROVE  PairsInv'
<1> DEFINE c == task[t].call
<1>1. Converses /\ Moves(t)
  BY ServeConverses, ServeFrame
<1>2. task'[t].call.op # "CreateDM"
  BY <1>1 DEF Moves, Free
<1>3. \A u, v : Creating(u, v)' \subseteq Creating(u, v)
  BY <1>1, <1>2 DEF Creating, Calls, Moves
<1>4. \A d \in db'.dms \ db.dms : d.type # "dm"
  <2>1. CASE c.op = "CreateGroupDM"
    <3>1. PICK row : row = [id |-> lastId + 1, type |-> "group", owner |-> c.by]
      OBVIOUS
    <3>2. db' = db \/ Opens(row, c.users \cup {c.by})
      BY <2>1, <3>1, Dispatch, GroupSteps DEF Opens
    <3>3. db'.dms \subseteq db.dms \cup {row}
      BY <3>2, Opened DEF Opens, Base, StoreInv
    <3> QED BY <3>1, <3>3
  <2>2. CASE c.op # "CreateGroupDM"
    <3>1. db'.dms = db.dms
      BY <2>2, ServeFrame DEF Frame, Writes, Tables
    <3> QED BY <3>1
  <2> QED BY <2>1, <2>2
<1>5. ASSUME NEW u, NEW v, u # v
      PROVE  Cardinality(SharedIn(db', u, v)) + Cardinality(Creating(u, v)') <= Cardinality(Tasks)
  BY <1>1, <1>3, <1>4, <1>5, PairUntouched
<1> QED BY <1>5 DEF PairsInv

LEMMA PairServed ==
  ASSUME Base, DMsInv, PairsInv, NEW t \in Tasks, Serve(t), task[t].call.op = "CreateDM"
  PROVE  PairsInv'
<1> DEFINE c == task[t].call
           row == [id |-> task[t].row.id, type |-> "dm", owner |-> 0]
<1>0. /\ Converses /\ Moves(t) /\ CreateDM(t)
      /\ TalkTask(c, task[t].at, db) /\ \A r \in db.recipients : IsRecipientRow(r)
  BY ServeConverses, ServeFrame, Dispatch DEF DMsInv
<1>1. \/ db' = db /\ (task'[t] = Free \/ task'[t].call = c)
         /\ (task'[t].at = "create" => task[t].at # "create" /\ DMsBetween(c.by, c.user) = {})
      \/ Opens(row, {c.by, c.user}) /\ task[t].at = "create" /\ task'[t] = Free
  <2>1. task'[t] = Free => task'[t].at # "create"
    BY DEF Free
  <2> QED BY <1>0, <2>1, PairSteps DEF Opens
<1>2. row.type = "dm"
  OBVIOUS
<1> HIDE DEF row
<1>3. \A u, v : Creating(u, v)' \subseteq Creating(u, v) \cup {t}
  BY <1>0 DEF Creating, Calls, Moves
<1>4. ASSUME NEW u, NEW v, u # v
      PROVE  Cardinality(SharedIn(db', u, v)) + Cardinality(Creating(u, v)') <= Cardinality(Tasks)
  <2>1. CASE task'[t].at = "create" /\ {c.by, c.user} = {u, v}
    <3>1. db' = db /\ DMsBetween(c.by, c.user) = {}
      <4>1. task'[t] = Free => task'[t].at # "create"
        BY DEF Free
      <4> QED BY <1>1, <2>1, <4>1
    <3>2. SharedIn(db, u, v) = {}
      <4>1. ASSUME NEW d \in SharedIn(db, u, v) PROVE FALSE
        <5>1. d \in db.dms /\ d.type = "dm" /\ c.by \in RecipientsIn(db, d.id) /\ c.user \in RecipientsIn(db, d.id)
          BY <2>1, <4>1 DEF SharedIn
        <5>2. \A x \in RecipientsIn(db, d.id) : IsRecipient(d.id, x)
          BY <1>0 DEF RecipientsIn, IsRecipient, IsRecipientRow
        <5> QED BY <3>1, <5>1, <5>2 DEF DMsBetween
      <4> QED BY <4>1
    <3>3. Creating(u, v)' \subseteq Tasks
      BY DEF Creating
    <3>4. Cardinality(SharedIn(db', u, v)) = 0
      BY <3>1, <3>2, FS_EmptySet
    <3>5. Cardinality(Creating(u, v)') \in Nat /\ Cardinality(Creating(u, v)') <= Cardinality(Tasks)
          /\ Cardinality(Tasks) \in Nat
      BY <3>3, FlightSize
    <3> QED BY <3>4, <3>5
  <2>2. CASE Opens(row, {c.by, c.user}) /\ {c.by, c.user} = {u, v}
    <3>1. task[t].at = "create" /\ t \in Creating(u, v)
      <4>1. task[t].at = "create"
        <5>1. Opens(row, {c.by, c.user}) => row \in db'.dms /\ \A d \in db.dms : d.id # row.id
          BY Opened DEF Opens, Base, StoreInv
        <5> QED BY <1>1, <2>2, <5>1
      <4> QED BY <2>2, <4>1 DEF Creating, Calls
    <3>2. task'[t] = Free
      <4>1. db' # db
        <5>1. row \in db'.dms /\ \A d \in db.dms : d.id # row.id
          BY <2>2, Opened DEF Opens, Base, StoreInv
        <5> QED BY <5>1
      <4> QED BY <1>1, <4>1
    <3>3. Creating(u, v)' \subseteq Creating(u, v) \ {t}
      <4>1. task'[t].at = "idle"
        BY <3>2 DEF Free
      <4> QED BY <1>0, <4>1 DEF Creating, Calls, Moves
    <3>4. SharedIn(db', u, v) \subseteq SharedIn(db, u, v) \cup {row}
      <4>1. /\ db'.dms = db.dms \cup {row}
            /\ \A d \in db.dms : RecipientsIn(db', d.id) = RecipientsOf(d.id)
        <5>1. Sound(db) /\ InsertDM(row, {c.by, c.user}).ok /\ db' = InsertDM(row, {c.by, c.user}).db
          BY <2>2 DEF Opens, Base, StoreInv
        <5>2. db'.dms = db.dms \cup {row}
          BY <5>1, Opened
        <5>3. \A d \in db.dms : RecipientsIn(db', d.id) = RecipientsOf(d.id)
          BY <5>1, Opened
        <5> QED BY <5>2, <5>3
      <4>2. \A dm : RecipientsOf(dm) = RecipientsIn(db, dm)
        BY DEF RecipientsOf, RecipientsIn
      <4> QED BY <4>1, <4>2 DEF SharedIn
    <3>5. IsFiniteSet(SharedIn(db, u, v)) /\ Cardinality(SharedIn(db, u, v)) \in Nat /\ Creating(u, v) \subseteq Tasks
      BY SharedFinite
    <3>6. /\ Cardinality(SharedIn(db', u, v)) \in Nat
          /\ Cardinality(SharedIn(db', u, v)) <= Cardinality(SharedIn(db, u, v)) + 1
      <4>1. IsFiniteSet(SharedIn(db, u, v) \cup {row})
            /\ Cardinality(SharedIn(db, u, v) \cup {row}) \in Nat
            /\ Cardinality(SharedIn(db, u, v) \cup {row}) <= Cardinality(SharedIn(db, u, v)) + 1
        <5>1. IsFiniteSet(SharedIn(db, u, v) \cup {row})
          BY <3>5, FS_AddElement
        <5>2. Cardinality(SharedIn(db, u, v) \cup {row})
                = IF row \in SharedIn(db, u, v) THEN Cardinality(SharedIn(db, u, v))
                  ELSE Cardinality(SharedIn(db, u, v)) + 1
          BY <3>5, FS_AddElement
        <5> QED BY <3>5, <5>1, <5>2
      <4>2. Cardinality(SharedIn(db', u, v)) \in Nat
            /\ Cardinality(SharedIn(db', u, v)) <= Cardinality(SharedIn(db, u, v) \cup {row})
        BY <3>4, <4>1, FS_Subset, FS_CardinalityType
      <4> QED BY <3>5, <4>1, <4>2
    <3>7. /\ Cardinality(Creating(u, v)') \in Nat /\ Cardinality(Creating(u, v)) \in Nat
          /\ Cardinality(Creating(u, v)') <= Cardinality(Creating(u, v)) - 1
      <4>1. IsFiniteSet(Creating(u, v))
        BY <3>5, TasksAssumption, FS_Subset
      <4>2. Cardinality(Creating(u, v) \ {t}) = Cardinality(Creating(u, v)) - 1 /\ IsFiniteSet(Creating(u, v) \ {t})
        BY <3>1, <4>1, FS_RemoveElement
      <4>3. Cardinality(Creating(u, v)') <= Cardinality(Creating(u, v) \ {t}) /\ IsFiniteSet(Creating(u, v)')
        BY <3>3, <4>2, FS_Subset
      <4> QED BY <4>1, <4>2, <4>3, FS_CardinalityType
    <3>8. Cardinality(SharedIn(db, u, v)) + Cardinality(Creating(u, v)) <= Cardinality(Tasks)
      BY <1>4 DEF PairsInv
    <3>9. Cardinality(Tasks) \in Nat
      BY <3>5, FlightSize
    <3> QED BY <3>5, <3>6, <3>7, <3>8, <3>9
  <2>3. CASE ~(task'[t].at = "create" /\ {c.by, c.user} = {u, v}) /\ ~(Opens(row, {c.by, c.user}) /\ {c.by, c.user} = {u, v})
    <3>1. Creating(u, v)' \subseteq Creating(u, v)
      <4>1. task'[t] = Free => task'[t].at # "create"
        BY DEF Free
      <4>2. task'[t].call = c \/ task'[t] = Free
        BY <1>0 DEF Moves
      <4> QED BY <1>0, <2>3, <4>1, <4>2 DEF Creating, Calls, Moves
    <3>2. \A d \in db'.dms \ db.dms : d.type = "dm" => ~({u, v} \subseteq RecipientsIn(db', d.id))
      <4>1. CASE db' = db
        BY <4>1
      <4>2. CASE Opens(row, {c.by, c.user})
        <5>1. db'.dms = db.dms \cup {row} /\ RecipientsIn(db', row.id) = {c.by, c.user}
          BY <4>2, Opened DEF Opens, Base, StoreInv
        <5>2. ~({u, v} \subseteq {c.by, c.user})
          BY <1>4, <2>3, <4>2
        <5> QED BY <5>1, <5>2
      <4> QED BY <1>1, <4>1, <4>2
    <3> QED BY <1>0, <1>4, <3>1, <3>2, PairUntouched
  <2> QED BY <2>1, <2>2, <2>3
<1> QED BY <1>4 DEF PairsInv

LEMMA PairsStep == Base /\ DMsInv /\ PairsInv /\ [Next]_vars => PairsInv'
<1> SUFFICES ASSUME Base, DMsInv, PairsInv, [Next]_vars PROVE PairsInv'
  OBVIOUS
<1>1. CASE Calm
  <2>1. db'.dms = db.dms /\ Converses
    BY <1>1, CalmTalk, DMsStep
  <2>2. \A t \in Tasks : task'[t].at = "create" => task'[t] = task[t]
    BY <1>1, CalmTalk
  <2>3. \A u, v : Creating(u, v)' \subseteq Creating(u, v)
    BY <2>2 DEF Creating, Calls
  <2>4. ASSUME NEW u, NEW v, u # v
        PROVE  Cardinality(SharedIn(db', u, v)) + Cardinality(Creating(u, v)') <= Cardinality(Tasks)
    BY <2>1, <2>3, <2>4, PairUntouched
  <2> QED BY <2>4 DEF PairsInv
<1> QED BY <1>1, CalmSteps, PairServed, PairUnserved

\* Two users have at most as many channels as requests are at work, though
\* GetOrCreateDM looks for one and inserts in two statements (dm_repo.go).
THEOREM PairsCorrect == Spec => []PairsBounded
<1>1. Init => Base /\ DMsInv /\ PairsInv
  <2> SUFFICES ASSUME Init PROVE Base /\ DMsInv /\ PairsInv
    OBVIOUS
  <2>1. DMsInv /\ Initial(db, lastId) /\ \A t \in Tasks : task[t].at = "idle"
    BY DMsInit
  <2>2. ASSUME NEW u, NEW v, u # v
        PROVE  Cardinality(SharedIn(db, u, v)) + Cardinality(Creating(u, v)) <= Cardinality(Tasks)
    <3>1. Creating(u, v) = {}
      BY <2>1 DEF Creating
    <3>2. Cardinality(Creating(u, v)) = 0
      BY <3>1, FS_EmptySet
    <3>3. Cardinality(SharedIn(db, u, v)) \in Nat /\ Cardinality(Tasks) \in Nat
      BY <2>1, <3>1, SharedFinite, FlightSize
    <3>4. Cardinality(SharedIn(db, u, v)) <= Cardinality(Tasks)
      <4>1. CASE u \in IdsIn(db, "users") /\ v \in IdsIn(db, "users")
        BY <2>1, <2>2, <4>1 DEF Initial, Conversing
      <4>2. CASE u \notin IdsIn(db, "users") \/ v \notin IdsIn(db, "users")
        <5>1. \A dm : \A x \in RecipientsIn(db, dm) : x \in IdsIn(db, "users")
          BY <2>1 DEF Initial, Consistent, RecipientsIn
        <5>2. SharedIn(db, u, v) = {}
          BY <4>2, <5>1 DEF SharedIn
        <5> QED BY <3>3, <5>2, FS_EmptySet
      <4> QED BY <4>1, <4>2
    <3> QED BY <3>2, <3>3, <3>4
  <2> QED BY <2>1, <2>2, BaseInit DEF PairsInv
<1>2. Base /\ DMsInv /\ PairsInv /\ [Next]_vars => (Base /\ DMsInv /\ PairsInv)'
  BY BaseStep, DMsStep, PairsStep
<1>3. DMsInv /\ PairsInv => PairsBounded
  <2> SUFFICES ASSUME DMsInv, PairsInv, NEW u, NEW v, u # v
               PROVE  Cardinality(SharedIn(db, u, v)) <= Cardinality(Tasks)
    BY DEF PairsBounded
  <2>1. Cardinality(SharedIn(db, u, v)) \in Nat /\ Cardinality(Creating(u, v)) \in Nat /\ Cardinality(Tasks) \in Nat
    BY SharedFinite, FlightSize
  <2> QED BY <2>1 DEF PairsInv
<1> QED BY <1>1, <1>2, <1>3, PTL DEF Spec
-----------------------------------------------------------------------------
(***************************************************************************)
(* The members of a group.                                                 *)
(***************************************************************************)
Bound(recipients, adding) ==
  Cardinality(recipients) + Cardinality(adding) <= MaxRecipients + Cardinality(Tasks) - 1

LEMMA BoundShrinks ==
  ASSUME NEW R, NEW S, NEW A, NEW B, IsFiniteSet(R), S \subseteq R, A \subseteq Tasks, B \subseteq A, Bound(R, A)
  PROVE  Bound(S, B)
<1>1. /\ Cardinality(R) \in Nat /\ Cardinality(S) \in Nat /\ Cardinality(S) <= Cardinality(R)
  BY FS_Subset, FS_CardinalityType
<1>2. /\ Cardinality(A) \in Nat /\ Cardinality(B) \in Nat /\ Cardinality(B) <= Cardinality(A)
      /\ Cardinality(Tasks) \in Nat
  BY FlightSize
<1> QED BY <1>1, <1>2, RecipientsAssumption DEF Bound

LEMMA BoundMoves ==
  ASSUME NEW R, NEW u, NEW A, NEW B, NEW t \in A, IsFiniteSet(R), A \subseteq Tasks, B \subseteq A \ {t}, Bound(R, A)
  PROVE  Bound(R \cup {u}, B)
<1>1. Cardinality(R) \in Nat /\ Cardinality(R \cup {u}) \in Nat
  BY FS_AddElement, FS_CardinalityType
<1>2. Cardinality(R \cup {u}) = IF u \in R THEN Cardinality(R) ELSE Cardinality(R) + 1
  BY FS_AddElement
<1>3. IsFiniteSet(A) /\ IsFiniteSet(A \ {t}) /\ Cardinality(A \ {t}) = Cardinality(A) - 1
  <2>1. IsFiniteSet(A)
    BY TasksAssumption, FS_Subset
  <2> QED BY <2>1, FS_RemoveElement
<1>4. Cardinality(A) \in Nat /\ Cardinality(B) \in Nat /\ Cardinality(B) <= Cardinality(A) - 1
  BY <1>3, FS_Subset, FS_CardinalityType
<1>5. Cardinality(Tasks) \in Nat
  BY TasksAssumption, FS_CardinalityType
<1> QED BY <1>1, <1>2, <1>4, <1>5, RecipientsAssumption DEF Bound

\* A request enters only while there is room, and then at most all requests are in.
LEMMA BoundEntered ==
  ASSUME NEW R, NEW B, IsFiniteSet(R), ~(Cardinality(R) >= MaxRecipients), B \subseteq Tasks
  PROVE  Bound(R, B)
<1>1. Cardinality(R) \in Nat
  BY FS_CardinalityType
<1>2. Cardinality(B) \in Nat /\ Cardinality(B) <= Cardinality(Tasks) /\ Cardinality(Tasks) \in Nat
  BY FlightSize
<1> QED BY <1>1, <1>2, RecipientsAssumption DEF Bound

LEMMA BoundOpened ==
  ASSUME NEW R, NEW B, IsFiniteSet(R), Cardinality(R) <= MaxRecipients, B = {}
  PROVE  Bound(R, B)
<1>1. Cardinality(R) \in Nat /\ Cardinality(B) = 0
  BY FS_CardinalityType, FS_EmptySet
<1>2. Cardinality(Tasks) \in Nat /\ Cardinality(Tasks) >= 1
  BY FlightSize
<1> QED BY <1>1, <1>2, RecipientsAssumption DEF Bound

GroupsInv == \A d \in db.dms : Bound(RecipientsOf(d.id), Adding(d.id))

LEMMA AddingShrinks ==
  ASSUME NEW t \in Tasks, Moves(t),
         task'[t] = Free \/ task[t].call.op # "AddGroupDMMember" \/ task'[t].at # "add" \/ task[t].at = "add"
  PROVE  \A dm : Adding(dm)' \subseteq Adding(dm)
<1>1. task'[t] = Free => task'[t].call.op = "none"
  BY DEF Free
<1> QED BY <1>1 DEF Adding, Calls, Moves

LEMMA GroupJoined ==
  ASSUME Base, DMsInv, GroupsInv, NEW t \in Tasks, Serve(t), task[t].call.op = "AddGroupDMMember"
  PROVE  \A d \in db'.dms : Bound(RecipientsIn(db', d.id), Adding(d.id)')
<1> DEFINE c == task[t].call
<1>0. /\ Moves(t) /\ AddGroupDMMember(t) /\ IsDatabase(db) /\ db'.dms = db.dms
      /\ \A d \in db.dms : IsFiniteSet(RecipientsOf(d.id)) /\ Bound(RecipientsOf(d.id), Adding(d.id))
  BY ServeFrame, Dispatch DEF DMsInv, GroupsInv, Base, Shape, Frame, Writes, Tables
<1>1. \A dm : RecipientsOf(dm) = RecipientsIn(db, dm) /\ Adding(dm) \subseteq Tasks /\ Adding(dm)' \subseteq Tasks
  BY DEF RecipientsOf, RecipientsIn, Adding
<1>2. task'[t] = Free => task'[t].at = "idle"
  BY DEF Free
<1>3. CASE db' = db
  <2> SUFFICES ASSUME NEW d \in db.dms PROVE Bound(RecipientsOf(d.id), Adding(d.id)')
    BY <1>1, <1>3
  <2>1. CASE task'[t].at = "add" /\ task[t].at # "add" /\ d.id = c.channel
    <3>1. ~Full(c.channel)
      BY <1>0, <1>2, <2>1, AddSteps
    <3> QED BY <1>0, <1>1, <2>1, <3>1, BoundEntered DEF Full
  <2>2. CASE ~(task'[t].at = "add" /\ task[t].at # "add" /\ d.id = c.channel)
    <3>1. Adding(d.id)' \subseteq Adding(d.id)
      <4>1. task'[t].call = c \/ task'[t] = Free
        BY <1>0 DEF Moves
      <4> QED BY <1>0, <1>2, <2>2, <4>1 DEF Adding, Calls, Moves
    <3>2. IsFiniteSet(RecipientsOf(d.id)) /\ Bound(RecipientsOf(d.id), Adding(d.id))
      BY <1>0
    <3>3. RecipientsOf(d.id) \subseteq RecipientsOf(d.id) /\ Adding(d.id) \subseteq Tasks
      BY <1>1
    <3> QED BY <3>1, <3>2, <3>3, BoundShrinks
  <2> QED BY <2>1, <2>2
<1>4. CASE db' # db
  <2>1. db' = AddRecipient(c.channel, c.user).db /\ task[t].at = "add" /\ task'[t].at # "add"
    BY <1>0, <1>4, AddSteps
  <2>2. \A dm : RecipientsIn(db', dm) = IF dm = c.channel THEN RecipientsOf(dm) \cup {c.user} ELSE RecipientsOf(dm)
    BY <1>0, <2>1, Added
  <2> SUFFICES ASSUME NEW d \in db.dms PROVE Bound(RecipientsIn(db', d.id), Adding(d.id)')
    BY <1>0
  <2>3. IsFiniteSet(RecipientsOf(d.id)) /\ Bound(RecipientsOf(d.id), Adding(d.id)) /\ Adding(d.id) \subseteq Tasks
    BY <1>0, <1>1
  <2>4. Adding(d.id)' \subseteq Adding(d.id) \ {t}
    BY <1>0, <2>1 DEF Adding, Calls, Moves
  <2>5. CASE d.id = c.channel
    <3>1. t \in Adding(d.id)
      BY <2>1, <2>5 DEF Adding, Calls
    <3>2. Bound(RecipientsOf(d.id) \cup {c.user}, Adding(d.id)')
      BY <2>3, <2>4, <3>1, BoundMoves
    <3>3. RecipientsIn(db', d.id) = RecipientsOf(d.id) \cup {c.user}
      BY <2>2, <2>5
    <3> QED BY <3>2, <3>3
  <2>6. CASE d.id # c.channel
    <3>1. RecipientsIn(db', d.id) \subseteq RecipientsOf(d.id) /\ Adding(d.id)' \subseteq Adding(d.id)
      BY <2>2, <2>4, <2>6
    <3> QED BY <2>3, <3>1, BoundShrinks
  <2> QED BY <2>5, <2>6
<1> QED BY <1>3, <1>4

LEMMA GroupsShrink ==
  ASSUME Base, DMsInv, GroupsInv, NEW d \in db.dms, NEW users, users \subseteq RecipientsOf(d.id),
         Adding(d.id)' \subseteq Adding(d.id)
  PROVE  Bound(users, Adding(d.id)')
<1>1. IsFiniteSet(RecipientsOf(d.id)) /\ Bound(RecipientsOf(d.id), Adding(d.id)) /\ Adding(d.id) \subseteq Tasks
  BY DEF DMsInv, GroupsInv, Adding
<1> QED BY <1>1, BoundShrinks

LEMMA GroupOpened ==
  ASSUME Base, DMsInv, GroupsInv, NEW t \in Tasks, Serve(t), task[t].call.op \in {"CreateDM", "CreateGroupDM"}
  PROVE  \A d \in db'.dms : Bound(RecipientsIn(db', d.id), Adding(d.id)')
<1> DEFINE c == task[t].call
<1>0. Moves(t) /\ Sound(db) /\ TalkTask(c, task[t].at, db)
  BY ServeFrame DEF DMsInv, Base, StoreInv
<1>1. \A dm : Adding(dm)' \subseteq Adding(dm) /\ RecipientsOf(dm) = RecipientsIn(db, dm)
  BY <1>0, AddingShrinks DEF RecipientsOf, RecipientsIn
<1>2. CASE db' = db
  <2>1. \A d \in db.dms : RecipientsIn(db', d.id) \subseteq RecipientsOf(d.id)
    BY <1>1, <1>2
  <2> QED BY <1>1, <1>2, <2>1, GroupsShrink
<1>3. ASSUME NEW row, NEW users, Opens(row, users), IsFiniteSet(users), Cardinality(users) <= MaxRecipients
      PROVE  \A d \in db'.dms : Bound(RecipientsIn(db', d.id), Adding(d.id)')
  <2>0. InsertDM(row, users).ok /\ db' = InsertDM(row, users).db
    BY <1>3 DEF Opens
  <2>1. db'.dms = db.dms \cup {row} /\ \A d \in db.dms : d.id # row.id
    BY <1>0, <2>0, Opened
  <2>2. \A d \in db.dms : RecipientsIn(db', d.id) = RecipientsOf(d.id)
    BY <1>0, <2>0, Opened
  <2>3. RecipientsIn(db', row.id) = users
    BY <1>0, <2>0, Opened
  <2>4. Adding(row.id)' = {}
    <3>1. ASSUME NEW s \in Adding(row.id) PROVE FALSE
      <4>1. task[s].call.op = "AddGroupDMMember" /\ task[s].at = "add" /\ task[s].call.channel = row.id /\ s \in Tasks
        BY <3>1 DEF Adding, Calls
      <4>2. IsGroup(db, row.id)
        BY <4>1 DEF DMsInv, TalkTask
      <4> QED BY <2>1, <4>2 DEF IsGroup
    <3> QED BY <1>1, <3>1
  <2>5. ASSUME NEW d \in db.dms PROVE Bound(RecipientsIn(db', d.id), Adding(d.id)')
    BY <1>1, <2>2, GroupsShrink
  <2>6. Bound(RecipientsIn(db', row.id), Adding(row.id)')
    BY <1>3, <2>3, <2>4, BoundOpened
  <2> QED BY <2>1, <2>5, <2>6
<1>4. CASE db' # db
  <2>1. CASE c.op = "CreateDM"
    <3>1. PICK row : row = [id |-> task[t].row.id, type |-> "dm", owner |-> 0]
      OBVIOUS
    <3>2. Opens(row, {c.by, c.user}) /\ task[t].at = "create"
      BY <1>4, <2>1, <3>1, Dispatch, PairSteps DEF Opens
    <3>3. c.user # c.by
      BY <1>0, <2>1, <3>2 DEF TalkTask
    <3>4. IsFiniteSet({c.by, c.user}) /\ Cardinality({c.by, c.user}) <= MaxRecipients
      BY <3>3, PairSize, RecipientsAssumption
    <3> QED BY <1>3, <3>2, <3>4
  <2>2. CASE c.op = "CreateGroupDM"
    <3>1. PICK row : row = [id |-> lastId + 1, type |-> "group", owner |-> c.by]
      OBVIOUS
    <3>2. Opens(row, c.users \cup {c.by}) /\ task[t].at = "create"
      BY <1>4, <2>2, <3>1, Dispatch, GroupSteps DEF Opens
    <3>3. IsFiniteSet(c.users) /\ Cardinality(c.users \cup {c.by}) <= MaxRecipients
      BY <1>0, <2>2, <3>2 DEF TalkTask
    <3>4. IsFiniteSet(c.users \cup {c.by})
      BY <3>3, FS_AddElement
    <3> QED BY <1>3, <3>2, <3>3, <3>4
  <2> QED BY <2>1, <2>2
<1> QED BY <1>2, <1>4

LEMMA GroupsStep == Base /\ DMsInv /\ GroupsInv /\ [Next]_vars => GroupsInv'
<1> SUFFICES ASSUME Base, DMsInv, GroupsInv, [Next]_vars
             PROVE  \A d \in db'.dms : Bound(RecipientsIn(db', d.id), Adding(d.id)')
  <2>1. \A dm : RecipientsOf(dm)' = RecipientsIn(db', dm)
    BY DEF RecipientsOf, RecipientsIn
  <2> QED BY <2>1 DEF GroupsInv, Bound
<1>0. \A dm : RecipientsOf(dm) = RecipientsIn(db, dm)
  BY DEF RecipientsOf, RecipientsIn
<1>1. ASSUME NEW t \in Tasks, Serve(t), task[t].call.op \notin {"AddGroupDMMember", "CreateDM", "CreateGroupDM"}
      PROVE  \A d \in db'.dms : Bound(RecipientsIn(db', d.id), Adding(d.id)')
  <2>1. db'.dms = db.dms /\ Moves(t)
    BY <1>1, ServeFrame DEF Frame, Writes, Tables
  <2>2. \A dm : Adding(dm)' \subseteq Adding(dm)
    BY <1>1, <2>1, AddingShrinks
  <2>3. \A d \in db.dms : RecipientsIn(db', d.id) \subseteq RecipientsOf(d.id)
    <3>1. CASE task[t].call.op = "RemoveGroupDMMember"
      <4> DEFINE c == task[t].call
      <4>1. db' = db \/ db' = RemoveRecipient(c.channel, c.user).db
        BY <1>1, <3>1, Dispatch, RemoveSteps
      <4>2. IsDatabase(db) /\ \A r \in db.recipients : IsRecipientRow(r)
        BY DEF Base, Shape, DMsInv
      <4>3. CASE db' = db
        BY <1>0, <4>3
      <4>4. CASE db' = RemoveRecipient(c.channel, c.user).db
        <5>1. \A dm : RecipientsIn(db', dm) = IF dm = c.channel THEN RecipientsOf(dm) \ {c.user} ELSE RecipientsOf(dm)
          BY <4>2, <4>4, Removed
        <5> QED BY <5>1
      <4> QED BY <4>1, <4>3, <4>4
    <3>2. CASE task[t].call.op # "RemoveGroupDMMember"
      <4>1. db'.recipients = db.recipients
        BY <1>1, <3>2, Untalked DEF Talkers
      <4> QED BY <4>1 DEF RecipientsOf, RecipientsIn
    <3> QED BY <3>1, <3>2
  <2> QED BY <2>1, <2>2, <2>3, GroupsShrink
<1>2. CASE Calm
  <2>1. db'.dms = db.dms /\ db'.recipients = db.recipients
    BY <1>2, CalmTalk
  <2>2. \A t \in Tasks : task'[t].at = "add" => task'[t] = task[t]
    BY <1>2, CalmTalk
  <2>3. \A dm : Adding(dm)' \subseteq Adding(dm)
    BY <2>2 DEF Adding, Calls
  <2>4. \A dm : RecipientsIn(db', dm) = RecipientsOf(dm)
    BY <2>1 DEF RecipientsOf, RecipientsIn
  <2> QED BY <2>1, <2>3, <2>4, GroupsShrink
<1> QED BY <1>1, <1>2, CalmSteps, GroupJoined, GroupOpened

\* A group exceeds maxGroupDMRecipients by at most one recipient per other
\* request, though AddGroupDMMember counts and inserts in two statements (dm.go).
THEOREM GroupCorrect == Spec => []GroupOvershoot
<1>1. Init => Base /\ DMsInv /\ GroupsInv
  <2> SUFFICES ASSUME Init, NEW d \in db.dms PROVE Bound(RecipientsOf(d.id), Adding(d.id))
    BY BaseInit, DMsInit DEF GroupsInv
  <2>1. DMsInv /\ Initial(db, lastId) /\ \A t \in Tasks : task[t].at = "idle"
    BY DMsInit
  <2>2. Adding(d.id) = {}
    BY <2>1 DEF Adding
  <2>3. Cardinality(Adding(d.id)) = 0
    BY <2>2, FS_EmptySet
  <2>4. RecipientsOf(d.id) = RecipientsIn(db, d.id)
    BY DEF RecipientsOf, RecipientsIn
  <2>5. Cardinality(RecipientsOf(d.id)) <= MaxRecipients + Cardinality(Tasks) - 1 /\ IsFiniteSet(RecipientsOf(d.id))
    BY <2>1, <2>4 DEF Initial, Conversing, DMsInv
  <2> QED BY <2>3, <2>5, FS_CardinalityType DEF Bound
<1>2. Base /\ DMsInv /\ GroupsInv /\ [Next]_vars => (Base /\ DMsInv /\ GroupsInv)'
  BY BaseStep, DMsStep, GroupsStep
<1>3. GroupsInv => GroupOvershoot
  BY DEF GroupsInv, Bound, GroupOvershoot
<1> QED BY <1>1, <1>2, <1>3, PTL DEF Spec
-----------------------------------------------------------------------------
(***************************************************************************)
(* A page: the newest ids below a cursor.                                  *)
(***************************************************************************)
LEMMA Smallest ==
  ASSUME NEW S \in SUBSET Nat, S # {}
  PROVE  \E x \in S : \A y \in S : x <= y
<1> DEFINE R == {ss \in Nat \X Nat : ss[1] < ss[2]}
<1>1. IsWellFoundedOn(R, Nat)
  BY NatLessThanWellFounded DEF OpToRel
<1>2. PICK x \in S : \A y \in S : ~(<<y, x>> \in R)
  BY <1>1, WFMin
<1>3. ASSUME NEW y \in S PROVE x <= y
  <2>1. y \in Nat /\ x \in Nat /\ ~(<<y, x>> \in R)
    BY <1>2
  <2>2. y < x => <<y, x>> \in R
    BY <2>1
  <2> HIDE DEF R
  <2> QED BY <2>1, <2>2
<1> QED BY <1>3

LEMMA Largest ==
  ASSUME NEW n \in Nat, NEW S \in SUBSET (0..n), S # {}
  PROVE  \E x \in S : \A y \in S : y <= x
<1> DEFINE T == {n - y : y \in S}
<1>1. \A y \in S : n - y \in Nat
  OBVIOUS
<1>2. T \in SUBSET Nat /\ T # {}
  BY <1>1
<1>3. PICK z \in T : \A y \in T : z <= y
  BY <1>2, Smallest
<1>4. PICK x \in S : z = n - x
  OBVIOUS
<1>5. \A y \in S : y <= x
  BY <1>3, <1>4
<1> QED BY <1>5
\* The page of GetMessages, of the ids below its cursor.
Newest(ids, limit) == {i \in ids : Cardinality({n \in ids : n > i}) < limit}

LEMMA NewestShape ==
  ASSUME NEW last \in Nat, NEW ids \in SUBSET (1..last), NEW limit \in Nat \ {0}
  PROVE  /\ Cardinality(Newest(ids, limit)) < limit => Newest(ids, limit) = ids
         /\ ~(Cardinality(Newest(ids, limit)) < limit) =>
              /\ Oldest(Newest(ids, limit)) \in Newest(ids, limit)
              /\ \A i \in ids : i \in Newest(ids, limit) \/ i < Oldest(Newest(ids, limit))
<1> DEFINE page == Newest(ids, limit)
           Above(i) == {n \in ids : n > i}
<1>1. IsFiniteSet(ids) /\ ids \in SUBSET Nat
  <2>1. IsFiniteSet(1..last)
    BY FS_Interval
  <2>2. IsFiniteSet(ids)
    BY <2>1, FS_Subset
  <2> QED BY <2>2
<1>2. page \subseteq ids /\ \A i \in ids : i \in page <=> Cardinality(Above(i)) < limit
  BY DEF Newest
<1> HIDE DEF page
<1>3. ASSUME NEW S, S \subseteq ids PROVE IsFiniteSet(S) /\ Cardinality(S) \in Nat
  <2>1. IsFiniteSet(S)
    BY <1>1, <1>3, FS_Subset
  <2> QED BY <2>1, FS_CardinalityType
<1>4. ASSUME NEW S, NEW T, S \subseteq T, T \subseteq ids PROVE Cardinality(S) <= Cardinality(T)
  <2>1. IsFiniteSet(T)
    BY <1>3, <1>4
  <2> QED BY <1>4, <2>1, FS_Subset
<1>5. ASSUME NEW i \in page, NEW j \in ids, j > i PROVE j \in page
  <2>1. i \in Nat /\ j \in Nat /\ \A n \in ids : n \in Nat
    BY <1>1, <1>2
  <2>2. \A n \in ids : n > j => n > i
    BY <1>5, <2>1
  <2>3. Above(j) \subseteq Above(i) /\ Above(i) \subseteq ids
    BY <2>2
  <2> HIDE DEF Above
  <2>4. Cardinality(Above(j)) <= Cardinality(Above(i)) /\ Cardinality(Above(i)) < limit
    BY <1>2, <1>4, <2>3
  <2>5. Cardinality(Above(j)) \in Nat /\ Cardinality(Above(i)) \in Nat
    BY <1>3, <2>3
  <2>6. Cardinality(Above(j)) < limit
    BY <2>4, <2>5
  <2> QED BY <1>2, <2>6
<1>6. ASSUME Cardinality(page) < limit PROVE page = ids
  <2> SUFFICES ASSUME ids \ page # {} PROVE FALSE
    BY <1>2
  <2>0. \A i \in 1..last : i \in 0..last
    OBVIOUS
  <2>1. ids \ page \in SUBSET (0..last)
    BY <2>0
  <2>2. PICK i \in ids \ page : \A j \in ids \ page : j <= i
    BY <2>1, Largest
  <2>3. i \in Nat /\ \A n \in ids : n \in Nat
    BY <1>1
  <2>4. \A n \in ids : n > i => n \in page
    BY <2>2, <2>3
  <2>5. Above(i) \subseteq page
    BY <2>4
  <2> HIDE DEF Above
  <2>6. Cardinality(Above(i)) <= Cardinality(page)
    BY <1>2, <1>4, <2>5
  <2>7. Cardinality(Above(i)) \in Nat /\ Cardinality(page) \in Nat
    BY <1>2, <1>3, <2>5
  <2>8. Cardinality(Above(i)) < limit
    BY <1>6, <2>6, <2>7
  <2> QED BY <1>2, <2>8
<1>7. ASSUME ~(Cardinality(page) < limit)
      PROVE  Oldest(page) \in page /\ \A i \in ids : i \in page \/ i < Oldest(page)
  <2>1. page # {}
    BY <1>7, FS_EmptySet
  <2>2. page \in SUBSET Nat
    BY <1>1, <1>2
  <2>3. \E i \in page : \A j \in page : i <= j
    BY <2>1, <2>2, Smallest
  <2>4. Oldest(page) \in page
    BY <2>3 DEF Oldest
  <2>5. ASSUME NEW i \in ids, i \notin page PROVE i < Oldest(page)
    <3>1. ~(i > Oldest(page)) /\ i # Oldest(page)
      BY <1>5, <2>4, <2>5
    <3>2. i \in Nat /\ Oldest(page) \in Nat
      BY <1>1, <2>2, <2>4
    <3> QED BY <3>1, <3>2
  <2> QED BY <2>4, <2>5
<1> QED BY <1>6, <1>7 DEF page
-----------------------------------------------------------------------------
(***************************************************************************)
(* Paging through the history of a channel.                                *)
(***************************************************************************)
Posting(request) == request.call.op = "SendMessage" /\ request.at = "insert"
Paging(request) == request.call.op = "ReadHistory" /\ request.at \in {"may", "page", "again", "shown"}

\* A reader has seen each of the first messages that there still is, or has not
\* come down to it.
Reads(request, messages, last) ==
  LET r == request.row IN
  Paging(request) =>
    /\ r = [guild |-> r.guild, dm |-> r.dm, before |-> r.before, seen |-> r.seen, initial |-> r.initial]
    /\ r.initial \subseteq 1..last /\ r.before \in 0..last
    /\ \A x \in messages :
         x.id \in r.initial =>
           /\ x.channel = request.call.channel
           /\ x.id \in r.seen \/ (request.at # "shown" /\ (r.before = 0 \/ x.id < r.before))

\* A message about to be inserted has an id that nobody else has seen.
PagingInv ==
  /\ \A x \in db.messages : x.id \in 1..lastId
  /\ \A t \in Tasks : Reads(task[t], db.messages, lastId)
  /\ \A s \in Tasks :
       Posting(task[s]) =>
         /\ task[s].row.id \in 1..lastId
         /\ \A x \in db.messages : x.id # task[s].row.id
         /\ \A t \in Tasks : Paging(task[t]) => task[s].row.id \notin task[t].row.initial
         /\ \A t \in Tasks \ {s} : Posting(task[t]) => task[t].row.id # task[s].row.id

\* Every message has been there, or is the one that the request inserts.
MessagesFrom(request, next) ==
  \A x \in db'.messages :
    \/ \E y \in db.messages : y.id = x.id /\ y.channel = x.channel
    \/ Posting(request) /\ x.id = request.row.id /\ ~Posting(next)

PagingMove(t) ==
  /\ Moves(t) /\ lastId \in Nat /\ lastId' \in {lastId, lastId + 1}
  /\ MessagesFrom(task[t], task'[t])
  /\ Reads(task'[t], db'.messages, lastId')
  /\ Paging(task'[t]) =>
       \A i \in task'[t].row.initial : \/ Paging(task[t]) /\ i \in task[t].row.initial
                                       \/ \E y \in db.messages : y.id = i
  /\ Posting(task'[t]) => task'[t].row.id = lastId + 1 /\ lastId' = lastId + 1 /\ db' = db

LEMMA PagingMoves ==
  ASSUME PagingInv, NEW t \in Tasks, PagingMove(t)
  PROVE  PagingInv'
<1>1. /\ lastId \in Nat /\ lastId' \in Nat /\ lastId <= lastId'
      /\ \A u \in Tasks \ {t} : task'[u] = task[u]
  BY DEF PagingMove, Moves
<1>2. /\ \A x \in db.messages : x.id \in 1..lastId
      /\ \A s \in Tasks : Posting(task[s]) => task[s].row.id \in 1..lastId
      /\ \A u \in Tasks : Paging(task[u]) => task[u].row.initial \subseteq 1..lastId
  BY DEF PagingInv, Reads
<1>3. \A x \in db'.messages : x.id \in 1..lastId'
  <2>1. \A x \in db'.messages : x.id \in 1..lastId
    BY <1>2 DEF PagingMove, MessagesFrom
  <2> QED BY <1>1, <2>1
<1>4. ASSUME NEW u \in Tasks PROVE Reads(task'[u], db'.messages, lastId')
  <2>1. CASE u = t
    BY <2>1 DEF PagingMove
  <2>2. CASE u # t
    <3>1. task'[u] = task[u] /\ Reads(task[u], db.messages, lastId)
      BY <1>1, <2>2 DEF PagingInv
    <3>2. Posting(task[t]) /\ Paging(task[u]) => task[t].row.id \notin task[u].row.initial
      BY DEF PagingInv
    <3>3. Paging(task[u]) =>
            \A x \in db'.messages : x.id \in task[u].row.initial =>
              \E y \in db.messages : y.id = x.id /\ y.channel = x.channel
      BY <3>2 DEF PagingMove, MessagesFrom
    <3>4. Paging(task[u]) => task[u].row.initial \subseteq 1..lastId' /\ task[u].row.before \in 0..lastId'
      BY <1>1, <3>1 DEF Reads
    <3> QED BY <3>1, <3>3, <3>4 DEF Reads
  <2> QED BY <2>1, <2>2
<1>5. ASSUME NEW s \in Tasks, Posting(task'[s])
      PROVE  /\ task'[s].row.id \in 1..lastId'
             /\ \A x \in db'.messages : x.id # task'[s].row.id
             /\ \A u \in Tasks : Paging(task'[u]) => task'[s].row.id \notin task'[u].row.initial
             /\ \A u \in Tasks \ {s} : Posting(task'[u]) => task'[u].row.id # task'[s].row.id
  <2>1. CASE s = t
    <3>1. task'[s].row.id = lastId + 1 /\ lastId' = lastId + 1 /\ db' = db
      BY <1>5, <2>1 DEF PagingMove
    <3>2. ~Paging(task'[t])
      BY <1>5, <2>1 DEF Posting, Paging
    <3>3. \A i \in 1..lastId : i # lastId + 1
      BY <1>1
    <3>4. task'[s].row.id \in 1..lastId'
      BY <1>1, <3>1
    <3>5. \A x \in db'.messages : x.id # task'[s].row.id
      BY <1>2, <3>1, <3>3
    <3>6. \A u \in Tasks : Paging(task'[u]) => task'[s].row.id \notin task'[u].row.initial
      BY <1>1, <1>2, <3>1, <3>2, <3>3
    <3>7. \A u \in Tasks \ {s} : Posting(task'[u]) => task'[u].row.id # task'[s].row.id
      BY <1>1, <1>2, <2>1, <3>1, <3>3
    <3> QED BY <3>4, <3>5, <3>6, <3>7
  <2>2. CASE s # t
    <3>1. task'[s] = task[s] /\ Posting(task[s])
      BY <1>1, <1>5, <2>2
    <3>2. /\ task[s].row.id \in 1..lastId
          /\ \A x \in db.messages : x.id # task[s].row.id
          /\ \A u \in Tasks : Paging(task[u]) => task[s].row.id \notin task[u].row.initial
          /\ \A u \in Tasks \ {s} : Posting(task[u]) => task[u].row.id # task[s].row.id
      BY <3>1 DEF PagingInv
    <3>3. task[s].row.id \in 1..lastId'
      BY <1>1, <3>2
    <3>4. \A x \in db'.messages : x.id # task[s].row.id
      BY <2>2, <3>2 DEF PagingMove, MessagesFrom
    <3>5. ASSUME NEW u \in Tasks, Paging(task'[u]) PROVE task[s].row.id \notin task'[u].row.initial
      <4>1. CASE u = t
        BY <3>2, <3>5, <4>1 DEF PagingMove
      <4>2. CASE u # t
        BY <1>1, <3>2, <3>5, <4>2
      <4> QED BY <4>1, <4>2
    <3>6. ASSUME NEW u \in Tasks \ {s}, Posting(task'[u]) PROVE task'[u].row.id # task[s].row.id
      <4>1. CASE u = t
        <5>1. task'[u].row.id = lastId + 1
          BY <3>6, <4>1 DEF PagingMove
        <5> QED BY <1>1, <3>2, <5>1
      <4>2. CASE u # t
        BY <1>1, <3>2, <3>6, <4>2
      <4> QED BY <4>1, <4>2
    <3> QED BY <3>1, <3>3, <3>4, <3>5, <3>6
  <2> QED BY <2>1, <2>2
<1> QED BY <1>3, <1>4, <1>5 DEF PagingInv
-----------------------------------------------------------------------------
LEMMA MessageRows ==
  ASSUME IsDatabase(db), \A m \in db.messages : IsMessage(m)
  PROVE  /\ \A row : InsertMessage(row).db.messages = db.messages \cup {row}
         /\ \A id : \A x \in UpdateMessageRow(id).db.messages :
              \E y \in db.messages : y.id = x.id /\ y.channel = x.channel
         /\ \A id : DeleteMessageRow(id).db.messages \subseteq db.messages
         /\ \A c : DeleteChannelRow(c).db.messages \subseteq db.messages
         /\ \A g : DeleteGuildRow(g).db.messages \subseteq db.messages
<1>1. \A row : InsertMessage(row).db.messages = db.messages \cup {row}
  BY DEF InsertMessage, Insert, Statement, IsDatabase, Tables
<1>2. ASSUME NEW id, NEW x \in UpdateMessageRow(id).db.messages
      PROVE  \E y \in db.messages : y.id = x.id /\ y.channel = x.channel
  <2>1. UpdateMessageRow(id).db.messages = {IF m.id = id THEN [m EXCEPT !.edited = TRUE] ELSE m : m \in db.messages}
    BY DEF UpdateMessageRow, Statement, IsDatabase, Tables
  <2>2. PICK m \in db.messages : x = IF m.id = id THEN [m EXCEPT !.edited = TRUE] ELSE m
    BY <2>1
  <2>3. [m EXCEPT !.edited = TRUE].id = m.id /\ [m EXCEPT !.edited = TRUE].channel = m.channel
    BY DEF IsMessage
  <2> QED BY <2>2, <2>3
<1>3. \A id : DeleteMessageRow(id).db.messages \subseteq db.messages
  BY DEF DeleteMessageRow, WithoutMessages, Statement, IsDatabase, Tables
<1>4. ASSUME NEW c PROVE DeleteChannelRow(c).db.messages \subseteq db.messages
  <2>1. DeleteChannelRow(c).db = WithoutChannels(db, ById("channels", c))
    BY DEF DeleteChannelRow, Statement
  <2> QED BY <2>1, CascadeRows
<1>5. \A g : DeleteGuildRow(g).db.messages \subseteq db.messages
  BY FewerRows DEF Tables
<1> QED BY <1>1, <1>2, <1>3, <1>4, <1>5

\* A request that neither reads a history nor inserts a message.
LEMMA PagingOthers ==
  ASSUME Base, NEW t \in Tasks, Serve(t), task[t].call.op \notin {"ReadHistory", "SendMessage"}
  PROVE  PagingMove(t)
<1>0. /\ Moves(t) /\ Frame(t) /\ lastId \in Nat /\ lastId' \in {lastId, lastId + 1}
      /\ IsDatabase(db) /\ \A m \in db.messages : IsMessage(m)
  BY ServeFrame DEF Base, Shape, StoreInv, Sound, Refers, Tables
<1>1. MessagesFrom(task[t], task'[t])
  <2>1. CASE task[t].call.op \in {"EditMessage", "DeleteMessage", "DeleteChannel", "DeleteGuild"}
    <3>1. \/ db' = db
          \/ \E id : db' = UpdateMessageRow(id).db \/ db' = DeleteMessageRow(id).db
          \/ \E c : db' = DeleteChannelRow(c).db
          \/ \E g : db' = DeleteGuildRow(g).db
      BY <2>1, Dispatch DEF EditMessage, DeleteMessage, DeleteChannel, DeleteGuild, Require, Select, Execute
    <3> QED BY <1>0, <3>1, MessageRows DEF MessagesFrom
  <2>2. CASE task[t].call.op \notin {"EditMessage", "DeleteMessage", "DeleteChannel", "DeleteGuild"}
    <3>1. db'.messages = db.messages
      BY <1>0, <2>2 DEF Frame, Writes, Tables
    <3> QED BY <3>1 DEF MessagesFrom
  <2> QED BY <2>1, <2>2
<1>2. ~Paging(task'[t]) /\ ~Posting(task'[t])
  BY <1>0 DEF Moves, Free, Paging, Posting
<1> QED BY <1>0, <1>1, <1>2 DEF PagingMove, Reads

LEMMA PagingSend ==
  ASSUME Base, NEW t \in Tasks, SendMessage(t), Serve(t)
  PROVE  PagingMove(t)
<1> DEFINE c == task[t].call
           r == task[t].row
           message == [id |-> r.id, channel |-> c.channel, author |-> c.by, edited |-> FALSE]
           fresh == [guild |-> r.guild, dm |-> r.dm, id |-> lastId + 1]
<1>0. /\ Moves(t) /\ lastId \in Nat /\ lastId' \in {lastId, lastId + 1} /\ TasksShape /\ c.op = "SendMessage"
      /\ IsDatabase(db) /\ \A m \in db.messages : IsMessage(m)
  BY ServeFrame DEF Base, Shape, StoreInv, Sound, Refers, Tables, SendMessage, Calls
<1>1. ~Paging(task'[t])
  BY <1>0 DEF Moves, Free, Paging
<1>2. ASSUME MessagesFrom(task[t], task'[t]),
             Posting(task'[t]) => task'[t].row.id = lastId + 1 /\ lastId' = lastId + 1 /\ db' = db
      PROVE  PagingMove(t)
  BY <1>0, <1>1, <1>2 DEF PagingMove, Reads
<1>3. ASSUME NEW next, NEW row, Comes(t, next, row), next # "insert" PROVE ~Posting(task'[t])
  BY <1>3 DEF Comes, Posting, Free
<1>4. db' = db => MessagesFrom(task[t], task'[t])
  BY DEF MessagesFrom
<1>5. CASE Select(t, "start", Access(c.channel, c.by), "may")
  <2>1. db' = db /\ \E row : Comes(t, "may", row)
    BY <1>0, <1>5, Coming DEF Select, Comes
  <2> QED BY <1>2, <1>3, <1>4, <2>1
<1>6. CASE \/ Require(t, "may", Allowed(t, {"SEND"}), "id")
           \/ Require(t, "read", ById("messages", r.id) # {}, "done")
  <2>1. db' = db /\ (Comes(t, "id", r) \/ Comes(t, "done", r))
    BY <1>0, <1>6, Coming DEF Require, Comes
  <2> QED BY <1>2, <1>3, <1>4, <2>1
<1>7. CASE NewId(t, "id", "insert", fresh)
  <2>1. db' = db /\ lastId' = lastId + 1 /\ Comes(t, "insert", fresh)
    BY <1>0, <1>7, Coming DEF NewId
  <2>2. fresh.id = lastId + 1
    OBVIOUS
  <2> HIDE DEF fresh
  <2>3. Posting(task'[t]) => task'[t].row.id = lastId + 1
    BY <2>1, <2>2 DEF Comes, Posting, Free
  <2> QED BY <1>2, <1>4, <2>1, <2>3
<1>8. CASE Execute(t, "insert", InsertMessage(message), "read")
  <2>1. Comes(t, "read", r) /\ task[t].at = "insert" /\ (db' = db \/ db' = InsertMessage(message).db)
    BY <1>0, <1>8, Coming DEF Execute, Comes
  <2>2. message.id = r.id
    OBVIOUS
  <2> HIDE DEF message
  <2>3. Posting(task[t]) /\ ~Posting(task'[t])
    BY <1>0, <1>3, <2>1 DEF Posting
  <2>4. InsertMessage(message).db.messages = db.messages \cup {message}
    BY <1>0, MessageRows
  <2>5. MessagesFrom(task[t], task'[t])
    BY <1>4, <2>1, <2>2, <2>3, <2>4 DEF MessagesFrom
  <2> QED BY <1>2, <2>3, <2>5
<1> QED BY <1>5, <1>6, <1>7, <1>8 DEF SendMessage

LEMMA PagingRead ==
  ASSUME Base, PagingInv, NEW t \in Tasks, ReadHistory(t), Serve(t)
  PROVE  PagingMove(t)
<1> DEFINE c == task[t].call
           r == task[t].row
           page == Page(c.channel, IF r.before = 0 THEN lastId + 1 ELSE r.before, PageLimit)
           initial == {y.id : y \in {x \in db.messages : x.channel = c.channel}}
           first(a) == [guild |-> a.guild, dm |-> a.dm, before |-> 0, seen |-> {}, initial |-> initial]
           last(row) == [row EXCEPT !.seen = @ \cup page]
           more(row) == [row EXCEPT !.seen = @ \cup page, !.before = Oldest(page)]
           messages == db.messages
<1>0. /\ Moves(t) /\ lastId \in Nat /\ lastId' \in {lastId, lastId + 1} /\ TasksShape /\ c.op = "ReadHistory"
      /\ \A x, y \in messages : x.id = y.id => x = y
      /\ \A x \in messages : x.id \in 1..lastId
      /\ Reads(task[t], messages, lastId)
  BY ServeFrame DEF Base, Shape, StoreInv, Sound, Unique, Keyed, Same, ReadHistory, Calls, PagingInv
<1>1. ASSUME db' = db, lastId' = lastId, Reads(task'[t], messages, lastId),
             Paging(task'[t]) => \A i \in task'[t].row.initial : \/ Paging(task[t]) /\ i \in r.initial
                                                                 \/ \E y \in messages : y.id = i
      PROVE  PagingMove(t)
  <2>1. ~Posting(task'[t])
    BY <1>0 DEF Moves, Free, Posting
  <2>2. MessagesFrom(task[t], task'[t])
    BY <1>1 DEF MessagesFrom
  <2> QED BY <1>0, <1>1, <2>1, <2>2 DEF PagingMove
<1>2. ASSUME NEW row, Comes(t, "done", row) PROVE ~Paging(task'[t])
  BY <1>2 DEF Comes, Paging, Free
<1>3. ASSUME db' = db, lastId' = lastId, ~Paging(task'[t]) PROVE PagingMove(t)
  BY <1>1, <1>3 DEF Reads
<1>4. CASE Select(t, "start", {first(a) : a \in Access(c.channel, c.by)}, "may")
  <2>1. /\ db' = db /\ lastId' = lastId
        /\ task'[t] = Free \/ \E a \in Access(c.channel, c.by) : Comes(t, "may", first(a))
    <3>1. \A a \in Access(c.channel, c.by) : Carry(t, "may", first(a)) => Comes(t, "may", first(a))
      BY <1>0, Coming
    <3>2. Return(t) => task'[t] = Free
      BY <1>0, Coming
    <3> QED BY <1>4, <3>1, <3>2 DEF Select
  <2>2. ASSUME NEW row, row = [guild |-> row.guild, dm |-> row.dm, before |-> 0, seen |-> {}, initial |-> initial],
               Comes(t, "may", row)
        PROVE  PagingMove(t)
    <3>1. CASE task'[t] = Free
      <4>1. ~Paging(task'[t])
        BY <3>1 DEF Free, Paging
      <4> QED BY <1>3, <2>1, <4>1
    <3>2. CASE task'[t] # Free
      <4>1. task'[t].call = c /\ task'[t].at = "may" /\ task'[t].row = row
        BY <2>2, <3>2 DEF Comes
      <4>2. row.initial = initial /\ row.before = 0
        BY <2>2
      <4>3. \A i \in row.initial : \E y \in messages : y.id = i /\ y.channel = c.channel
        BY <4>2
      <4>4. \A x \in messages : x.id \in row.initial => x.channel = c.channel
        BY <1>0, <4>3
      <4>5. row.initial \subseteq 1..lastId /\ row.before \in 0..lastId
        BY <1>0, <4>2, <4>3
      <4> HIDE DEF initial, c, messages
      <4>6. row = [guild |-> row.guild, dm |-> row.dm, before |-> row.before, seen |-> row.seen, initial |-> row.initial]
        BY <2>2
      <4>7. Reads(task'[t], messages, lastId)
        BY <4>1, <4>2, <4>4, <4>5, <4>6 DEF Reads
      <4> QED BY <1>1, <2>1, <4>1, <4>3, <4>7
    <3> QED BY <3>1, <3>2
  <2>3. CASE task'[t] = Free
    <3>1. ~Paging(task'[t])
      BY <2>3 DEF Free, Paging
    <3> QED BY <1>3, <2>1, <3>1
  <2>4. ASSUME NEW a \in Access(c.channel, c.by), Comes(t, "may", first(a)) PROVE PagingMove(t)
    <3> HIDE DEF initial
    <3>1. first(a) = [guild |-> first(a).guild, dm |-> first(a).dm, before |-> 0, seen |-> {}, initial |-> initial]
      OBVIOUS
    <3> HIDE DEF first
    <3> QED BY <2>2, <2>4, <3>1
  <2> QED BY <2>1, <2>3, <2>4
<1>5. CASE \/ Require(t, "may", Allowed(t, {"HISTORY"}), "page")
           \/ Require(t, "again", Access(c.channel, c.by) # {}, "may")
           \/ Require(t, "shown", TRUE, "done")
  <2>1. /\ db' = db /\ lastId' = lastId
        /\ \/ Comes(t, "done", r)
           \/ task[t].at \in {"may", "again"} /\ \E next \in {"page", "may"} : Comes(t, next, r)
    BY <1>0, <1>5, Coming DEF Require, Comes
  <2>2. CASE Comes(t, "done", r) \/ task'[t] = Free
    <3>1. task'[t] = Free => ~Paging(task'[t])
      BY DEF Free, Paging
    <3> QED BY <1>2, <1>3, <2>1, <2>2, <3>1
  <2>3. ASSUME task[t].at \in {"may", "again"}, task'[t] # Free, NEW next \in {"page", "may"}, Comes(t, next, r)
        PROVE  PagingMove(t)
    <3>1. /\ task'[t].call = c /\ task'[t].at \in {"page", "may"} /\ task'[t].row = r
          /\ Paging(task[t])
      BY <1>0, <2>3 DEF Comes, Paging
    <3>2. Reads(task'[t], messages, lastId)
      BY <1>0, <2>3, <3>1 DEF Reads
    <3> QED BY <1>1, <2>1, <3>1, <3>2
  <2> QED BY <2>1, <2>2, <2>3
<1>6. CASE /\ task[t].at = "page"
           /\ IF Cardinality(page) < PageLimit THEN Carry(t, "shown", last(r)) ELSE Carry(t, "again", more(r))
           /\ UNCHANGED <<db, lastId>>
  <2> DEFINE cursor == IF r.before = 0 THEN lastId + 1 ELSE r.before
             below == {x.id : x \in {y \in messages : y.channel = c.channel /\ y.id < cursor}}
  <2>1. /\ Paging(task[t])
        /\ r = [guild |-> r.guild, dm |-> r.dm, before |-> r.before, seen |-> r.seen, initial |-> r.initial]
        /\ r.initial \subseteq 1..lastId /\ r.before \in 0..lastId
        /\ \A x \in messages : x.id \in r.initial =>
             /\ x.channel = c.channel
             /\ x.id \in r.seen \/ r.before = 0 \/ x.id < r.before
    BY <1>0, <1>6 DEF Paging, Reads
  <2>2. below \in SUBSET (1..lastId)
    BY <1>0
  <2>3. page = Newest(below, PageLimit)
    BY DEF Page, Newest
  <2>4. \A x \in messages : x.id \in r.initial => x.id \in r.seen \/ x.id \in below
    BY <1>0, <2>1
  <2> HIDE DEF page, below
  <2>5. /\ Cardinality(page) < PageLimit => page = below
        /\ ~(Cardinality(page) < PageLimit) =>
             Oldest(page) \in page /\ \A i \in below : i \in page \/ i < Oldest(page)
    BY <1>0, <2>2, <2>3, PageAssumption, NewestShape
  <2>6. page \subseteq 1..lastId
    BY <2>2, <2>3 DEF Newest
  <2>7. CASE Cardinality(page) < PageLimit
    <3>1. PICK row : row = last(r)
      OBVIOUS
    <3>2. /\ row = [guild |-> row.guild, dm |-> row.dm, before |-> row.before, seen |-> row.seen, initial |-> row.initial]
          /\ row.seen = r.seen \cup page /\ row.initial = r.initial /\ row.before = r.before
      BY <2>1, <3>1
    <3>3. Comes(t, "shown", row) /\ db' = db /\ lastId' = lastId
      BY <1>0, <1>6, <2>7, <3>1, Coming
    <3>4. \A x \in messages : x.id \in row.initial => x.channel = c.channel /\ x.id \in row.seen
      BY <2>1, <2>4, <2>5, <2>7, <3>2
    <3>5. Reads(task'[t], messages, lastId)
      <4>1. CASE task'[t] = Free
        BY <4>1 DEF Reads, Paging, Free
      <4>2. CASE task'[t].call = c /\ task'[t].at = "shown" /\ task'[t].row = row
        BY <2>1, <3>2, <3>4, <4>2 DEF Reads
      <4> QED BY <3>3, <4>1, <4>2 DEF Comes
    <3>6. Paging(task'[t]) => task'[t].row = row
      BY <3>3 DEF Comes, Paging, Free
    <3> QED BY <1>1, <2>1, <3>2, <3>3, <3>5, <3>6
  <2>8. CASE ~(Cardinality(page) < PageLimit)
    <3>1. PICK row : row = more(r)
      OBVIOUS
    <3>2. /\ row = [guild |-> row.guild, dm |-> row.dm, before |-> row.before, seen |-> row.seen, initial |-> row.initial]
          /\ row.seen = r.seen \cup page /\ row.initial = r.initial /\ row.before = Oldest(page)
      BY <2>1, <3>1
    <3>3. Comes(t, "again", row) /\ db' = db /\ lastId' = lastId
      BY <1>0, <1>6, <2>8, <3>1, Coming
    <3>4. \A x \in messages : x.id \in row.initial => x.channel = c.channel /\ (x.id \in row.seen \/ x.id < row.before)
      BY <2>1, <2>4, <2>5, <2>8, <3>2
    <3>5. row.before \in 0..lastId
      BY <2>5, <2>6, <2>8, <3>2
    <3>6. Reads(task'[t], messages, lastId)
      <4>1. CASE task'[t] = Free
        BY <4>1 DEF Reads, Paging, Free
      <4>2. CASE task'[t].call = c /\ task'[t].at = "again" /\ task'[t].row = row
        BY <2>1, <3>2, <3>4, <3>5, <4>2 DEF Reads
      <4> QED BY <3>3, <4>1, <4>2 DEF Comes
    <3>7. Paging(task'[t]) => task'[t].row = row
      BY <3>3 DEF Comes, Paging, Free
    <3> QED BY <1>1, <2>1, <3>2, <3>3, <3>6, <3>7
  <2> QED BY <2>7, <2>8
<1> QED BY <1>4, <1>5, <1>6 DEF ReadHistory

LEMMA PagingStep == Base /\ PagingInv /\ [Next]_vars => PagingInv'
<1> SUFFICES ASSUME Base, PagingInv, [Next]_vars PROVE PagingInv'
  OBVIOUS
<1>1. ASSUME NEW t \in Tasks, Serve(t) PROVE PagingInv'
  <2>1. task[t].call.op = "SendMessage" => SendMessage(t)
    BY <1>1, Dispatch
  <2>2. task[t].call.op = "ReadHistory" => ReadHistory(t)
    BY <1>1, Dispatch
  <2>3. PagingMove(t)
    BY <1>1, <2>1, <2>2, PagingOthers, PagingSend, PagingRead
  <2> QED BY <2>3, PagingMoves
<1>2. CASE Calm
  <2>1. db'.messages = db.messages /\ lastId' = lastId
    BY <1>2 DEF Calm, Tables
  <2>2. ASSUME NEW t \in Tasks PROVE task'[t] = task[t] \/ (~Paging(task'[t]) /\ ~Posting(task'[t]))
    <3>1. task'[t] = Free => ~Paging(task'[t]) /\ ~Posting(task'[t])
      BY DEF Free, Paging, Posting
    <3>2. Begun(t) => ~Paging(task'[t]) /\ ~Posting(task'[t])
      BY BegunAtStart DEF Paging, Posting
    <3> QED BY <1>2, <3>1, <3>2 DEF Calm
  <2>3. \A t \in Tasks : Reads(task'[t], db'.messages, lastId')
    BY <2>1, <2>2 DEF PagingInv, Reads
  <2> QED BY <2>1, <2>2, <2>3 DEF PagingInv
<1> QED BY <1>1, <1>2, CalmSteps

LEMMA PagingInit == Init => PagingInv
<1> SUFFICES ASSUME Init PROVE PagingInv
  OBVIOUS
<1>1. Initial(db, lastId) /\ \A t \in Tasks : task[t].at = "idle"
  BY DMsInit
<1>2. \A x \in db.messages : x.id \in 1..lastId
  BY <1>1 DEF Initial
<1> QED BY <1>1, <1>2 DEF PagingInv, Reads, Paging, Posting

\* A reader who pages to the end has every message that was there throughout,
\* while others send, edit and delete, and delete channels and guilds: the cursor
\* is an id, ids grow, and a page that is not full is the last (message.go,
\* messages.go).
THEOREM PagingCorrect == Spec => []PagingSeesAll
<1>1. Init => Base /\ PagingInv
  BY BaseInit, PagingInit
<1>2. Base /\ PagingInv /\ [Next]_vars => (Base /\ PagingInv)'
  BY BaseStep, PagingStep
<1>3. PagingInv => PagingSeesAll
  <2> SUFFICES ASSUME PagingInv, NEW t \in Tasks, Calls(t, "ReadHistory"), task[t].at = "shown",
                      NEW i \in task[t].row.initial, ById("messages", i) # {}
               PROVE  i \in task[t].row.seen
    BY DEF PagingSeesAll
  <2>1. Reads(task[t], db.messages, lastId) /\ Paging(task[t])
    BY DEF PagingInv, Paging, Calls
  <2>2. PICK x \in db.messages : x.id = i
    BY DEF ById
  <2> QED BY <2>1, <2>2 DEF Reads
<1> QED BY <1>1, <1>2, <1>3, PTL DEF Spec

=============================================================================
