---------------------------- MODULE Conversations ----------------------------
(***************************************************************************)
(* The services of messages, reactions, read states, voice, uploads and    *)
(* direct messages, and the typing handler of the gateway.                 *)
(***************************************************************************)
EXTENDS Permissions

CONSTANTS PageLimit,    \* messages per page (50 in the web client)
          MaxRecipients \* maxGroupDMRecipients

ASSUME PageAssumption == PageLimit \in Nat \ {0}
ASSUME RecipientsAssumption == MaxRecipients \in Nat /\ MaxRecipients >= 2

\* resolveChannelAccess: a channel of a guild, or a direct-message channel the
\* user is a recipient of.
Access(channel, u) ==
  {[guild |-> c.guild, dm |-> FALSE] : c \in ById("channels", channel)}
    \cup {[guild |-> 0, dm |-> TRUE] : d \in {x \in ById("dms", channel) :
                                              ~HasChannel(channel) /\ IsRecipient(channel, u)}}

\* The permission a request needs in the channel it has resolved.
Allowed(t, wanted) ==
  LET c == task[t].call
      r == task[t].row
  IN  r.dm \/ MayInChannel(r.guild, c.channel, c.by, wanted)

MessageIn(message, channel) == {m \in ById("messages", message) : m.channel = channel}

SendMessage(t) ==
  LET c == task[t].call
      r == task[t].row
      message == [id |-> r.id, channel |-> c.channel, author |-> c.by, edited |-> FALSE]
  IN  /\ Calls(t, "SendMessage")
      /\ UNCHANGED past
      /\ \/ Select(t, "start", Access(c.channel, c.by), "may")
         \/ Require(t, "may", Allowed(t, {"SEND"}), "id")
         \/ NewId(t, "id", "insert", [guild |-> r.guild, dm |-> r.dm, id |-> lastId + 1])
         \/ Execute(t, "insert", InsertMessage(message), "read")
         \/ Require(t, "read", ById("messages", r.id) # {}, "done")

EditMessage(t) ==
  LET c == task[t].call IN
  /\ Calls(t, "EditMessage")
  /\ UNCHANGED past
  /\ \/ Select(t, "start", Access(c.channel, c.by), "message")
     \/ Require(t, "message", \E m \in MessageIn(c.message, c.channel) : m.author = c.by, "write")
     \/ Execute(t, "write", UpdateMessageRow(c.message), "read")
     \/ Require(t, "read", ById("messages", c.message) # {}, "done")

\* The author may delete a message; in a guild MANAGE_MESSAGES suffices.
DeleteMessage(t) ==
  LET c == task[t].call
      r == task[t].row
  IN  /\ Calls(t, "DeleteMessage")
      /\ UNCHANGED past
      /\ \/ Select(t, "start", Access(c.channel, c.by), "message")
         \/ Select(t, "message", {[guild |-> r.guild, dm |-> r.dm, author |-> m.author] :
                                    m \in MessageIn(c.message, c.channel)}, "may")
         \/ Require(t, "may", r.author = c.by \/ (~r.dm /\ Allowed(t, {"MANAGE_MESSAGES"})), "delete")
         \/ Execute(t, "delete", DeleteMessageRow(c.message), "done")
-----------------------------------------------------------------------------
\* A client that scrolls through the history of a channel: one GetMessages per
\* page, each with the oldest id it has seen, until a page is not full.
Oldest(ids) == CHOOSE i \in ids : \A j \in ids : i <= j

ReadHistory(t) ==
  LET c == task[t].call
      r == task[t].row
      page == Page(c.channel, IF r.before = 0 THEN lastId + 1 ELSE r.before, PageLimit)
      initial == {m.id : m \in {x \in db.messages : x.channel = c.channel}}
  IN  /\ Calls(t, "ReadHistory")
      /\ UNCHANGED past
      /\ \/ Select(t, "start", {[guild |-> a.guild, dm |-> a.dm, before |-> 0,
                                  seen |-> {}, initial |-> initial] : a \in Access(c.channel, c.by)}, "may")
         \/ Require(t, "may", Allowed(t, {"HISTORY"}), "page")
         \/ /\ task[t].at = "page"
            /\ IF Cardinality(page) < PageLimit
               THEN Carry(t, "shown", [r EXCEPT !.seen = @ \cup page])
               ELSE Carry(t, "again", [r EXCEPT !.seen = @ \cup page, !.before = Oldest(page)])
            /\ UNCHANGED <<db, lastId>>
         \/ Require(t, "again", Access(c.channel, c.by) # {}, "may")
         \/ Require(t, "shown", TRUE, "done")
-----------------------------------------------------------------------------
AddReaction(t) ==
  LET c == task[t].call IN
  /\ Calls(t, "AddReaction")
  /\ UNCHANGED past
  /\ \/ Select(t, "start", Access(c.channel, c.by), "may")
     \/ Require(t, "may", Allowed(t, {"VIEW", "HISTORY"}), "message")
     \/ Require(t, "message", MessageIn(c.message, c.channel) # {}, "add")
     \/ Execute(t, "add", AddReactionRow(c.message, c.by), "done")

\* RemoveReaction does not look at the message.
RemoveReaction(t) ==
  LET c == task[t].call IN
  /\ Calls(t, "RemoveReaction")
  /\ UNCHANGED past
  /\ \/ Select(t, "start", Access(c.channel, c.by), "may")
     \/ Require(t, "may", Allowed(t, {"VIEW", "HISTORY"}), "remove")
     \/ Execute(t, "remove", RemoveReactionRow(c.message, c.by), "done")

Ack(t) ==
  LET c == task[t].call IN
  /\ Calls(t, "Ack")
  /\ UNCHANGED past
  /\ \/ Select(t, "start", Access(c.channel, c.by), "may")
     \/ Require(t, "may", Allowed(t, {"VIEW"}), "write")
     \/ Execute(t, "write", UpsertReadState(c.by, c.channel, c.message), "done")

\* The typing indicator of the gateway: the key in Redis expires by itself and
\* nothing reads it.
Typing(t) ==
  LET c == task[t].call IN
  /\ Calls(t, "Typing")
  /\ UNCHANGED past
  /\ \/ Require(t, "start", HasChannel(c.channel), "key")
     \/ Require(t, "key", TRUE, "done")
-----------------------------------------------------------------------------
JoinChannel(t) ==
  LET c == task[t].call
      r == task[t].row
  IN  /\ Calls(t, "JoinChannel")
      /\ UNCHANGED past
      /\ \/ Select(t, "start", {x \in ById("channels", c.channel) : x.type = "voice"}, "may")
         \/ Require(t, "may", MayInChannel(r.guild, c.channel, c.by, {"CONNECT"}), "user")
         \/ Require(t, "user", HasUser(c.by), "write")
         \/ Execute(t, "write", UpsertVoice(r.guild, c.by, c.channel), "done")

\* LeaveChannel takes the guild from the channel and leaves whichever channel
\* of that guild the user is in.
LeaveChannel(t) ==
  LET c == task[t].call
      r == task[t].row
  IN  /\ Calls(t, "LeaveChannel")
      /\ UNCHANGED past
      /\ \/ Select(t, "start", ById("channels", c.channel), "state")
         \/ Require(t, "state", VoiceOf(r.guild, c.by) # {}, "delete")
         \/ Execute(t, "delete", DeleteVoice(r.guild, c.by), "done")

\* UploadFile stores the object, then inserts an attachment of message 0, a
\* message that no table holds.
UploadFile(t) ==
  LET c == task[t].call
      r == task[t].row
  IN  /\ Calls(t, "UploadFile")
      /\ UNCHANGED past
      /\ \/ Select(t, "start", ById("channels", c.channel), "may")
         \/ Require(t, "may", MayInChannel(r.guild, c.channel, c.by, {"ATTACH"}), "id")
         \/ NewId(t, "id", "store", [id |-> lastId + 1])
         \/ Execute(t, "store", PutObject(r.id), "insert")
         \/ Execute(t, "insert", InsertAttachment([id |-> r.id, message |-> 0]), "done")
-----------------------------------------------------------------------------
\* CreateDM: finds the channel of the two users or creates one.
CreateDM(t) ==
  LET c == task[t].call
      r == task[t].row
  IN  /\ Calls(t, "CreateDM")
      /\ UNCHANGED past
      /\ \/ Require(t, "start", c.user # c.by /\ HasUser(c.user), "id")
         \/ NewId(t, "id", "find", [id |-> lastId + 1])
         \/ Require(t, "find", DMsBetween(c.by, c.user) = {}, "create")
         \/ Execute(t, "create", InsertDM([id |-> r.id, type |-> "dm", owner |-> 0], {c.by, c.user}), "done")

CreateGroupDM(t) ==
  LET c == task[t].call
      new == lastId + 1
      group == [id |-> new, type |-> "group", owner |-> c.by]
      users == c.users \cup {c.by}
  IN  /\ Calls(t, "CreateGroupDM")
      /\ UNCHANGED past
      /\ \/ Require(t, "start", c.users # {} /\ c.by \notin c.users /\ Cardinality(users) <= MaxRecipients, "users")
         \/ Require(t, "users", \A u \in c.users : HasUser(u), "create")
         \/ Create(t, "create", InsertDM(group, users), "read", [id |-> new])
         \/ Require(t, "read", ById("dms", task[t].row.id) # {}, "done")

AnyDM(dm) == ById("dms", dm)
Group(dm) == {r \in ById("dms", dm) : r.type = "group"}

OneTooMany(dm) == Cardinality(RecipientsOf(dm)) > MaxRecipients
Full(dm) == Cardinality(RecipientsOf(dm)) >= MaxRecipients

AddGroupDMMember(t) ==
  LET c == task[t].call IN
  /\ Calls(t, "AddGroupDMMember")
  /\ UNCHANGED past
  /\ \/ Require(t, "start", \E g \in Group(c.channel) : g.owner = c.by, "user")
     \/ Require(t, "user", HasUser(c.user), "member")
     \/ Require(t, "member", ~IsRecipient(c.channel, c.user), "count")
     \/ Require(t, "count", ~Full(c.channel), "add")
     \/ Execute(t, "add", AddRecipient(c.channel, c.user), "read")
     \/ Require(t, "read", ById("dms", c.channel) # {}, "done")

\* The owner removes anybody, everybody may leave.
RemoveGroupDMMember(t) ==
  LET c == task[t].call IN
  /\ Calls(t, "RemoveGroupDMMember")
  /\ UNCHANGED past
  /\ \/ Require(t, "start", \E g \in Group(c.channel) : c.by = c.user \/ g.owner = c.by, "caller")
     \/ Require(t, "caller", IsRecipient(c.channel, c.by), "target")
     \/ Require(t, "target", IsRecipient(c.channel, c.user), "remove")
     \/ Execute(t, "remove", RemoveRecipient(c.channel, c.user), "read")
     \/ Require(t, "read", ById("dms", c.channel) # {}, "done")

TalkStep(t) ==
  \/ SendMessage(t) \/ EditMessage(t) \/ DeleteMessage(t) \/ ReadHistory(t)
  \/ AddReaction(t) \/ RemoveReaction(t) \/ Ack(t) \/ Typing(t)
  \/ JoinChannel(t) \/ LeaveChannel(t) \/ UploadFile(t)
  \/ CreateDM(t) \/ CreateGroupDM(t) \/ AddGroupDMMember(t) \/ RemoveGroupDMMember(t)
=============================================================================
