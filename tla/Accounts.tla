------------------------------ MODULE Accounts ------------------------------
(***************************************************************************)
(* The service of accounts: registration, login and the refresh tokens.    *)
(* A random token is a number that was never used.  Passwords and access   *)
(* tokens, which are checked without any state, are left out: a call of    *)
(* Login stands for one with the right password.                           *)
(***************************************************************************)
EXTENDS Requests

\* Which session a token continues; a session is named by its first token.
SessionsOf(token) == {k.session : k \in {x \in past.issued : x.token = token}}

\* issueTokens.  past.signedIn remembers the sessions that should go on,
\* past.issued the tokens of each.
IssueTokens(t, at, u) ==
  LET token == lastId + 1
  IN  /\ Create(t, at, StoreToken(token, u), "done", None)
      /\ past' = [past EXCEPT !.signedIn = @ \cup {token},
                             !.issued = @ \cup {[token |-> token, session |-> token]}]

Register(t) ==
  LET c == task[t].call IN
  /\ Calls(t, "Register")
  /\ \/ /\ \/ Require(t, "start", UserByName(c.name) = {}, "insert")
           \/ Create(t, "insert", InsertUser(lastId + 1, c.name), "tokens", [id |-> lastId + 1])
        /\ UNCHANGED past
     \/ IssueTokens(t, "tokens", task[t].row.id)

Login(t) ==
  LET c == task[t].call IN
  /\ Calls(t, "Login")
  /\ \/ /\ Select(t, "start", UserByName(c.name), "tokens")
        /\ UNCHANGED past
     \/ IssueTokens(t, "tokens", task[t].row.id)

\* Refresh: looks the token up, deletes it and stores another.
Refresh(t) ==
  LET c == task[t].call
      token == lastId + 1
  IN  /\ Calls(t, "Refresh")
      /\ \/ /\ \/ Select(t, "start", TokensNamed(c.token), "delete")
               \/ Execute(t, "delete", DeleteToken(c.token), "store")
            /\ UNCHANGED past
         \/ /\ Create(t, "store", StoreToken(token, task[t].row.user), "done", None)
            /\ past' = [past EXCEPT !.issued = @ \cup {[token |-> token, session |-> s] : s \in SessionsOf(c.token)}]

Logout(t) ==
  LET c == task[t].call IN
  /\ Calls(t, "Logout")
  /\ Execute(t, "start", DeleteToken(c.token), "done")
  /\ past' = [past EXCEPT !.signedIn = @ \ SessionsOf(c.token)]

AccountStep(t) == Register(t) \/ Login(t) \/ Refresh(t) \/ Logout(t)
=============================================================================
