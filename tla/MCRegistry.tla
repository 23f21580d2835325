----------------------------- MODULE MCRegistry -----------------------------
(* Instances of Registry for TLC.                                           *)
EXTENDS Registry, TLC

CONSTANTS u1, u2, g1, g2, c1, c2, c3

MCUsers1 == {u1}
MCUsers2 == {u1, u2}
MCGuilds1 == {g1}
MCGuilds2 == {g1, g2}
MCConns2 == {c1, c2}
MCConns3 == {c1, c2, c3}
MCNoStatuses == {}
MCOnlineStatus == {"online"}
MCStatuses == {"online", "offline"}

\* Connections, and with them sessions, are interchangeable; so are users and
\* guilds.
Symmetry == Permutations(Conns) \union Permutations(Users)
                \union Permutations(Guilds)

=============================================================================
