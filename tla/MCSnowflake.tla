---------------------------- MODULE MCSnowflake -----------------------------
(* The server's generator and the CLI's, with fields of one bit.            *)
EXTENDS Snowflake

MCGenerators == {"server", "cli"}
MCWorkerID == [g \in MCGenerators |-> IF g = "server" THEN 1 ELSE 0]
MCProcessID == [g \in MCGenerators |-> IF g = "server" THEN 1 ELSE 0]

=============================================================================
