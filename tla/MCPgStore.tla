----------------------------- MODULE MCPgStore -----------------------------
(* PgStore on a small database.                                            *)
EXTENDS PgStore

\* The properties say nothing more of an account once it is in raced, and it
\* stays there: with every account in it there is nothing left to explore.
SomeUnraced == raced # Account
=============================================================================
