------------------------------ MODULE MCAccess ------------------------------
(* Access with one person and one client from before workspaces.           *)
EXTENDS Access

CONSTANTS u1

\* The user that the migration makes up is the one who may also register.
OneSynthetic == [c \in Client |-> u1]
=============================================================================
