-------------------------- MODULE MCPostgresStore --------------------------
(***************************************************************************)
(* Small instances of PostgresStore.                                       *)
(***************************************************************************)
EXTENDS PostgresStore

CONSTANTS c1, c2, c3,  \* clients
          s1, s2       \* streams
=============================================================================
