----------------------------- MODULE MCSession -----------------------------
(***************************************************************************)
(* Session for TLC: every case of dispatch_query, results of one and two   *)
(* columns, and sequence numbers that wrap within a reply.                 *)
(***************************************************************************)
EXTENDS Session

Query(begins, has) == [com |-> "QUERY", begins |-> begins, has |-> has]
Other(com) == [com |-> com, begins |-> "", has |-> ""]

MCCommands ==
  {Other("QUIT"), Other("EMPTY"), Other("OTHER"),
   Query("SET", "@@"), Query("SELECT", "@@VERSION"), Query("SHOW TABLES", ""),
   Query("SHOW DATABASES", ""), Query("SELECT", ""), Query("INSERT", ""),
   Query("INSERT", "@@")}
MCResults ==
  {[cols |-> 1, rows |-> <<0>>], [cols |-> 2, rows |-> <<2, 0, 9>>]}
MCNames == {0, 5}
=============================================================================
