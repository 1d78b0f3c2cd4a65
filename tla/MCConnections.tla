--------------------------- MODULE MCConnections ---------------------------
(***************************************************************************)
(* Connections on two connections and two tables, for TLC.                 *)
(***************************************************************************)
EXTENDS Connections, TLC

CONSTANTS c1, c2, a, b, r1, r2, r3, junk

MCConns == {c1, c2}
MCNames == {a, b}
MCOneName == {a}
MCRows == {r1, r2, r3}
MCTwoRows == {r1, r2}
MCNone == {}

\* each connection has its table
MCApart == (a :> {c1}) @@ (b :> {c2})
\* both connections use table a
MCShared == (a :> {c1, c2})
=============================================================================
