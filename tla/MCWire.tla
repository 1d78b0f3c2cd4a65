------------------------------- MODULE MCWire -------------------------------
(***************************************************************************)
(* Wire for TLC: bytes of two values, so that a length of four takes all   *)
(* three bytes of a header.                                                *)
(***************************************************************************)
EXTENDS Wire

MCPayloads == {<< >>, <<1>>, <<0, 1, 0>>, <<1, 0, 0, 1, 1>>}
=============================================================================
