----------------------------- MODULE MCSegment -----------------------------
(***************************************************************************)
(* Segment for TLC: bytes of eight values, numbers of two and three bytes. *)
(* The tables have up to three columns of every type and up to two rows,   *)
(* equally long or with short columns behind column 1, as mistyped INSERTs *)
(* leave them; names as long as a byte can count and longer; and strings   *)
(* with the bytes of MAGIC.                                                *)
(***************************************************************************)
EXTENDS Segment

MCMagic == <<4, 6>>

Values(type) ==
  CASE type = 2 -> {<< >>, <<1, 7>>, <<4, 6, 1>>}
    [] type = 3 -> BOOLEAN
    [] OTHER -> {<<0, 0, 0>>, <<7, 1, 4>>}

MCNames == {<< >>, <<1>>, <<1, 2, 3, 1, 2, 3, 1, 2, 3>>}

Columns(type) == UNION {[1 .. n -> Values(type)] : n \in 0 .. 2}

OneColumn ==
  UNION {{[names |-> <<n>>, types |-> <<type>>, cols |-> <<c>>] :
            n \in MCNames, c \in Columns(type)} : type \in 0 .. 3}

Filled(type, n) ==
  [r \in 1 .. n |-> CASE type = 2 -> <<1, 7>>
                      [] type = 3 -> r = 1
                      [] OTHER -> <<r, 7, 4>>]

ThreeColumns ==
  {[names |-> <<<<1>>, <<1, 2, 3, 1, 2, 3, 1, 2, 3>>, <<2, 2>>>>,
    types |-> k,
    cols |-> <<Filled(k[1], n[1]), Filled(k[2], n[2]), Filled(k[3], n[3])>>] :
     k \in {<<i, j, l>> : i \in {0, 2, 3}, j \in {0, 2, 3}, l \in {0, 2, 3}},
     n \in {m \in [1 .. 3 -> 0 .. 2] : m[2] <= m[1] /\ m[3] <= m[1]}}

MCTables == OneColumn \cup ThreeColumns
=============================================================================
