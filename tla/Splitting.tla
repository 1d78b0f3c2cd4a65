------------------------------ MODULE Splitting ------------------------------
(***************************************************************************)
(* Sequences of tokens taken apart: what stands between the tokens of one  *)
(* type, and whether that is a list.  SqlGrammar says with it what a       *)
(* statement is.                                                           *)
(***************************************************************************)
EXTENDS Integers, SequencesExt, FiniteSetsExt

\* how many of some places are up to i
UpTo(places, i) == Cardinality({k \in places : k <= i})

Types(s) == [i \in DOMAIN s |-> s[i].type]
After(s, n) == SubSeq(s, n + 1, Len(s))
Inside(s, n) == SubSeq(s, n + 1, Len(s) - 1)
StartsWith(s, types) ==
  Len(s) > Len(types) /\ \A i \in DOMAIN types : s[i].type = types[i]

\* the pieces of s between tokens of the type
Nth(places, k) == Min({i \in places : UpTo(places, i) >= k})
Pieces(s, type) ==
  LET cuts == {i \in DOMAIN s : s[i].type = type}
      n == Cardinality(cuts)
      Cut(k) == IF k = 0 THEN 0 ELSE IF k > n THEN Len(s) + 1 ELSE Nth(cuts, k)
  IN [k \in 1 .. n + 1 |-> SubSeq(s, Cut(k - 1) + 1, Cut(k) - 1)]

\* pieces that all have one of these shapes
IsList(s, separator, shapes) ==
  \A p \in ToSet(Pieces(s, separator)) : Types(p) \in shapes
=============================================================================
