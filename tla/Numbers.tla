------------------------------ MODULE Numbers ------------------------------
(***************************************************************************)
(* What the standard library makes of a run of digits and dots, as         *)
(* Lexer::read_number uses it: std::stoll of digits and std::stod of       *)
(* anything with a dot, both of which throw out_of_range by value.         *)
(***************************************************************************)
EXTENDS Naturals, Sequences

CONSTANTS
  MaxInt,     \* INT64_MAX, 9223372036854775807 in the code
  NoDoubles   \* what std::stod refuses: beyond DBL_MAX, or too near to 0

HasDot(num) == \E k \in DOMAIN num : num[k] = "."

\* the value of digits, in base ten
Figures == <<"0", "1", "2", "3", "4", "5", "6", "7", "8", "9">>
Figure(c) == CHOOSE d \in 0 .. 9 : Figures[d + 1] = c
Value(num) ==
  LET upto[k \in 0 .. Len(num)] ==
        IF k = 0 THEN 0 ELSE 10 * upto[k - 1] + Figure(num[k])
  IN upto[Len(num)]

\* std::stod stops at the second dot
stod(num) ==
  LET dots == {i \in DOMAIN num : num[i] = "."}
      rest == {i \in dots : \E j \in dots : j < i}
  IN [k \in {k \in DOMAIN num : \A d \in rest : k < d} |-> num[k]]

\* std::out_of_range
OutOfRange(num) ==
  IF HasDot(num) THEN stod(num) \in NoDoubles ELSE Value(num) > MaxInt
=============================================================================
