------------------------------ MODULE ServicesMC ------------------------------
(* Services for TLC: a calendar with two months of three and two days, days  *)
(* of three hours, hours of two minutes and weeks of two days.               *)
EXTENDS Services

SmallYear ==
  <<[month |-> 1, day |-> 1], [month |-> 1, day |-> 2], [month |-> 1, day |-> 3],
    [month |-> 2, day |-> 1], [month |-> 2, day |-> 2]>>

Value(n) == {[kind |-> "value", a |-> n]}
Span(m, n) == {[kind |-> "range", a |-> m, b |-> n]}
Every(n) == {[kind |-> "step", n |-> n]}
NoNumber == {[kind |-> "bad"]}

SmallExpressions ==
  [mi : {Star, Value(1)}, ho : {Star, Value(1), Span(1, 2), Every(2)},
   dom : {Star, Value(3), Every(1), Star \cup Value(1)}, mon : {Star, Value(2)},
   dow : {Star, Value(1), Value(0) \cup NoNumber}]

\* UTC, a fixed offset, and one with summer time on the second and third day.
SmallZones ==
  {[east |-> 0, gap |-> 0, fold |-> 0], [east |-> 3, gap |-> 0, fold |-> 0],
   [east |-> 0, gap |-> 8, fold |-> 14]}

=============================================================================
