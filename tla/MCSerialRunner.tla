---------------------------- MODULE MCSerialRunner ----------------------------
(***************************************************************************)
(* The serial oracle on the schedules of Schedules.tla, each listed in     *)
(* every order.                                                            *)
(***************************************************************************)
EXTENDS SerialRunner, Schedules, RunBlock

Three == 1..3
Four == 1..4
MinusOne == Value(-1)
\* DoubleSettle is the result of no Innie, unless result_for stops looking.
MCResults == {Value(n) : n \in -20..200}
                \cup {Void} \cup {Fault(w, 0) : w \in {"ArithmeticFault", "RecursionError", "DoubleSettle"}}
                \cup {Fault(w, i) : w \in {"DependencyFaulted", "NoWorkProduct"}, i \in Innies}

EveryOrder(n) == {o \in [1..n -> 1..n] : \A j, k \in 1..n : o[j] = o[k] => j = k}
OrdersOfThree == EveryOrder(3)
SomeOrdersOfThree == {<<1, 2, 3>>, <<3, 2, 1>>, <<2, 3, 1>>}
OrdersOfFour == EveryOrder(4)
=============================================================================
