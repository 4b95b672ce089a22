------------------------- MODULE MCDriverConnection -------------------------
(* Constants of the runs of DriverConnection. *)
EXTENDS DriverConnection

CONSTANTS p1, d1

OnePhone   == {p1}
OneDriver  == {d1}
Own        == [p \in Phones |-> d1]

\* Two disturbances, and one position at most in a behaviour in which the driver
\* leaves the screen.
Budget ==
  /\ breaks + unmounts + failures <= 2
  /\ unmounts > 0 => \A p \in Phones : recorded[p] <= 1

BudgetSpec == Init /\ [][Next /\ Budget']_vars /\ Fairness
=============================================================================
