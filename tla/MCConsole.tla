----------------------------- MODULE MCConsole -----------------------------
(* Small instances of Console for TLC. *)
EXTENDS Console

\* Other positions of the driver and writes to the table meet only in the order of
\* one socket's messages: a behaviour has one or the other, and one of the former.
Budget ==
  /\ strays <= 1
  /\ strays > 0 => written = 0
  /\ position > 0 => written <= 1

BudgetSpec == Init /\ [][Next /\ Budget']_vars /\ Fairness
=============================================================================
