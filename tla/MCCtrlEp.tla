------------------------------ MODULE MCCtrlEp ------------------------------
(***************************************************************************)
(* CtrlEp with packets of two bytes: an answer of two full packets, one    *)
(* shorter than was asked for that needs an empty packet at its end; data  *)
(* of none and of two packets, data nobody wants, a refused request, and   *)
(* the halt of endpoint 0 with both its outcomes.                          *)
(***************************************************************************)
EXTENDS CtrlEp

Read(len, pay) ==
  [dir |-> "in", len |-> len, ok |-> TRUE, pay |-> pay, call |-> FALSE, halt |-> "none"]
Write(len, pay, call) ==
  [dir |-> "out", len |-> len, ok |-> TRUE, pay |-> pay, call |-> call, halt |-> "none"]
Refused(dir, len) ==
  [dir |-> dir, len |-> len, ok |-> FALSE, pay |-> 0, call |-> FALSE, halt |-> "none"]
Halt(how) ==
  [dir |-> "out", len |-> 0, ok |-> TRUE, pay |-> 0, call |-> FALSE, halt |-> how]

MCRequests ==
  {Read(3, 2), Read(4, 4), Write(0, 0, TRUE), Write(4, 4, TRUE),
   Write(3, 0, FALSE), Refused("out", 3), Halt("stall"), Halt("already")}
=============================================================================
