------------------------------ MODULE MCPacer ------------------------------
(* TLC instance of Pacer. *)
EXTENDS Pacer

\* 1, 2, 1/2 and 3/2, whose quotients are not whole.
MCSpeeds ==
  {[num |-> 1, den |-> 1], [num |-> 2, den |-> 1],
   [num |-> 1, den |-> 2], [num |-> 3, den |-> 2]}

=============================================================================
