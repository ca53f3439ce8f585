----------------------------- MODULE FifoQueue -----------------------------
(***************************************************************************)
(* What the FIFOs promise: a queue of fewer than Words values that nobody  *)
(* reads when it is empty.                                                 *)
(***************************************************************************)
EXTENDS FifoOps

CONSTANTS
  Words,     \* 2 ^ width of the pointers
  Values     \* what a word may hold

VARIABLES
  queue,    \* the next value to read first
  out,      \* what the last read got
  request   \* the request of the last clock edge

Request == [data : Values, wrreq : BOOLEAN, rdreq : BOOLEAN]

Init == queue = <<>> /\ out \in Values /\ request \in Request

(* A clock edge with a request: a read gets the first value.               *)
Edge ==
  /\ request' \in Request /\ out' \in Values
  /\ request'.rdreq => queue # <<>> /\ out' = Head(queue)
  /\ queue' = QueueAfter(queue, Words, request'.data, request'.wrreq, request'.rdreq)

Clear == queue' = <<>> /\ UNCHANGED <<out, request>>

Next == Edge \/ Clear

Spec == Init /\ [][Next]_<<queue, out, request>>
=============================================================================
