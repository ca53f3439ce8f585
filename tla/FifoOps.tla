------------------------------ MODULE FifoOps ------------------------------
(***************************************************************************)
(* What one clock edge does to the queue a FIFO holds.                     *)
(***************************************************************************)
EXTENDS Naturals, Sequences

(* The queue after an edge with a write request, a read request.  The      *)
(* pointers wrap, so the write that makes it "words" values long brings    *)
(* them together, which is the empty queue; a read of an empty queue would *)
(* move them past each other and is left to the user to avoid.             *)
QueueAfter(queue, words, data, wrreq, rdreq) ==
  LET rest == IF rdreq /\ queue # <<>> THEN Tail(queue) ELSE queue
      all  == IF wrreq THEN Append(rest, data) ELSE rest
  IN  IF Len(all) < words THEN all ELSE <<>>
=============================================================================
