------------------------------- MODULE Fifos -------------------------------
(***************************************************************************)
(* The two FIFOs of the repository: a memory and two pointers that wrap.   *)
(* syncfifo has one clock and shows the front of the queue (first word     *)
(* fall through).  asyncfifo has a clock for each side; each side reads    *)
(* the other's pointer as it is and registers what it shows.  Edges of its *)
(* two clocks come in any order and also at the same time, when each side  *)
(* sees what the other held before.  "twoClocks" says which FIFO it is.    *)
(*                                                                         *)
(* Neither port looks at the flags.  As in Gen_PHV_and_Conf_Parser, whose  *)
(* NeverReadsEmpty is this assumption, nobody reads an empty FIFO; a       *)
(* syncfifo may be written while it is full.  No module instantiates       *)
(* asyncfifo: its user is taken to write only when there is room, and to   *)
(* clear both sides together.                                              *)
(***************************************************************************)
EXTENDS Integers, Sequences

CONSTANTS
  Words,     \* the parameter words, which is 2 ^ depth
  Values,    \* what a word may hold
  Cleared    \* the word that a clear leaves: all zeros

ASSUME FifoAssumption == Words \in Nat /\ Words > 1 /\ Cleared \in Values

VARIABLES
  twoClocks,          \* an asyncfifo, not a syncfifo
  memory, wr_addr, rd_addr,
  usedw,              \* usedw, or wrusedw of asyncfifo
  rdusedw, q,         \* registers of asyncfifo's read side
  taken,              \* history: the word syncfifo showed on the last edge that read it
  request             \* history: the request of the last edge of any clock

vars == <<twoClocks, memory, wr_addr, rd_addr, usedw, rdusedw, q, taken, request>>

Request == [data : Values, wrreq : BOOLEAN, rdreq : BOOLEAN]

Addresses == 0 .. Words - 1

(* Mutation of full: the sum is not cut to the width of the pointers.      *)
fullUncut == rd_addr = wr_addr + 1

empty == rd_addr = wr_addr
full  == rd_addr = (wr_addr + 1) % Words

(* q of syncfifo.                                                          *)
Front == memory[rd_addr]

(* The words between the two pointers, the next one to read first.         *)
Used == (wr_addr - rd_addr) % Words
Contents == [i \in 1 .. Used |-> memory[(rd_addr + i - 1) % Words]]

Init ==
  /\ twoClocks \in BOOLEAN
  /\ memory = [a \in Addresses |-> Cleared]
  /\ wr_addr = 0 /\ rd_addr = 0 /\ usedw = 0 /\ rdusedw = 0
  /\ q = Cleared /\ taken = Cleared /\ request \in Request

(* Mutation of Advance: the pointer does not wrap at the last word.        *)
AdvanceLate(addr, req) == IF req THEN (addr + 1) % (Words + 1) ELSE addr

(* A pointer moves on by one on a request.                                 *)
Advance(addr, req) == IF req THEN (addr + 1) % Words ELSE addr

(* Mutation of Stored: the word goes behind the pointer.                   *)
StoredNextWord(r) ==
  IF r.wrreq THEN [memory EXCEPT ![(wr_addr + 1) % Words] = r.data] ELSE memory

(* The memory after an edge of the write clock.                            *)
Stored(r) == IF r.wrreq THEN [memory EXCEPT ![wr_addr] = r.data] ELSE memory

(* An edge of syncfifo's clock.                                            *)
SyncEdge(r) ==
  /\ ~twoClocks
  /\ r.rdreq => ~empty
  /\ usedw' = Used
  /\ wr_addr' = Advance(wr_addr, r.wrreq)
  /\ memory' = Stored(r)
  /\ rd_addr' = Advance(rd_addr, r.rdreq)
  /\ taken' = IF r.rdreq THEN Front ELSE taken
  /\ request' = r
  /\ UNCHANGED <<twoClocks, rdusedw, q>>

-----------------------------------------------------------------------------
(* What an edge of asyncfifo's wrclk does.                                 *)
WrSide(r) ==
  /\ twoClocks
  /\ r.wrreq => ~full
  /\ usedw' = Used
  /\ wr_addr' = Advance(wr_addr, r.wrreq)
  /\ memory' = Stored(r)

(* Mutation of RdSide: the count is one ahead.                             *)
RdSideCountsAhead(r) ==
  /\ twoClocks
  /\ r.rdreq => ~empty
  /\ q' = Front
  /\ rdusedw' = (wr_addr - rd_addr + 1) % Words
  /\ rd_addr' = Advance(rd_addr, r.rdreq)

(* What an edge of its rdclk does: q follows the word at the read pointer. *)
RdSide(r) ==
  /\ twoClocks
  /\ r.rdreq => ~empty
  /\ q' = Front
  /\ rdusedw' = Used
  /\ rd_addr' = Advance(rd_addr, r.rdreq)

(* An edge of wrclk, of rdclk, of both.                                    *)
WrEdge(r) ==
  ~r.rdreq /\ WrSide(r) /\ request' = r /\ UNCHANGED <<twoClocks, rd_addr, rdusedw, q, taken>>
RdEdge(r) ==
  ~r.wrreq /\ RdSide(r) /\ request' = r /\ UNCHANGED <<twoClocks, memory, wr_addr, usedw, taken>>
BothEdges(r) == WrSide(r) /\ RdSide(r) /\ request' = r /\ UNCHANGED <<twoClocks, taken>>

-----------------------------------------------------------------------------
(* aclr, or wr_aclr and rd_aclr; the register q keeps its value.           *)
Clear ==
  /\ memory' = [a \in Addresses |-> Cleared]
  /\ wr_addr' = 0 /\ rd_addr' = 0 /\ usedw' = 0 /\ rdusedw' = 0
  /\ UNCHANGED <<twoClocks, q, taken, request>>

Next ==
  \/ Clear
  \/ \E r \in Request : SyncEdge(r) \/ WrEdge(r) \/ RdEdge(r) \/ BothEdges(r)

Spec == Init /\ [][Next]_vars

-----------------------------------------------------------------------------
(* The pointers and the counts keep their widths.                          *)
TypeOK ==
  /\ twoClocks \in BOOLEAN /\ request \in Request
  /\ memory \in [Addresses -> Values] /\ q \in Values /\ taken \in Values
  /\ {wr_addr, rd_addr, usedw, rdusedw} \subseteq Addresses

(* What a reader gets: of an asyncfifo, what its q shows behind the edge;  *)
(* of a syncfifo, what its q showed before it.                             *)
Out == IF twoClocks THEN q ELSE taken

Queue == INSTANCE FifoQueue WITH queue <- Contents, out <- Out

(* The registers implement the queue: a read gets the values once and in   *)
(* the order they went in, with any mixture of reads, writes and both on   *)
(* one edge, or of the edges of two clocks, wherever the pointers wrap;    *)
(* and what a full syncfifo loses to a write is everything, not a part.    *)
ImplementsQueue == Queue!Spec

(* The ports that show the state: the flags tell an empty and a full queue *)
(* apart although the pointers wrap, and syncfifo's q is the front.        *)
PortsShowQueue ==
  /\ empty <=> Contents = <<>>
  /\ full <=> Len(Contents) = Words - 1
  /\ ~empty => Front = Contents[1]

(* The counts of an asyncfifo are late but safe to act on: the queue is at *)
(* most one write longer than wrusedw says, so that a writer that stops    *)
(* two short of the end never fills it, and at most one read shorter than  *)
(* rdusedw says.                                                           *)
CountsSafe ==
  twoClocks => /\ Len(Contents) <= usedw + 1
               /\ Len(Contents) + 1 >= rdusedw
=============================================================================
