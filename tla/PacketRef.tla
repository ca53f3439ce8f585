----------------------------- MODULE PacketRef -----------------------------
(***************************************************************************)
(* A packet as one row of units, for the reference parses the pipelines    *)
(* are compared with: no slices, shifters or registers, only a position.   *)
(***************************************************************************)
EXTENDS ParserPkg, Sequences, SequencesExt

(* The unit at a position of a packet of slices q, zero past the tail, and *)
(* the slice-wide window at a position.                                    *)
Flat(q, i) ==
  IF i \div CANDI_NUM < Len(q) THEN q[i \div CANDI_NUM + 1][i % CANDI_NUM] ELSE Zero
Window(q, pos) == [u \in UnitIds |-> Flat(q, pos + u)]

(* The sum of the first n numbers of s.                                    *)
SumTo(s, n) ==
  LET sum[m \in Nat] == IF m = 0 THEN 0 ELSE sum[m - 1] + s[m] IN sum[n]

(* Where the header of layer k starts, and where its fields belong in the  *)
(* metadata, given the shifts each layer was told.                         *)
HeadPos(infos, k) == SumTo([i \in 1 .. Len(infos) |-> infos[i].headShift], k - 1)
MetaPos(infos, k) == SumTo([i \in 1 .. Len(infos) |-> infos[i].metaShift], k - 1)
=============================================================================
