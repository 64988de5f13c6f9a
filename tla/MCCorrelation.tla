---------------------------- MODULE MCCorrelation ----------------------------
(* Instances of Correlation for TLC: a sequence nobody used and one used or *)
(* moved before the capture, a target that is ahead and one that lacks one.  *)
EXTENDS Correlation
MCStart == [q \in Counters |-> IF q = "a_id_seq" THEN 1 ELSE 5]
Pair(a, b) == [q \in Counters |-> IF q = "a_id_seq" THEN a ELSE b]
At(last, called) == [last |-> last, called |-> called]
MCOriginals == {Pair(At(1, FALSE), At(5, TRUE)), Pair(At(1, FALSE), At(9, FALSE))}
MCBackups == {Pair(At(2, TRUE), At(6, TRUE)), [q \in {"a_id_seq"} |-> At(1, FALSE)]}
=============================================================================
