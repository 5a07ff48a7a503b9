------------------------- MODULE MCExecutionOrders -------------------------
(* ExecutionOrders for TLC.  One agent amends an order it knows to be live  *)
(* and settled, as the agents of this code do, and sends two requests; the  *)
(* other does not wait for answers, and sends one order.  With one slot an  *)
(* order reuses that of the order before it.                               *)
EXTENDS ExecutionOrders, TLC

CONSTANTS a1, a2, p0, p1

(* One instrument and side, or two instruments in two partitions. *)
MCOnePartition == [x \in Series |-> p0]
MCTwoPartitions == [x \in Series |-> x]
MCAllTrade == [a \in Agents |-> Series]

MCTokens == [a \in Agents |-> IF a = a1 THEN 2 ELSE 1]
MCOneToken == [a \in Agents |-> 1]

MCPatient == {<<"live", {}>>}
MCHasty == MCPatient \cup {<<"created", {"submit"}>>, <<"live", {"replace"}>>}
MCAmendable == [a \in Agents |-> IF a = a1 THEN MCPatient ELSE MCHasty]
MCAllPatient == [a \in Agents |-> MCPatient]

(* Prices are interchangeable. *)
MCSymmetry == Permutations(Prices)
=============================================================================
