---------------------------- MODULE MCPlacement ----------------------------
(* Programs and chips for the runs of PlacementLoop.                       *)
EXTENDS PlacementLoop

Gate(qs)    == [kind |-> "gate", qs |-> qs]
Barrier(qs) == [kind |-> "barrier", qs |-> qs]

(* A pair off to the side of a chip whose lowest qubits have no neighbour. *)
LatePair == { <<NumPhys - 2, NumPhys - 1>> }

TwoQubitOps ==
  { Gate(q) : q \in { p \in Virt \X Virt : p[1] # p[2] } }
    \cup { Gate(<<0>>), Barrier(<<0, 1>>) }

Upto(n, S) == UNION { [1 .. k -> S] : k \in 0 .. n }

ShortPrograms == Upto(3, TwoQubitOps)
=============================================================================
