----------------------------- MODULE MCRouting -----------------------------
(* Small programs, chips and layouts for the runs of Routing.              *)
EXTENDS Routing

P == INSTANCE Placement

Gate(qs)   == [kind |-> "gate", qs |-> qs]
Measure(v) == [kind |-> "measure", qs |-> <<v>>]
Reset(v)   == [kind |-> "reset", qs |-> <<v>>]
Barrier(qs) == [kind |-> "barrier", qs |-> qs]

TwoQubitGates == { Gate(<<a, b>>) : <<a, b>> \in
                     { p \in Virt \X Virt : p[1] < p[2] } }

Upto(n, S) == UNION { [1 .. k -> S] : k \in 0 .. n }

Line == { <<p, p + 1>> : p \in 0 .. NumPhys - 2 }

(* A line, and two qubits no edge reaches.                                 *)
LineAndTwo == { <<p, p + 1>> : p \in 0 .. NumPhys - 4 }

(* Layouts handed in by a caller of Routing::run: any whose gates each     *)
(* join two qubits of the line or two off it, or what PassManager::compile *)
(* hands in.                                                               *)
LayoutOf(at) ==
  [v2p |-> at,
   p2v |-> [p \in Phys |-> IF \E v \in Virt : at[v] = p
                           THEN CHOOSE v \in Virt : at[v] = p ELSE Free]]

OffLine == { p \in Phys : Neighbours(p) = {} }

(* Sites off the line are alike: qubits take them in order.                *)
Injections ==
  { at \in [Virt -> Phys] :
      /\ \A u, v \in Virt : u < v => at[u] # at[v]
      /\ \A v \in Virt : at[v] \in OffLine =>
           \A p \in OffLine : p < at[v] => \E u \in 0 .. v - 1 : at[u] = p }

Layouts == { LayoutOf(at) : at \in Injections }

AnyLayout(prog) ==
  { l \in Layouts : \A g \in DOMAIN prog : Len(prog[g].qs) = 2 =>
      Cardinality({ v \in QubitsOf(prog[g]) : l.v2p[v] \in OffLine }) # 1 }

PlacedLayout(prog) == { P!PlaceProgram(prog) }

(* Every mix of two-qubit gates with ops of the kinds that touch one qubit *)
(* or fence several.                                                       *)
MixedPrograms ==
  Upto(3, TwoQubitGates \cup { Measure(0), Measure(NumVirtual - 1), Reset(1),
                               Barrier(<<0, 1, 2>>), Barrier(<<1, 2>>) })

(* A program on eight qubits: gates that hold every qubit next to its      *)
(* successor, so that Placement lays the line out in order, then five      *)
(* gates that no single SWAP brings closer on average.                     *)
Chain == [k \in 1 .. 14 |-> LET a == (k - 1) \div 2 IN Gate(<<a, a + 1>>)]
LivelockProgram ==
  { Chain \o <<Gate(<<1, 6>>), Gate(<<0, 4>>), Gate(<<5, 3>>),
               Gate(<<3, 0>>), Gate(<<2, 7>>)>> }
=============================================================================
