------------------------------- MODULE Layout -------------------------------
(***************************************************************************)
(* A program as the placement and routing passes see it, and the placement *)
(* of its virtual qubits on physical ones, kept in both directions as      *)
(* struct Layout keeps it.                                                 *)
(*                                                                         *)
(* The coupling graph says which physical qubits may host a two-qubit gate *)
(* and how many hops apart two of them are.  The class CouplingGraph       *)
(* builds its adjacency lists and its distance matrix once, in the         *)
(* constructor, so the graph is constant here.                             *)
(*                                                                         *)
(* A program is a sequence of ops, each with its kind and the virtual      *)
(* qubits it touches.  Lineage makes it so: the k-th alloc_qubit is        *)
(* virtual qubit k, and the k-th result of an op inherits the qubit of its *)
(* k-th operand.                                                           *)
(***************************************************************************)
EXTENDS Integers, Sequences, FiniteSets

CONSTANTS
  NumPhys,      \* number of physical qubits of the chip
  Edges,        \* coupled pairs <<a, b>>, in the order the registry lists them
  AllToAll      \* TRUE for chips that couple every pair

Phys == 0 .. NumPhys - 1

(* Loader.cpp rejects self-loops and out-of-range edges.                   *)
ASSUME GraphAssumption ==
  /\ NumPhys \in Nat \ {0}
  /\ AllToAll \in BOOLEAN
  /\ Edges \subseteq { e \in Phys \X Phys : e[1] # e[2] }

Connected(a, b) ==
  /\ a # b
  /\ AllToAll \/ <<a, b>> \in Edges \/ <<b, a>> \in Edges

Neighbours(p) == { q \in Phys : Connected(p, q) }

(* INT_MAX, the distance between two components.                           *)
Unreachable == 2147483647

(* The physical qubits at most n hops from a.                              *)
Ball(a) ==
  LET ball[n \in 0 .. NumPhys] ==
        IF n = 0 THEN {a}
        ELSE ball[n - 1] \cup UNION { Neighbours(p) : p \in ball[n - 1] }
  IN  ball

(* The matrix dist_ that the breadth-first searches fill.                  *)
Distance ==
  [a \in Phys |->
    LET ball == Ball(a)
    IN  [b \in Phys |->
          IF b \in ball[NumPhys]
          THEN CHOOSE n \in 0 .. NumPhys :
                 b \in ball[n] /\ (n = 0 \/ b \notin ball[n - 1])
          ELSE Unreachable]]
-----------------------------------------------------------------------------
CONSTANT NumVirtual     \* number of alloc_qubit ops of the program

ASSUME VirtualAssumption == NumVirtual \in Nat

Virt == 0 .. NumVirtual - 1

(* Which unitary a gate is does not matter to these passes.                *)
Kinds == {"gate", "measure", "reset", "barrier"}

OpType == [kind : Kinds, qs : Seq(Virt)]

QubitsOf(op) == { op.qs[k] : k \in 1 .. Len(op.qs) }

(* What the verifier lets through: in-range and distinct operands (W3).    *)
WellFormed(prog) ==
  /\ prog \in Seq(OpType)
  /\ \A g \in 1 .. Len(prog) :
       \A i, j \in 1 .. Len(prog[g].qs) :
         prog[g].qs[i] = prog[g].qs[j] => i = j
-----------------------------------------------------------------------------
Free == -1              \* p2v of a physical qubit that hosts nothing,
Unplaced == -1          \* v2p of a virtual qubit not placed yet

PartialLayout ==
  [v2p : [Virt -> Phys \cup {Unplaced}], p2v : [Phys -> Virt \cup {Free}]]

LayoutType == [v2p : [Virt -> Phys], p2v : [Phys -> Virt \cup {Free}]]

(* v2p and p2v are the two directions of one injection.                    *)
TwoWay(l) ==
  /\ \A v \in Virt : l.v2p[v] # Unplaced => l.p2v[l.v2p[v]] = v
  /\ \A p \in Phys : l.p2v[p] # Free => l.v2p[l.p2v[p]] = p

EmptyLayout ==
  [v2p |-> [v \in Virt |-> Unplaced], p2v |-> [p \in Phys |-> Free]]

(* A slip: sites counted from one.                                         *)
PlaceAtOneBased(l, v, p) ==
  [v2p |-> [l.v2p EXCEPT ![v] = p + 1], p2v |-> [l.p2v EXCEPT ![p] = v]]

(* The lambda place of Placement::run.                                     *)
PlaceAt(l, v, p) ==
  [v2p |-> [l.v2p EXCEPT ![v] = p], p2v |-> [l.p2v EXCEPT ![p] = v]]

(* Slips in apply_swap for the runs to catch: the guard on a free site is  *)
(* dropped; only one direction is updated.                                 *)
ApplySwapUnguarded(l, a, b) ==
  [v2p |-> [v \in Virt \cup {l.p2v[a], l.p2v[b]} |->
              IF v = l.p2v[a] THEN b ELSE IF v = l.p2v[b] THEN a
              ELSE l.v2p[v]],
   p2v |-> [l.p2v EXCEPT ![a] = l.p2v[b], ![b] = l.p2v[a]]]

ApplySwapOneWay(l, a, b) ==
  [l EXCEPT !.p2v = [@ EXCEPT ![a] = l.p2v[b], ![b] = l.p2v[a]]]

(* Layout::apply_swap: what sits on a and what sits on b change places,    *)
(* a free physical qubit included.                                         *)
ApplySwap(l, a, b) ==
  [v2p |-> [v \in Virt |-> IF v = l.p2v[a] THEN b
                           ELSE IF v = l.p2v[b] THEN a
                           ELSE l.v2p[v]],
   p2v |-> [l.p2v EXCEPT ![a] = l.p2v[b], ![b] = l.p2v[a]]]
=============================================================================
