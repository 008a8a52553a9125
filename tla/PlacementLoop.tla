--------------------------- MODULE PlacementLoop ---------------------------
(***************************************************************************)
(* The loops of Placement::run, one iteration a step: over the interacting *)
(* pairs, heaviest first, then over the virtual qubits left unplaced.      *)
(* The program may have more qubits than the chip: nothing before the pass *)
(* compares the two.                                                       *)
(***************************************************************************)
EXTENDS Placement

CONSTANT Programs

ASSUME ProgramAssumption == \A prog \in Programs : WellFormed(prog)

VARIABLES
  program,
  layout,
  pairs,    \* the pairs still to settle
  rest      \* the next virtual qubit of the last loop

vars == <<program, layout, pairs, rest>>

Init ==
  /\ program \in Programs
  /\ layout = EmptyLayout
  /\ pairs = Interactions(program)
  /\ rest = 0

(* A slip: the pairs are not sorted.                                       *)
SettleUnsorted ==
  /\ \E e \in pairs : /\ layout' = SettlePair(layout, e)
                       /\ pairs' = pairs \ {e}
  /\ UNCHANGED <<program, rest>>

(* The next of the sorted pairs.                                           *)
Settle ==
  /\ \E e \in pairs :
       /\ \A f \in pairs \ {e} : Ahead(program, e, f)
       /\ layout' = SettlePair(layout, e)
       /\ pairs' = pairs \ {e}
  /\ UNCHANGED <<program, rest>>

PlaceRest ==
  /\ pairs = {}
  /\ rest < NumVirtual
  /\ layout' = SettleRest(layout, rest)
  /\ rest' = rest + 1
  /\ UNCHANGED <<program, pairs>>

Returned == pairs = {} /\ rest = NumVirtual

Next == Settle \/ PlaceRest \/ (Returned /\ UNCHANGED vars)

Spec == Init /\ [][Next]_vars /\ WF_vars(Next)
-----------------------------------------------------------------------------
TypeOK ==
  /\ program \in Programs
  /\ layout \in PartialLayout
  /\ pairs \subseteq Interactions(program)
  /\ rest \in 0 .. NumVirtual

(* No two virtual qubits ever share a physical one, and both directions of *)
(* the layout agree, also when the program does not fit.                   *)
Injective == TwoWay(layout)

(* A program that fits is placed whole; one that does not takes every      *)
(* physical qubit there is.                                                *)
FillsChip ==
  Returned => \/ \A v \in Virt : layout.v2p[v] # Unplaced
              \/ NumVirtual > NumPhys /\ FreeSites(layout) = {}

(* The pair with the most gates starts out on a coupled pair.              *)
HeaviestCoupled ==
  Returned /\ (\E p \in Phys : Neighbours(p) # {}) =>
    \A e \in Interactions(program) :
      (\A f \in Interactions(program) \ {e} : Ahead(program, e, f)) =>
        Connected(layout.v2p[e[1]], layout.v2p[e[2]])

(* A qubit, once placed, is never moved: later pairs work around it.       *)
PlacedStays ==
  [][\A v \in Virt : layout.v2p[v] # Unplaced =>
                       layout'.v2p[v] = layout.v2p[v]]_vars

(* The stepwise loops return what PlaceProgram computes in one go, and do  *)
(* return.                                                                 *)
ReturnsPlacement == <>(Returned /\ layout = PlaceProgram(program))
=============================================================================
