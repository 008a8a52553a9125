--------------------------- MODULE MCPassManager ---------------------------
(* Chips of the registry cut down to two qubits, and routed modules.       *)
EXTENDS Simulator

Target(native, midCircuit) ==
  [generic |-> FALSE, native |-> native, allToAll |-> FALSE,
   coupling |-> {<<0, 1>>}, qubits |-> 2, midCircuitMeasure |-> midCircuit]

(* The IBM family: the gates of the registry, with W4 and without.         *)
Heron(midCircuit) ==
  [rotation |-> "rz", pi2 |-> "sx", entangler |-> "cz",
   target |-> Target({"cz", "rz", "sx", "x"}, midCircuit)]

(* IonQ and AQT.                                                           *)
Ion ==
  [rotation |-> "gpi", pi2 |-> "gpi2", entangler |-> "ms",
   target |-> [Target({"gpi", "gpi2", "ms"}, FALSE)
                 EXCEPT !.allToAll = TRUE, !.coupling = {}]]

RootChips == { Heron(m) : m \in BOOLEAN } \cup {Ion}

(* The family of Rigetti, OQC, Anyon, TII and QCI: no square root of X.    *)
RxChips ==
  { [rotation |-> "rz", pi2 |-> NoGate, entangler |-> "cz",
     target |-> Target({"cz", "rx", "rz"}, TRUE)] }

Op(kind, qs, n) == [kind |-> kind, qs |-> qs, n |-> n]

Upto(n, S) == UNION { [1 .. k -> S] : k \in 0 .. n }

EveryGate ==
  { Op(k, <<0>>, 0) : k \in OneQ \ Angled }
    \cup { Op(k, <<0>>, n) : k \in Angled, n \in {1, 2, 5} }
    \cup { Op(k, <<0, 1>>, 0) : k \in TwoQ }

Mixed ==
  { Op("h", <<0>>, 0), Op("x", <<0>>, 0), Op("rx", <<1>>, 2), Op("cx", <<1, 0>>, 0),
    Op("cz", <<0, 1>>, 0), Op("measure", <<0>>, 0), Op("reset", <<0>>, 0),
    Op("barrier", <<0, 1>>, 0) }

(* Layers around each other, each of which cancels once those inside have: *)
(* every round removes one.  Cleanup and both loops remove fifteen.  A z   *)
(* between two sxdg is cleaned to the rotation alone, in two rounds.       *)
HalfTurn == <<Op("sxdg", <<0>>, 0), Op("z", <<0>>, 0), Op("sxdg", <<0>>, 0)>>

Onion[d \in 0 .. 17] ==
  IF d = 0 THEN << >>
  ELSE IF d % 2 = 0
  THEN <<Op("sx", <<0>>, 0)>> \o Onion[d - 1] \o <<Op("sxdg", <<0>>, 0)>>
  ELSE HalfTurn \o Onion[d - 1] \o HalfTurn

RoutedModules ==
  { Onion[d] : d \in 1 .. 17 } \cup Upto(2, EveryGate) \cup Upto(3, Mixed)

OneGate == Upto(1, EveryGate)
=============================================================================
