----------------------------- MODULE SpinorOps -----------------------------
(***************************************************************************)
(* Ops of a flat Spinor module, and what a sequence of them does to one    *)
(* qubit when nothing is known of them but rotations.                      *)
(*                                                                         *)
(* An op has its kind, its qubits and one parameter n: its angle, in units *)
(* of a turn over Turn, or 0 where the kind has none.  Lineage makes it so *)
(* in the code: the k-th alloc_qubit is qubit k, and the k-th result of an *)
(* op is on the qubit of its k-th operand.                                 *)
(***************************************************************************)
EXTENDS Integers, Sequences, FiniteSets, SequencesExt, Walks

CONSTANTS
  Qubits,   \* physical qubits
  Turn      \* number of distinguished angles, even

ASSUME QubitsAssumption ==
  Cardinality(Qubits) \in Nat /\ Qubits = 0 .. Cardinality(Qubits) - 1
ASSUME TurnAssumption   == Turn \in Nat \ {0} /\ Turn % 2 = 0

Angled    == {"rx", "ry", "rz"}
OneQ      == {"h", "x", "y", "z", "s", "sdg", "t", "tdg"} \cup Angled
TwoQ      == {"cx", "cz", "swap"}
NativeOneQ == {"sx", "sxdg", "gpi", "gpi2", "u1q"}
NativeTwoQ == {"ecr", "ms", "rzz"}
Fences    == {"measure", "reset", "barrier"}

Standard == OneQ \cup TwoQ
Gates    == Standard \cup NativeOneQ \cup NativeTwoQ

OpType == [kind : Gates \cup Fences, qs : Seq(Qubits), n : Int]

(* An op built anew by a pass gets its angle from an attribute of that     *)
(* name, which a u1q does not have: its two are theta and phi.             *)
AngleAttribute(op) == IF op.kind = "u1q" THEN 0 ELSE op.n

Touched(op) == { op.qs[k] : k \in 1 .. Len(op.qs) }

(* The effect on one qubit as a word without redundancies: powers of the   *)
(* square root of X and rotations modulo a turn, which do not commute, and *)
(* ops that nothing is known about.  Two words that reduce to the same are *)
(* the same operation, and without further identities of sx and rz no      *)
(* others are.                                                             *)
Exponent(kind, n) == IF kind = "rz" THEN n % Turn ELSE n

(* A word with a power at its end, joined to a power of the same kind.     *)
Times(word, kind, n) ==
  LET joins  == word # << >> /\ Last(word).kind = kind
      before == IF joins THEN Front(word) ELSE word
      total  == Exponent(kind, IF joins THEN Last(word).n + n ELSE n)
  IN  IF total = 0 THEN before ELSE Append(before, [kind |-> kind, n |-> total])

Applied(word, op) ==
  CASE op.kind = "rz"   -> Times(word, "rz", op.n)
    [] op.kind = "sx"   -> Times(word, "x/2", 1)
    [] op.kind = "sxdg" -> Times(word, "x/2", -1)
    [] OTHER            -> Append(word, op)

Letters ==
  [kind : {"rz", "x/2"}, n : Int]
    \cup { op \in OpType : op.kind \notin {"rz", "sx", "sxdg"} }

(* What op does to the word of p.                                          *)
WordStep(p, op) ==
  [word \in Seq(Letters) |->
     IF p \in Touched(op) THEN Applied(word, op) ELSE word]

(* The ops of a module that act on p, in order.                            *)
KeepStep(p, op) ==
  [kept \in Seq(OpType) |->
     IF p \in Touched(op) THEN Append(kept, op) ELSE kept]

On(ops, p) ==
  Through(<< >>, [k \in 1 .. Len(ops) |-> KeepStep(p, ops[k])])[Len(ops)]

Effect(ops, p) ==
  Through(<< >>, [k \in 1 .. Len(ops) |-> WordStep(p, ops[k])])[Len(ops)]

SameEffect(ops1, ops2) == \A p \in Qubits : Effect(ops1, p) = Effect(ops2, p)
=============================================================================
