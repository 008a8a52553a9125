----------------------------- MODULE PhononIR ------------------------------
(***************************************************************************)
(* A Phonon module: ops in static single assignment form, between which    *)
(* markers open and close conditionals, loops and functions.  Values are   *)
(* numbered in the order the builder makes them.  A bit is not a value     *)
(* here: nothing below depends on which bit a measure writes.              *)
(*                                                                         *)
(* Of each family of gates a few stand for all: h, x, z, cx, cz and swap   *)
(* for those that are their own inverse, s and sdg for those that come in  *)
(* inverse pairs, gpi and ms for those no pass knows.                      *)
(***************************************************************************)
EXTENDS Integers, Sequences, FiniteSets, SequencesExt, Walks

CONSTANTS
  Register, \* the elements of the qubit register, in order
  Params,   \* names of function parameters
  Turn      \* number of distinguished angles, even

ASSUME TurnAssumption  == Turn \in Nat \ {0} /\ Turn % 2 = 0
ASSUME NamesAssumption ==
  /\ Register \in Seq(Range(Register)) /\ IsInjective(Register)
  /\ Range(Register) \cap Params = {}

Wires == Range(Register)
Names == Wires \cup Params

OneQubitGates == {"h", "x", "s", "sdg", "z", "rx", "ry", "rz", "gpi"}
TwoQubitGates == {"cx", "cz", "swap", "ms"}
GateKinds     == OneQubitGates \cup TwoQubitGates
FenceKinds    == {"measure", "reset", "barrier"}
SpinorKinds   == GateKinds \cup FenceKinds \cup {"alloc"}
MarkerKinds   == {"if", "endif", "for", "endfor", "def", "enddef"}
OpKinds       == SpinorKinds \cup MarkerKinds \cup {"call", "return"}

(* in and out are the values an op takes and makes.  n is the angle of a  *)
(* rotation, the then_count of an if, the number of iterations of a for;   *)
(* name is that of the function of a def or a call; qs are the names given *)
(* to the results of an alloc or a def, as setName does.                   *)
Op(kind, in, out, n, name, qs) ==
  [kind |-> kind, in |-> in, out |-> out, n |-> n, name |-> name, qs |-> qs]

Results(s) ==
  CASE s.kind \in OneQubitGates \cup {"reset", "alloc"} -> 1
    [] s.kind \in TwoQubitGates                         -> 2
    [] s.kind = "def"                                   -> Len(s.qs)
    [] OTHER                                            -> 0

ValuesOf(ops) == UNION { Range(ops[i].out) : i \in 1 .. Len(ops) }

NumValues(ops) == Cardinality(ValuesOf(ops))

FreshValues(ops, k) == [j \in 1 .. k |-> NumValues(ops) + j]

(* The end of the structure opened at i, in a module or a program; past    *)
(* the last op if nothing closes it.                                       *)
Closing(kind) == CASE kind = "if"  -> "endif"
                   [] kind = "for" -> "endfor"
                   [] kind = "def" -> "enddef"

Depth(p, kind, i, j) ==
  Cardinality({ k \in i .. j : p[k].kind = kind })
    - Cardinality({ k \in i .. j : p[k].kind = Closing(kind) })

MatchOf(p, i) ==
  LET ends == { j \in i + 1 .. Len(p) :
                  /\ Depth(p, p[i].kind, i, j) = 0
                  /\ \A k \in i + 1 .. j - 1 : Depth(p, p[i].kind, i, k) > 0 }
  IN  IF ends = {} THEN Len(p) + 1 ELSE CHOOSE j \in ends : TRUE

(* The last op that defines the function of that name, 0 if there is none. *)
DefOf(p, name) ==
  LET defs == { i \in 1 .. Len(p) : p[i].kind = "def" /\ p[i].name = name }
  IN  IF defs = {} THEN 0 ELSE CHOOSE i \in defs : \A j \in defs : j <= i
=============================================================================
