-------------------------- MODULE CircuitExecution --------------------------
(***************************************************************************)
(* What compiling a program must preserve: each qubit undergoes its ops in *)
(* program order, and an op happens on all its qubits at once.  Ops that   *)
(* share no qubit happen in any order.  Where the qubits are, and what     *)
(* moves them, is invisible at this level.                                 *)
(***************************************************************************)
EXTENDS Integers, Sequences

CONSTANTS
  Virt,         \* the program's qubits
  Programs      \* sequences of ops, each with its kind and its qubits qs

VARIABLES
  program,
  executed,     \* the ops that have happened
  history       \* history[v]: the ops v has undergone, in order

vars == <<program, executed, history>>

Gates == 1 .. Len(program)
Ops(g) == { program[g].qs[k] : k \in 1 .. Len(program[g].qs) }

Init ==
  /\ program \in Programs
  /\ executed = {}
  /\ history = [v \in Virt |-> << >>]

Execute(g) ==
  /\ g \notin executed
  /\ \A h \in Gates : h < g /\ Ops(h) \cap Ops(g) # {} => h \in executed
  /\ executed' = executed \cup {g}
  /\ history' = [v \in Virt |-> IF v \in Ops(g) THEN Append(history[v], g)
                                ELSE history[v]]
  /\ UNCHANGED program

Next == \E g \in Gates : Execute(g)

Spec == Init /\ [][Next]_vars
=============================================================================
