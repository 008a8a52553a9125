---------------------------- MODULE CleanupWalk ----------------------------
(***************************************************************************)
(* The walk of Cleanup::run over a module, one op a step.  The module is   *)
(* any sequence of ops up to a length: each step finds the next op, or     *)
(* that there is none.                                                     *)
(***************************************************************************)
EXTENDS Cleanup

CONSTANTS
  InputOps,     \* the ops modules are made of
  MaxLength     \* bound on the length of a module

(* The dialect builds these gates on one qubit, any op on some, and no     *)
(* root of X with an angle.                                                *)
ASSUME InputAssumption ==
  \A op \in InputOps :
    /\ op \in OpType /\ op.qs # << >>
    /\ op.kind \in OneQ \cup NativeOneQ => Len(op.qs) = 1
    /\ op.kind \in {"sx", "sxdg"} => op.n = 0
ASSUME LengthAssumption == MaxLength \in Nat

VARIABLES
  walked,     \* the ops walked over
  state,      \* pendings and emitted ops
  returned    \* the last flush is done

vars == <<walked, state, returned>>

Init ==
  /\ walked = << >>
  /\ state = Start
  /\ returned = FALSE

Walk ==
  /\ ~returned
  /\ Len(walked) < MaxLength
  /\ \E op \in InputOps : /\ state' = Visit(state, op)
                           /\ walked' = Append(walked, op)
  /\ UNCHANGED returned

Return ==
  /\ ~returned
  /\ state' = FlushEvery(state)
  /\ returned' = TRUE
  /\ UNCHANGED walked

Next == Walk \/ Return \/ (returned /\ UNCHANGED vars)

Spec == Init /\ [][Next]_vars
-----------------------------------------------------------------------------
(* At any point of the walk the emitted ops followed by what is pending do *)
(* to every qubit what the ops walked over do: nothing is lost, invented,  *)
(* or moved across an op it does not commute with, and an op on several    *)
(* qubits stays a fence on each of them.                                   *)
Faithful == SameEffect(FlushEvery(state).out, walked)

(* The pass never lengthens a module, and leaves the ops of every qubit as *)
(* they were, angles normalised, when it does not shorten it.  The fixed-  *)
(* point criterion takes an unchanged size for an unchanged module.        *)
SizeTellsChange ==
  returned =>
    /\ Len(state.out) <= Len(walked)
    /\ Len(state.out) = Len(walked) =>
         \A p \in Qubits : On(state.out, p) = On(Canonicals(walked), p)

(* What Cleanup.cpp says of chips whose rotations it does not merge, among *)
(* them Quantinuum's u1q: "the pass passes ops through unchanged".         *)
PassesThrough ==
  (returned /\ \A k \in 1 .. Len(walked) : walked[k].kind = "u1q") =>
    \A p \in Qubits : On(state.out, p) = On(walked, p)
=============================================================================
