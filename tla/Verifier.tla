------------------------------ MODULE Verifier ------------------------------
(***************************************************************************)
(* spinor::verify::verify: rules W2 to W6 on a flat module for a target.   *)
(*                                                                         *)
(* A target has generic, native (its gates), allToAll and coupling, qubits *)
(* (0 for no bound) and midCircuitMeasure.  A rule is the set of positions *)
(* of the ops it reports.                                                  *)
(***************************************************************************)
EXTENDS SpinorOps

Targets ==
  [generic : BOOLEAN, native : SUBSET STRING, allToAll : BOOLEAN,
   coupling : SUBSET (Nat \X Nat), qubits : Nat, midCircuitMeasure : BOOLEAN]

Arity(op) == IF op.kind = "barrier" THEN -1 ELSE Len(op.qs)

(* Pairs are stored with the lower qubit first.                            *)
Coupled(target, a, b) ==
  /\ a # b
  /\ target.allToAll \/ <<Min({a, b}), Max({a, b})>> \in target.coupling

(* p is measured and not reset since when op k of ops starts.              *)
Measured(ops, p, k) ==
  \E j \in 1 .. k - 1 :
    /\ ops[j].kind = "measure" /\ p \in Touched(ops[j])
    /\ \A i \in j + 1 .. k - 1 : ~(ops[i].kind = "reset" /\ p \in Touched(ops[i]))

OutOfRange(target, op) ==
  /\ ~target.generic /\ target.qubits > 0 /\ Arity(op) > 0
  /\ \E p \in Touched(op) : p >= target.qubits

Repeated(op) ==
  /\ Arity(op) >= 2 \/ op.kind = "barrier"
  /\ ~IsInjective(op.qs)

(* A barrier is let through on any qubit.                                  *)
TouchesMeasured(target, ops, k) ==
  /\ ~target.midCircuitMeasure
  /\ Arity(ops[k]) > 0 /\ ops[k].kind \notin {"measure", "reset"}
  /\ \E p \in Touched(ops[k]) : Measured(ops, p, k)

OutsideVocabulary(target, op) ==
  /\ op.kind \in Gates
  /\ op.kind \notin IF target.generic THEN Standard ELSE target.native

NotCoupled(target, op) ==
  /\ op.kind \in Gates /\ ~target.generic /\ Arity(op) = 2
  /\ ~Coupled(target, op.qs[1], op.qs[2])

Verify(target, ops) ==
  \A k \in 1 .. Len(ops) :
    /\ ~OutOfRange(target, ops[k])             \* W2
    /\ ~Repeated(ops[k])                       \* W3
    /\ ~TouchesMeasured(target, ops, k)        \* W4
    /\ ~OutsideVocabulary(target, ops[k])      \* W5 and W6
    /\ ~NotCoupled(target, ops[k])             \* W6
=============================================================================
