---------------------------- MODULE LinearTypes -----------------------------
(***************************************************************************)
(* The linear type checker: one walk over a Phonon module, op by op and    *)
(* operand by operand, with two flags per value.                           *)
(***************************************************************************)
EXTENDS PhononIR

(* A slip: what only fences a qubit does not use it up.                    *)
ConsumesOnlyGates(kind) == kind \in GateKinds \cup {"call"}

States == [ok : BOOLEAN, consumed : SUBSET Nat, measured : SUBSET Nat]

(* The condition of an if is a bit, so that of the markers none consumes.  *)
ConsumesQubits(kind) == kind \in GateKinds \cup FenceKinds \cup {"call"}

(* A slip: what a reset is forgiven is not taken back.                     *)
FlaggedUnlessReset(st, kind, v) ==
  v \in st.consumed /\ kind # "reset"

(* E1, then E2.                                                            *)
Flagged(st, kind, v) ==
  \/ v \in st.consumed /\ ~(kind = "reset" /\ v \in st.measured)
  \/ v \in st.measured /\ kind # "reset"

TakeOperand(st, kind, v) ==
  [ok       |-> st.ok /\ ~Flagged(st, kind, v),
   consumed |-> st.consumed \cup {v},
   measured |-> CASE kind = "measure" -> st.measured \cup {v}
                  [] kind = "reset"   -> st.measured \ {v}
                  [] OTHER            -> st.measured]

TakeOperands(st, op) ==
  Through(st, [j \in 1 .. Len(op.in) |->
                 [s \in States |-> TakeOperand(s, op.kind, op.in[j])]])

CheckOp(st, op) ==
  LET used == IF ConsumesQubits(op.kind) THEN TakeOperands(st, op)[Len(op.in)] ELSE st
  IN  [ok       |-> used.ok,
       consumed |-> used.consumed \ Range(op.out),
       measured |-> used.measured \ Range(op.out)]

Unused == [ok |-> TRUE, consumed |-> {}, measured |-> {}]

Checked(m) ==
  Through(Unused, [k \in 1 .. Len(m) |-> [s \in States |-> CheckOp(s, m[k])]])

(* typecheck, over a whole module: are there no errors?                    *)
TypeChecks(m) == Checked(m)[Len(m)].ok
-----------------------------------------------------------------------------
(* The rule the checker is for: no value is consumed twice, except that a  *)
(* value may be measured and then reset.                                   *)
Places(m) == UNION { {k} \X (1 .. Len(m[k].in)) : k \in 1 .. Len(m) }

Uses(m, v) ==
  { u \in Places(m) : ConsumesQubits(m[u[1]].kind) /\ m[u[1]].in[u[2]] = v }

Linear(m) ==
  \A v \in ValuesOf(m) :
    \A s, t \in Uses(m, v) :
      (s # t /\ s[1] <= t[1]) =>
        /\ m[s[1]].kind = "measure" /\ m[t[1]].kind = "reset"
        /\ Uses(m, v) = {s, t}
=============================================================================
