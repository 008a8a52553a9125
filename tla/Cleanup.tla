------------------------------ MODULE Cleanup ------------------------------
(***************************************************************************)
(* Cleanup::run: merges rotations and cancels sx against sxdg, qubit by    *)
(* qubit, by holding them back until another op needs them out.            *)
(*                                                                         *)
(* s.rz and s.pi2 are pendingRz and pendingPi2, s.out the emitted module.  *)
(***************************************************************************)
EXTENDS SpinorOps

State(rz, pi2, out) == [rz |-> rz, pi2 |-> pi2, out |-> out]

Start == State([p \in Qubits |-> 0], [p \in Qubits |-> 0], << >>)

WalkStates ==
  [rz : [Qubits -> Int], pi2 : [Qubits -> Int], out : Seq(OpType)]

(* normalizeAngle: the representative in (-Turn/2, Turn/2].                *)
Normalized(a) == LET r == a % Turn IN IF 2 * r > Turn THEN r - Turn ELSE r

(* An op with its angle as a flush would emit it.                          *)
Canonical(op) == IF op.kind = "rz" THEN [op EXCEPT !.n = Normalized(@)] ELSE op

Canonicals(ops) == [k \in 1 .. Len(ops) |-> Canonical(ops[k])]

Rz(a, p) == [kind |-> "rz", qs |-> <<p>>, n |-> a]

(* A run of |n| ops, sx for a positive n and sxdg for a negative one.      *)
Pi2Run(n, p) ==
  [k \in 1 .. (IF n < 0 THEN -n ELSE n) |->
     [kind |-> IF n > 0 THEN "sx" ELSE "sxdg", qs |-> <<p>>, n |-> 0]]

FlushPi2(s, p) ==
  State(s.rz, [s.pi2 EXCEPT ![p] = 0], s.out \o Pi2Run(s.pi2[p], p))

(* A slip: a rotation by a whole turn is emitted like any other.           *)
FlushRzAlways(s, p) ==
  [s EXCEPT !.out = Append(@, Rz(Normalized(s.rz[p]), p)), !.rz[p] = 0]

FlushRz(s, p) ==
  State([s.rz EXCEPT ![p] = 0], s.pi2,
        IF Normalized(s.rz[p]) = 0 THEN s.out
        ELSE Append(s.out, Rz(Normalized(s.rz[p]), p)))

FlushAll(s, p) == FlushRz(FlushPi2(s, p), p)

Flushed(p) == [s \in WalkStates |-> FlushAll(s, p)]

FlushEach(s, qs) ==
  Through(s, [k \in 1 .. Len(qs) |-> Flushed(qs[k])])[Len(qs)]

(* Every op is built anew.                                                 *)
Reemitted(op) == [op EXCEPT !.n = AngleAttribute(op)]

(* Slips: an rz does not wait for a run of sx, nor sx for an rz; an op on  *)
(* several qubits fences the first one only; a measure is no fence.        *)
HoldRzEarly(s, p, a) == [s EXCEPT !.rz[p] = @ + a]

HoldPi2Early(s, p, k) == [s EXCEPT !.pi2[p] = @ + k]

PassAfterFirst(s, op) ==
  [FlushAll(s, op.qs[1]) EXCEPT !.out = Append(@, Reemitted(op))]

PassAcrossMeasure(s, op) ==
  [(IF op.kind = "measure" THEN s ELSE FlushEach(s, op.qs))
     EXCEPT !.out = Append(@, Reemitted(op))]

(* An rz comes after the run of sx held back before it.                    *)
HoldRz(s, p, a) ==
  LET t == FlushPi2(s, p)
  IN  State([t.rz EXCEPT ![p] = @ + a], t.pi2, t.out)

HoldPi2(s, p, k) ==
  LET t == FlushRz(s, p)
  IN  State(t.rz, [t.pi2 EXCEPT ![p] = @ + k], t.out)

(* Any other op finds nothing held back on the qubits it touches.          *)
Pass(s, op) ==
  LET t == FlushEach(s, op.qs)
  IN  State(t.rz, t.pi2, Append(t.out, Reemitted(op)))

(* One iteration of the walk.                                              *)
Visit(s, op) ==
  CASE op.kind = "rz"   -> HoldRz(s, op.qs[1], op.n)
    [] op.kind = "sx"   -> HoldPi2(s, op.qs[1], 1)
    [] op.kind = "sxdg" -> HoldPi2(s, op.qs[1], -1)
    [] OTHER            -> Pass(s, op)

(* The loop after the walk, in the order of the qubits.                    *)
FlushEvery(s) == FlushEach(s, [k \in 1 .. Cardinality(Qubits) |-> k - 1])

Visited(op) == [s \in WalkStates |-> Visit(s, op)]

(* The module the pass returns.                                            *)
Cleaned(ops) ==
  FlushEvery(
    Through(Start, [k \in 1 .. Len(ops) |-> Visited(ops[k])])[Len(ops)]).out
=============================================================================
