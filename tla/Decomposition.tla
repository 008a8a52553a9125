--------------------------- MODULE Decomposition ---------------------------
(***************************************************************************)
(* Decomposition::run: every standard gate of a routed module becomes a    *)
(* recipe of gates the chip is said to have, op by op, in order.           *)
(*                                                                         *)
(* A chip has rotation and pi2, its gates for rotations and for the square *)
(* root of X (NoGate if it has none), and entangler, its two-qubit gate.   *)
(***************************************************************************)
EXTENDS SpinorOps

ASSUME EighthsAssumption == Turn % 8 = 0

NoGate == ""

Half    == Turn \div 2
Quarter == Turn \div 4
Eighth  == Turn \div 8

(* <<alpha, beta, gamma>> with U = Rz(gamma) Ry(beta) Rz(alpha) up to a    *)
(* phase: alpha is the rotation applied first.                             *)
NamedAngles ==
  [h |-> <<0, -Quarter, Half>>, x |-> <<0, Half, Half>>, y |-> <<0, Half, 0>>,
   z |-> <<0, 0, Half>>, s |-> <<0, 0, Quarter>>, sdg |-> <<0, 0, -Quarter>>,
   t |-> <<0, 0, Eighth>>, tdg |-> <<0, 0, -Eighth>>]

ZyzFor(op) ==
  CASE op.kind = "rx" -> <<Quarter, op.n, -Quarter>>
    [] op.kind = "ry" -> <<0, op.n, 0>>
    [] op.kind = "rz" -> <<0, 0, op.n>>
    [] OTHER          -> NamedAngles[op.kind]

One(kind, n, p) == <<[kind |-> kind, qs |-> <<p>>, n |-> n]>>

Two(kind, n, p, q) == <<[kind |-> kind, qs |-> <<p, q>>, n |-> n]>>

(* A slip: the angles of the identity found wrong on a device,             *)
(* Rz(-pi/2) sqrt(X) Rz(beta) sqrt(X) Rz(pi/2).                            *)
EmitZyzOld(chip, z, p) ==
  One("rz", z[1] - Quarter, p) \o One("sx", 0, p) \o One("rz", z[2], p)
    \o One("sx", 0, p) \o One("rz", z[3] + Quarter, p)

(* emitZYZ: Ry(beta) is Rz(pi) sqrt(X) Rz(beta + pi) sqrt(X) where the     *)
(* chip has the root; the rotation gate three times where it has not.      *)
EmitZyz(chip, z, p) ==
  LET Rotation(a) == One(chip.rotation, a, p)
      Root == One(IF chip.pi2 = "gpi2" THEN "gpi2" ELSE "sx", 0, p)
  IN  IF chip.pi2 = NoGate
      THEN Rotation(z[1]) \o Rotation(z[2]) \o Rotation(z[3])
      ELSE (IF z[1] = 0 THEN << >> ELSE Rotation(z[1]))
             \o Root \o Rotation(z[2] + Half) \o Root \o Rotation(z[3] + Half)

(* emitCX, control c and target t, by entangler.                           *)
HByRoot(p) == One("rz", Quarter, p) \o One("sx", 0, p) \o One("rz", Quarter, p)

EmitCx(chip, c, t) ==
  CASE chip.entangler = "ecr" ->
         One("rz", Quarter, t) \o One("sx", 0, t) \o Two("ecr", 0, c, t)
           \o One("sx", 0, t) \o One("rz", Quarter, c) \o One("rz", -Quarter, t)
    [] chip.entangler = "ms" ->
         One("gpi2", Quarter, c) \o Two("ms", 0, c, t)
           \o One("gpi2", -Quarter, c) \o One("gpi2", -Quarter, t)
    [] chip.entangler = "rzz" ->
         One("u1q", Quarter, c) \o One("u1q", Quarter, t)
           \o Two("rzz", Quarter, c, t)
           \o One("u1q", -Quarter, c) \o One("u1q", -Quarter, t)
    [] chip.entangler = "cz" -> HByRoot(t) \o Two("cz", 0, c, t) \o HByRoot(t)
    [] chip.entangler = "cx" -> Two("cx", 0, c, t)

EmitSwap(chip, a, b) ==
  EmitCx(chip, a, b) \o EmitCx(chip, b, a) \o EmitCx(chip, a, b)

EmitCz(chip, c, t) ==
  LET H == EmitZyz(chip, NamedAngles.h, t) IN H \o EmitCx(chip, c, t) \o H

(* What one op becomes.  A gate that is no standard one is built again     *)
(* under its own name, on the chip or not.                                 *)
Recipe(chip, op) ==
  CASE op.kind \in Fences -> <<op>>
    [] op.kind \in OneQ   -> EmitZyz(chip, ZyzFor(op), op.qs[1])
    [] op.kind = "cx"     -> EmitCx(chip, op.qs[1], op.qs[2])
    [] op.kind = "cz"     -> EmitCz(chip, op.qs[1], op.qs[2])
    [] op.kind = "swap"   -> EmitSwap(chip, op.qs[1], op.qs[2])
    [] OTHER              -> <<[op EXCEPT !.n = AngleAttribute(op)]>>

(* The new module, to which every op of the old one adds its recipe.       *)
Rewritten(chip, op) == [out \in Seq(OpType) |-> out \o Recipe(chip, op)]

DecomposedFor(chip, ops) ==
  Through(<< >>, [k \in 1 .. Len(ops) |-> Rewritten(chip, ops[k])])[Len(ops)]
=============================================================================
