----------------------------- MODULE Simulator -----------------------------
(***************************************************************************)
(* simulate and equivalent of the check lane, and what they find of the    *)
(* stages of PassManager: amplitudes of a register, the matrices of the    *)
(* gates, and equality up to a global phase.                               *)
(*                                                                         *)
(* An amplitude is a residue modulo the prime Field, in which Zeta stands  *)
(* for exp(i pi / Turn): it has 2 * Turn powers, so every sum of products  *)
(* of such numbers has its image, computed without rounding.  Matrices     *)
(* that are equal have equal images; matrices that are not have different  *)
(* ones but for a coincidence modulo Field.  Matrices are taken without    *)
(* their positive normalising factor, which equality up to a factor does   *)
(* not see.                                                                *)
(***************************************************************************)
EXTENDS PassManager

CONSTANTS Field, Zeta

Powers[k \in 0 .. 2 * Turn - 1] ==
  IF k = 0 THEN 1 ELSE (Zeta * Powers[k - 1]) % Field

ASSUME FieldAssumption ==
  /\ Turn % 8 = 0
  /\ Field \in Nat /\ Zeta \in 1 .. Field - 1
  /\ Powers[Turn] = Field - 1

(* exp of i times half the angle n.                                        *)
E(n) == Powers[n % (2 * Turn)]

I == E(Turn \div 2)

(* A 2x2 matrix from its entries, row by row.                              *)
Mat2(a, b, c, d) == <<<<a % Field, b % Field>>, <<c % Field, d % Field>>>>

Identity   == Mat2(1, 0, 0, 1)
PhaseOf(n) == Mat2(1, 0, 0, E(2 * n))

(* Twice the cosine and twice the sine of half an angle.                   *)
Cos(n) == E(n) + E(-n)
Sin(n) == (-I * (E(n) - E(-n))) % Field

Matrix1(op) ==
  CASE op.kind = "h"    -> Mat2(1, 1, 1, -1)
    [] op.kind = "x"    -> Mat2(0, 1, 1, 0)
    [] op.kind = "y"    -> Mat2(0, -I, I, 0)
    [] op.kind = "z"    -> PhaseOf(Turn \div 2)
    [] op.kind = "s"    -> PhaseOf(Turn \div 4)
    [] op.kind = "sdg"  -> PhaseOf(-(Turn \div 4))
    [] op.kind = "t"    -> PhaseOf(Turn \div 8)
    [] op.kind = "tdg"  -> PhaseOf(-(Turn \div 8))
    [] op.kind = "rx"   -> LET c == Cos(op.n)
                               s == -I * Sin(op.n)
                           IN  Mat2(c, s, s, c)
    [] op.kind = "ry"   -> LET c == Cos(op.n)
                               s == Sin(op.n)
                           IN  Mat2(c, -s, s, c)
    [] op.kind = "rz"   -> Mat2(E(-op.n), 0, 0, E(op.n))
    [] op.kind = "sx"   -> Mat2(1 + I, 1 - I, 1 - I, 1 + I)
    [] op.kind = "sxdg" -> Mat2(1 - I, 1 + I, 1 + I, 1 - I)
    [] OTHER            -> Identity      \* gpi, gpi2 and u1q

(* Entry of a two-qubit matrix: row <<a, b>>, column <<c, d>>, the first   *)
(* operand the higher bit.                                                 *)
Entry2(op, a, b, c, d) ==
  CASE op.kind = "cx"   -> IF a = c /\ b = (a + d) % 2 THEN 1 ELSE 0
    [] op.kind = "swap" -> IF a = d /\ b = c THEN 1 ELSE 0
    [] op.kind = "cz"   -> IF a # c \/ b # d THEN 0
                           ELSE IF a = 1 /\ b = 1 THEN -1 ELSE 1
    [] op.kind = "rzz"  -> IF a # c \/ b # d THEN 0
                           ELSE IF a = b THEN E(-op.n) ELSE E(op.n)
    [] op.kind = "ms"   -> IF a = c /\ b = d THEN 1
                           ELSE IF a # c /\ b # d THEN -I ELSE 0
    [] op.kind = "ecr"  -> IF b = d THEN 0 ELSE IF a = c THEN 1
                           ELSE IF b = 0 THEN I ELSE -I

(* A register of two qubits: recipes touch no more.  Its states are        *)
(* numbers, qubit p the bit of weight 2^p, and its amplitudes a tuple in   *)
(* their order.                                                            *)
ASSUME RegisterAssumption == Qubits = {0, 1}

Bit(b, p)     == (b \div 2^p) % 2
With(b, p, v) == b + (v - Bit(b, p)) * 2^p

Vectors == [1 .. 4 -> 0 .. Field - 1]

Amplitudes(At(_)) == <<At(0) % Field, At(1) % Field, At(2) % Field, At(3) % Field>>

(* apply1q and apply2q.                                                    *)
Apply1(sv, p, u) ==
  LET At(b) == u[Bit(b, p) + 1][1] * sv[With(b, p, 0) + 1]
                 + u[Bit(b, p) + 1][2] * sv[With(b, p, 1) + 1]
  IN  Amplitudes(At)

Apply2(sv, p, q, op) ==
  LET Part(b, c, d) == Entry2(op, Bit(b, p), Bit(b, q), c, d)
                         * sv[With(With(b, p, c), q, d) + 1]
      At(b) == Part(b, 0, 0) + Part(b, 0, 1) + Part(b, 1, 0) + Part(b, 1, 1)
  IN  Amplitudes(At)

(* Fences leave the amplitudes alone.                                      *)
Apply(sv, op) ==
  CASE op.kind \in Fences -> sv
    [] Len(op.qs) = 1     -> Apply1(sv, op.qs[1], Matrix1(op))
    [] OTHER              -> Apply2(sv, op.qs[1], op.qs[2], op)

Simulate(ops, start) ==
  LET run[k \in 1 .. Len(ops) + 1, sv \in Vectors] ==
        IF k > Len(ops) THEN sv ELSE run[k + 1, Apply(sv, ops[k])]
  IN  run[1, Amplitudes(LAMBDA b : IF b = start THEN 1 ELSE 0)]

(* The matrix of a module, column after column.                            *)
Matrix(ops) ==
  Simulate(ops, 0) \o Simulate(ops, 1) \o Simulate(ops, 2) \o Simulate(ops, 3)

(* Equality up to one factor for all columns; the code starts a register   *)
(* in the first state only.                                                *)
Equivalent(ops1, ops2) ==
  LET u == Matrix(ops1)
      v == Matrix(ops2)
      x == SelectInSeq(u, LAMBDA a : a # 0)
  IN  /\ v[x] # 0
      /\ \A k \in 1 .. 16 : (u[k] * v[x]) % Field = (v[k] * u[x]) % Field
-----------------------------------------------------------------------------
(* The positions of the measures, resets and barriers of a module.         *)
FencesOf(ops) == { k \in 1 .. Len(ops) : ops[k].kind \in Fences }

UpTo(ops, k) == SubSeq(ops, 1, k - 1)

(* The simulator takes the others for the identity.                        *)
Simulated(ops) ==
  \A k \in 1 .. Len(ops) : ops[k].kind \notin {"gpi", "gpi2", "u1q"}

(* Every rewrite of a gate is exact: the decomposed module has the fences  *)
(* of the routed one, in order, and when each of them is reached, and at   *)
(* the end, the same has happened to the register.                         *)
RecipesExact ==
  (stage = "decomposed" /\ Simulated(decomposed)) =>
    LET before == SetToSortSeq(FencesOf(routed), LAMBDA j, k : j < k)
        after  == SetToSortSeq(FencesOf(decomposed), LAMBDA j, k : j < k)
    IN  /\ Len(before) = Len(after)
        /\ \A f \in 1 .. Len(before) :
             /\ routed[before[f]] = decomposed[after[f]]
             /\ Equivalent(UpTo(routed, before[f]), UpTo(decomposed, after[f]))
        /\ Equivalent(routed, decomposed)

(* What is returned at any level does to the register what the routed      *)
(* module does; the check lane asks this of one starting state.            *)
CompiledEquivalent ==
  (stage = "returned" /\ Simulated(decomposed)) => Equivalent(routed, cur)
=============================================================================
