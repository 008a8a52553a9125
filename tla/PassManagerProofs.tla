------------------------- MODULE PassManagerProofs -------------------------
(***************************************************************************)
(* No stage of PassManager::compile after decomposition changes what the   *)
(* module does to a qubit, at any level, in any round of either loop, for  *)
(* chips that rotate by no u1q; and all of them leave a module that the    *)
(* verifier lets through for the chip.                                     *)
(***************************************************************************)
EXTENDS PassManager, CleanupProofs

(* A chip on which decomposition emits no u1q: neither its rotation nor    *)
(* what its entangler is wrapped in.                                       *)
RotatesReadably(c) == c.rotation # "u1q" /\ c.entangler # "rzz"

HasNoU1q(ops) == \A k \in 1 .. Len(ops) : ops[k].kind # "u1q"

-----------------------------------------------------------------------------
(* Decomposition emits ops whose angles Cleanup reads.                     *)
LEMMA OneIsPlain ==
  ASSUME NEW kind \in (OneQ \cup NativeOneQ) \ {"u1q"}, NEW n \in Int,
         NEW p \in Qubits, kind \in {"sx", "sxdg"} => n = 0
  PROVE  One(kind, n, p) \in Seq(PlainOps)
<1> DEFINE op == [kind |-> kind, qs |-> <<p>>, n |-> n]
<1>1. op \in OpType
  BY DEF OpType, Gates, Standard
<1>2. Len(op.qs) = 1 /\ AngleAttribute(op) = op.n
  BY DEF AngleAttribute
<1>3. op \in PlainOps
  BY <1>1, <1>2 DEF PlainOps
<1> HIDE DEF op
<1> QED BY <1>3 DEF One, op

LEMMA TwoIsPlain ==
  ASSUME NEW kind \in {"cx", "cz"} \cup NativeTwoQ, NEW n \in Int,
         NEW p \in Qubits, NEW q \in Qubits
  PROVE  Two(kind, n, p, q) \in Seq(PlainOps)
<1> DEFINE op == [kind |-> kind, qs |-> <<p, q>>, n |-> n]
<1>1. op \in OpType
  BY DEF OpType, Gates, Standard, TwoQ
<1>2. kind \notin {"rz", "sx", "sxdg", "u1q"}
  BY DEF NativeTwoQ
<1>3. op \in PlainOps
  BY <1>1, <1>2 DEF PlainOps, AngleAttribute
<1> HIDE DEF op
<1> QED BY <1>3 DEF Two, op

LEMMA ConcatIsPlain ==
  ASSUME NEW s \in Seq(PlainOps), NEW t \in Seq(PlainOps)
  PROVE  s \o t \in Seq(PlainOps)
BY ConcatProperties

LEMMA AnglesAreIntegers ==
  Half \in Int /\ Quarter \in Int /\ -Quarter \in Int
  /\ Eighth \in Int /\ -Eighth \in Int
BY TurnAssumption DEF Half, Quarter, Eighth

LEMMA ZyzIsTyped ==
  ASSUME NEW op \in OpType, op.kind \in OneQ
  PROVE  ZyzFor(op) \in Int \X Int \X Int
<1>1. op.n \in Int
  BY DEF OpType
<1>2. CASE op.kind \in Angled
  BY <1>1, <1>2, AnglesAreIntegers DEF ZyzFor, Angled
<1>3. CASE op.kind \in OneQ \ Angled
  <2>1. NamedAngles[op.kind] \in Int \X Int \X Int
    BY <1>3, AnglesAreIntegers DEF NamedAngles, OneQ, Angled
  <2> QED BY <1>3, <2>1 DEF ZyzFor, Angled
<1> QED BY <1>2, <1>3

LEMMA EmitZyzIsPlain ==
  ASSUME NEW c \in Chips, RotatesReadably(c),
         NEW z \in Int \X Int \X Int, NEW p \in Qubits
  PROVE  EmitZyz(c, z, p) \in Seq(PlainOps)
<1>1. c.rotation \in ((OneQ \cup NativeOneQ) \ {"u1q"}) \ {"sx", "sxdg"}
  BY ChipsAssumption DEF RotatesReadably, OneQ, NativeOneQ, Angled
<1>2. \A a \in Int : One(c.rotation, a, p) \in Seq(PlainOps)
  BY <1>1, OneIsPlain
<1>3. z[1] \in Int /\ z[2] \in Int /\ z[3] \in Int
  OBVIOUS
<1>4. z[2] + Half \in Int /\ z[3] + Half \in Int
  BY <1>3, AnglesAreIntegers
<1> DEFINE root == One(IF c.pi2 = "gpi2" THEN "gpi2" ELSE "sx", 0, p)
<1>5. root \in Seq(PlainOps)
  <2>1. (IF c.pi2 = "gpi2" THEN "gpi2" ELSE "sx")
          \in (OneQ \cup NativeOneQ) \ {"u1q"}
    BY DEF NativeOneQ
  <2> QED BY <2>1, OneIsPlain
<1>6. << >> \in Seq(PlainOps)
  BY EmptySeq
<1> HIDE DEF root
<1>7. CASE c.pi2 = NoGate
  <2>1. EmitZyz(c, z, p) = One(c.rotation, z[1], p) \o One(c.rotation, z[2], p)
                             \o One(c.rotation, z[3], p)
    BY <1>7 DEF EmitZyz
  <2> QED BY <1>2, <1>3, <2>1, ConcatIsPlain
<1>8. CASE c.pi2 # NoGate
  <2> DEFINE first == IF z[1] = 0 THEN << >> ELSE One(c.rotation, z[1], p)
  <2>1. first \in Seq(PlainOps)
    BY <1>2, <1>3, <1>6
  <2>2. EmitZyz(c, z, p) =
          first \o root \o One(c.rotation, z[2] + Half, p) \o root
            \o One(c.rotation, z[3] + Half, p)
    BY <1>8 DEF EmitZyz, root
  <2> HIDE DEF first
  <2> QED BY <1>2, <1>4, <1>5, <2>1, <2>2, ConcatIsPlain
<1> QED BY <1>7, <1>8

LEMMA EmitCxIsPlain ==
  ASSUME NEW c \in Chips, RotatesReadably(c), NEW p \in Qubits, NEW q \in Qubits
  PROVE  EmitCx(c, p, q) \in Seq(PlainOps)
<1>1. \A n \in Int, r \in Qubits :
        /\ One("rz", n, r) \in Seq(PlainOps)
        /\ One("sx", 0, r) \in Seq(PlainOps)
        /\ One("gpi2", n, r) \in Seq(PlainOps)
  BY OneIsPlain DEF OneQ, NativeOneQ, Angled
<1>2. /\ Two("ecr", 0, p, q) \in Seq(PlainOps)
      /\ Two("ms", 0, p, q) \in Seq(PlainOps)
      /\ Two("cz", 0, p, q) \in Seq(PlainOps)
      /\ Two("cx", 0, p, q) \in Seq(PlainOps)
  BY TwoIsPlain DEF NativeTwoQ
<1>3. CASE c.entangler = "ecr"
  <2>1. EmitCx(c, p, q) =
          One("rz", Quarter, q) \o One("sx", 0, q) \o Two("ecr", 0, p, q)
            \o One("sx", 0, q) \o One("rz", Quarter, p) \o One("rz", -Quarter, q)
    BY <1>3 DEF EmitCx
  <2> QED BY <1>1, <1>2, <2>1, AnglesAreIntegers, ConcatIsPlain
<1>4. CASE c.entangler = "ms"
  <2>1. EmitCx(c, p, q) =
          One("gpi2", Quarter, p) \o Two("ms", 0, p, q)
            \o One("gpi2", -Quarter, p) \o One("gpi2", -Quarter, q)
    BY <1>4 DEF EmitCx
  <2> QED BY <1>1, <1>2, <2>1, AnglesAreIntegers, ConcatIsPlain
<1>5. CASE c.entangler = "cz"
  <2>1. EmitCx(c, p, q) = HByRoot(q) \o Two("cz", 0, p, q) \o HByRoot(q)
    BY <1>5 DEF EmitCx
  <2>2. HByRoot(q) \in Seq(PlainOps)
    BY <1>1, AnglesAreIntegers, ConcatIsPlain DEF HByRoot
  <2> QED BY <1>2, <2>1, <2>2, ConcatIsPlain
<1>6. CASE c.entangler = "cx"
  BY <1>2, <1>6 DEF EmitCx
<1>7. c.entangler \in {"ecr", "ms", "cz", "cx"}
  BY ChipsAssumption DEF RotatesReadably, NativeTwoQ
<1> QED BY <1>3, <1>4, <1>5, <1>6, <1>7

LEMMA RecipeIsPlain ==
  ASSUME NEW c \in Chips, RotatesReadably(c),
         NEW op \in OpType, op.kind # "u1q",
         op.kind \in OneQ \cup NativeOneQ => Len(op.qs) = 1,
         op.kind \in TwoQ \cup NativeTwoQ => Len(op.qs) = 2,
         op.kind \in {"sx", "sxdg"} => op.n = 0
  PROVE  Recipe(c, op) \in Seq(PlainOps)
<1>1. op.qs \in Seq(Qubits)
  BY DEF OpType
<1>2. op.kind \notin {"sx", "sxdg"} \cup OneQ => op \in PlainOps
  BY DEF PlainOps, AngleAttribute, OneQ, Angled
<1>3. CASE op.kind \in Fences
  <2>1. op \in PlainOps
    BY <1>2, <1>3 DEF Fences, OneQ, Angled
  <2>2. op.kind \notin OneQ \cup {"cx", "cz", "swap"}
    BY <1>3 DEF Fences, OneQ, Angled
  <2>3. Recipe(c, op) = <<op>>
    BY <1>3, <2>2 DEF Recipe
  <2> QED BY <2>1, <2>3
<1>4. CASE op.kind \in OneQ
  <2>1. op.qs[1] \in Qubits
    BY <1>1, <1>4, ElementOfSeq
  <2>2. EmitZyz(c, ZyzFor(op), op.qs[1]) \in Seq(PlainOps)
    BY <1>4, <2>1, ZyzIsTyped, EmitZyzIsPlain
  <2>3. op.kind \notin Fences \cup {"cx", "cz", "swap"}
    BY <1>4 DEF Fences, OneQ, Angled
  <2>4. Recipe(c, op) = EmitZyz(c, ZyzFor(op), op.qs[1])
    BY <1>4, <2>3 DEF Recipe
  <2> QED BY <2>2, <2>4
<1>5. CASE op.kind \in TwoQ
  <2>1. op.qs[1] \in Qubits /\ op.qs[2] \in Qubits
    BY <1>1, <1>5, ElementOfSeq
  <2> DEFINE p == op.qs[1]
             q == op.qs[2]
  <2>2. EmitCx(c, p, q) \in Seq(PlainOps) /\ EmitCx(c, q, p) \in Seq(PlainOps)
    BY <2>1, EmitCxIsPlain
  <2>3. EmitSwap(c, p, q) \in Seq(PlainOps)
    BY <2>2, ConcatIsPlain DEF EmitSwap
  <2>4. EmitCz(c, p, q) \in Seq(PlainOps)
    <3>1. NamedAngles.h \in Int \X Int \X Int
      BY AnglesAreIntegers DEF NamedAngles
    <3>2. EmitZyz(c, NamedAngles.h, q) \in Seq(PlainOps)
      BY <2>1, <3>1, EmitZyzIsPlain
    <3> QED BY <2>2, <3>2, ConcatIsPlain DEF EmitCz
  <2>5. op.kind \notin Fences \cup OneQ
    BY <1>5 DEF Fences, OneQ, Angled, TwoQ
  <2> HIDE DEF p, q
  <2>6. Recipe(c, op) \in {EmitCx(c, p, q), EmitCz(c, p, q), EmitSwap(c, p, q)}
    BY <1>5, <2>5 DEF Recipe, TwoQ, p, q
  <2> QED BY <2>2, <2>3, <2>4, <2>6
<1>6. CASE op.kind \notin Fences \cup OneQ \cup TwoQ
  <2>1. Recipe(c, op) = <<[op EXCEPT !.n = AngleAttribute(op)]>>
    BY <1>6 DEF Recipe, TwoQ
  <2>2. AngleAttribute(op) = op.n
    BY DEF AngleAttribute
  <2>3. [op EXCEPT !.n = op.n] = op
    BY DEF OpType
  <2>4. op \in PlainOps
    BY <2>2 DEF PlainOps, NativeOneQ, OneQ, Angled
  <2> QED BY <2>1, <2>2, <2>3, <2>4
<1> QED BY <1>3, <1>4, <1>5, <1>6

LEMMA DecomposedIsPlain ==
  ASSUME NEW c \in Chips, RotatesReadably(c), NEW ops \in Routed, HasNoU1q(ops)
  PROVE  DecomposedFor(c, ops) \in Seq(PlainOps)
<1> DEFINE n     == Len(ops)
           steps == [k \in 1 .. n |-> Rewritten(c, ops[k])]
           out   == Through(<< >>, steps)
           bad   == { k \in 0 .. n : out[k] \notin Seq(PlainOps) }
<1>1. /\ n \in Nat /\ Len(steps) = n
      /\ \A k \in 1 .. n : steps[k] = Rewritten(c, ops[k])
  BY RoutedAssumption, LenProperties
<1> HIDE DEF steps
<1>2. out[0] = << >> /\ \A k \in 1 .. n : out[k] = steps[k][out[k - 1]]
  BY <1>1, ThroughSteps
<1>3. DecomposedFor(c, ops) = out[n]
  BY DEF DecomposedFor, steps
<1> HIDE DEF out
<1>4. bad = {}
  <2> SUFFICES ASSUME bad # {} PROVE FALSE
    OBVIOUS
  <2>1. bad \in SUBSET Nat
    BY <1>1
  <2>2. PICK m \in bad : \A j \in bad : m <= j
    BY <2>1, NatSetHasLowest
  <2>3. m \in 0 .. n /\ out[m] \notin Seq(PlainOps)
    OBVIOUS
  <2>4. m # 0
    <3>1. << >> \in Seq(PlainOps)
      OBVIOUS
    <3> QED BY <1>2, <2>3, <3>1
  <2>5. m \in 1 .. n /\ m - 1 \in 0 .. n /\ ~(m <= m - 1)
    BY <1>1, <2>3, <2>4
  <2>6. out[m - 1] \in Seq(PlainOps) /\ out[m - 1] \in Seq(OpType)
    <3>1. out[m - 1] \in Seq(PlainOps)
      BY <2>2, <2>5
    <3> QED BY <3>1, SeqMonotonic DEF PlainOps
  <2>7. Recipe(c, ops[m]) \in Seq(PlainOps)
    <3>1. /\ ops[m] \in OpType /\ ops[m].kind # "u1q"
          /\ ops[m].kind \in OneQ \cup NativeOneQ => Len(ops[m].qs) = 1
          /\ ops[m].kind \in TwoQ \cup NativeTwoQ => Len(ops[m].qs) = 2
          /\ ops[m].kind \in {"sx", "sxdg"} => ops[m].n = 0
      BY <2>5, RoutedAssumption, ElementOfSeq DEF HasNoU1q
    <3> QED BY <3>1, RecipeIsPlain
  <2>8. out[m] = out[m - 1] \o Recipe(c, ops[m])
    BY <1>1, <1>2, <2>5, <2>6 DEF Rewritten
  <2> QED BY <2>3, <2>6, <2>7, <2>8, ConcatIsPlain
<1>5. n \in 0 .. n
  BY <1>1
<1> QED BY <1>3, <1>4, <1>5

-----------------------------------------------------------------------------
(* The invariant: what was decomposed and what the loops have made of it   *)
(* are modules Cleanup reads, and do the same.                             *)
PassInv ==
  /\ chip \in Chips /\ routed \in Routed
  /\ stage # "routed" =>
       /\ decomposed \in Seq(PlainOps) /\ cur \in Seq(PlainOps)
       /\ SameEffect(decomposed, cur)

LEMMA PassStarts ==
  ASSUME Init
  PROVE  PassInv
BY DEF Init, PassInv

LEMMA CleanedStays ==
  ASSUME NEW ops \in Seq(PlainOps), NEW m \in Seq(PlainOps), SameEffect(ops, m)
  PROVE  Cleaned(m) \in Seq(PlainOps) /\ SameEffect(ops, Cleaned(m))
BY CleanupKeepsEffect DEF SameEffect

LEMMA PassGoesOn ==
  ASSUME PassInv, [Next]_vars,
         \A c \in Chips : RotatesReadably(c),
         \A ops \in Routed : HasNoU1q(ops)
  PROVE  PassInv'
<1>1. CASE Decompose
  <2>1. /\ decomposed' = DecomposedFor(chip, routed) /\ cur' = decomposed'
        /\ chip' = chip /\ routed' = routed
    BY <1>1 DEF Decompose, FixedPointLoop!Restart
  <2>2. decomposed' \in Seq(PlainOps)
    BY <2>1, DecomposedIsPlain DEF PassInv
  <2> QED BY <2>1, <2>2 DEF PassInv, SameEffect
<1>2. CASE Clean
  <2>1. /\ stage # "routed" /\ cur' = Cleaned(decomposed)
        /\ UNCHANGED <<chip, routed, decomposed>>
    BY <1>2 DEF Clean, FixedPointLoop!Restart
  <2>2. SameEffect(decomposed, decomposed)
    BY DEF SameEffect
  <2> QED BY <2>1, <2>2, CleanedStays DEF PassInv
<1>3. CASE RoundOf1 \/ RoundOf3
  <2>1. /\ stage # "routed" /\ cur' = Cleaned(cur)
        /\ UNCHANGED <<chip, routed, decomposed, stage>>
    BY <1>3 DEF RoundOf1, RoundOf3, FixedPointLoop!Round, MinimumPointLoop!Round
  <2> QED BY <2>1, CleanedStays DEF PassInv
<1>4. CASE StartLoop3
  <2>1. /\ stage # "routed" /\ cur' = cur
        /\ UNCHANGED <<chip, routed, decomposed>>
    BY <1>4 DEF StartLoop3, MinimumPointLoop!Restart
  <2> QED BY <2>1 DEF PassInv
<1>5. CASE ReturnDecomposed \/ Return
  <2>1. /\ stage # "routed" /\ UNCHANGED <<chip, routed, decomposed, cur>>
    BY <1>5 DEF ReturnDecomposed, Return, loopVars
  <2> QED BY <2>1 DEF PassInv
<1>6. CASE UNCHANGED vars
  BY <1>6 DEF PassInv, vars, loopVars
<1> QED BY <1>1, <1>2, <1>3, <1>4, <1>5, <1>6 DEF Next

(* No level, in any round of its loops, changes what the decomposed module *)
(* does to any qubit: for every set of routed modules of any length, any   *)
(* number of qubits, and every chip, those that rotate by a u1q excepted.  *)
THEOREM LevelsKeepEffect ==
  ASSUME \A c \in Chips : RotatesReadably(c),
         \A ops \in Routed : HasNoU1q(ops)
  PROVE  Spec => []EffectKept
<1>1. Init => PassInv
  BY PassStarts
<1>2. PassInv /\ [Next]_vars => PassInv'
  BY PassGoesOn
<1>3. PassInv => EffectKept
  BY DEF PassInv, EffectKept
<1> QED BY <1>1, <1>2, <1>3, PTL DEF Spec

-----------------------------------------------------------------------------
(* The invariant of the loops: they know the size of their module, and one *)
(* that has stopped before its bound has a module it would not change.     *)
LoopBound(s) == IF s = "minimum" THEN 6 ELSE 8

LoopInv ==
  /\ PassInv
  /\ it \in Nat
  /\ stage # "routed" => prev = Len(cur)
  /\ (stage \in {"fixed", "minimum"} /\ returned /\ it < LoopBound(stage)) =>
       Settled(cur)
  /\ StopsAtFixedPoint

(* A round that ends a loop before its bound has left the size as it was.  *)
LEMMA RoundSettles ==
  ASSUME LoopInv, RoundOf1 \/ RoundOf3
  PROVE  /\ stage' = stage /\ stage \in {"fixed", "minimum"}
         /\ it' \in Nat /\ prev' = Len(cur')
         /\ (returned' /\ it' < LoopBound(stage')) => Settled(cur')
<1> DEFINE m == Len(Cleaned(cur))
<1>1. /\ stage' = stage /\ stage \in {"fixed", "minimum"}
      /\ cur' = Cleaned(cur) /\ prev' = m /\ it' = it + 1
  BY DEF RoundOf1, RoundOf3, FixedPointLoop!Round, MinimumPointLoop!Round
<1>2. cur \in Seq(PlainOps) /\ prev = Len(cur) /\ it \in Nat
  BY <1>1 DEF LoopInv, PassInv
<1>3. m <= prev /\ m \in Nat /\ prev \in Nat
  <2>1. Cleaned(cur) \in Seq(PlainOps)
    BY <1>2, CleanupKeepsEffect
  <2> QED BY <1>2, <2>1, CleanupNeverLengthens, LenProperties
<1>4. m = prev => Settled(Cleaned(cur))
  BY <1>2, UnchangedSizeIsFixedPoint
<1> HIDE DEF m
<1>5. ASSUME returned', it' < LoopBound(stage')
      PROVE  m = prev
  <2>1. CASE RoundOf1
    <3>1. /\ stage = "fixed"
          /\ returned' => (it + 1 >= 8 \/ prev = m)
      BY <2>1 DEF RoundOf1, FixedPointLoop!Round, FixedPointLoop!ShouldStop, m
    <3>2. it + 1 < 8
      BY <1>1, <1>5, <3>1 DEF LoopBound
    <3> QED BY <1>2, <1>5, <3>1, <3>2
  <2>2. CASE RoundOf3
    <3>1. /\ stage = "minimum"
          /\ returned' => (it + 1 >= 6 \/ m >= prev)
      BY <2>2 DEF RoundOf3, MinimumPointLoop!Round, MinimumPointLoop!ShouldStop, m
    <3>2. it + 1 < 6
      BY <1>1, <1>5, <3>1 DEF LoopBound
    <3> QED BY <1>2, <1>3, <1>5, <3>1, <3>2
  <2> QED BY <2>1, <2>2
<1> QED BY <1>1, <1>2, <1>4, <1>5 DEF m

LEMMA LoopGoesOn ==
  ASSUME LoopInv, [Next]_vars,
         \A c \in Chips : RotatesReadably(c),
         \A ops \in Routed : HasNoU1q(ops)
  PROVE  LoopInv'
<1>1. PassInv'
  BY PassGoesOn DEF LoopInv
<1>2. CASE Decompose
  BY <1>1, <1>2 DEF LoopInv, StopsAtFixedPoint, Decompose, FixedPointLoop!Restart
<1>3. CASE Clean
  BY <1>1, <1>3 DEF LoopInv, StopsAtFixedPoint, Clean, FixedPointLoop!Restart
<1>4. CASE RoundOf1 \/ RoundOf3
  BY <1>1, <1>4, RoundSettles DEF LoopInv, StopsAtFixedPoint
<1>5. CASE StartLoop3
  BY <1>1, <1>5 DEF LoopInv, StopsAtFixedPoint, StartLoop3,
                    MinimumPointLoop!Restart
<1>6. CASE ReturnDecomposed
  BY <1>1, <1>6 DEF LoopInv, StopsAtFixedPoint, ReturnDecomposed, loopVars
<1>7. CASE Return
  <2>1. /\ returned /\ stage = IF level = "O3" THEN "minimum" ELSE "fixed"
        /\ stage' = "returned"
        /\ UNCHANGED <<level, cur, prev, it>>
    BY <1>7 DEF Return, loopVars
  <2>2. it < LoopBound(stage) => Settled(cur)
    BY <2>1 DEF LoopInv
  <2>3. StopsAtFixedPoint'
    BY <2>1, <2>2 DEF StopsAtFixedPoint, LoopBound, Settled
  <2> QED BY <1>1, <2>1, <2>3 DEF LoopInv
<1>8. CASE UNCHANGED vars
  BY <1>1, <1>8 DEF LoopInv, StopsAtFixedPoint, vars, loopVars
<1> QED BY <1>2, <1>3, <1>4, <1>5, <1>6, <1>7, <1>8 DEF Next

(* What a level above O0 returns, another Cleanup leaves as it is on every *)
(* qubit, unless its last loop used up its rounds: for every set of routed *)
(* modules of any length, and every chip that rotates by no u1q.           *)
THEOREM LoopsStopAtFixedPoint ==
  ASSUME \A c \in Chips : RotatesReadably(c),
         \A ops \in Routed : HasNoU1q(ops)
  PROVE  Spec => []StopsAtFixedPoint
<1>1. Init => LoopInv
  <2>1. Init => PassInv
    BY PassStarts
  <2>2. Init => it = 0 /\ stage = "routed"
    BY DEF Init, FixedPointLoop!Start
  <2> QED BY <2>1, <2>2 DEF LoopInv, StopsAtFixedPoint
<1>2. LoopInv /\ [Next]_vars => LoopInv'
  BY LoopGoesOn
<1>3. LoopInv => StopsAtFixedPoint
  BY DEF LoopInv
<1> QED BY <1>1, <1>2, <1>3, PTL DEF Spec

-----------------------------------------------------------------------------
(* The verifier.  First what its rules say of a module with ops added.     *)
MeasuredAt(ops, p) == Measured(ops, p, Len(ops) + 1)

(* The rules that judge an op by itself: all but W4.                       *)
Fits(t, op) ==
  /\ ~OutOfRange(t, op) /\ ~Repeated(op)
  /\ ~OutsideVocabulary(t, op) /\ ~NotCoupled(t, op)

(* An op that rule W4 lets through behind a measure, or has no need to.    *)
Clear(t, ops, op) ==
  (~t.midCircuitMeasure /\ Arity(op) > 0 /\ op.kind \notin {"measure", "reset"}) =>
    \A p \in Touched(op) : ~MeasuredAt(ops, p)

LEMMA MeasuredOfPrefix ==
  ASSUME NEW a, NEW b, NEW p, NEW k \in Nat,
         \A i \in 1 .. k - 1 : a[i] = b[i]
  PROVE  Measured(a, p, k) <=> Measured(b, p, k)
<1>1. \A j \in 1 .. k - 1 : \A i \in j + 1 .. k - 1 : i \in 1 .. k - 1
  OBVIOUS
<1> QED BY <1>1 DEF Measured

LEMMA MeasuredStep ==
  ASSUME NEW ops, NEW p, NEW k \in Nat, k # 0
  PROVE  Measured(ops, p, k + 1) <=>
           \/ ops[k].kind = "measure" /\ p \in Touched(ops[k])
           \/ Measured(ops, p, k) /\ ~(ops[k].kind = "reset" /\ p \in Touched(ops[k]))
<1> DEFINE Sets(j)   == ops[j].kind = "measure" /\ p \in Touched(ops[j])
           Clears(j) == ops[j].kind = "reset" /\ p \in Touched(ops[j])
           Since(n)  == \E j \in 1 .. n - 1 :
                          Sets(j) /\ \A i \in j + 1 .. n - 1 : ~Clears(i)
<1>1. Measured(ops, p, k + 1) = Since(k + 1) /\ Measured(ops, p, k) = Since(k)
  BY DEF Measured
<1>2. Sets(k) => ~Clears(k)
  OBVIOUS
<1> HIDE DEF Sets, Clears
<1>3. ASSUME Sets(k)
      PROVE  Since(k + 1)
  <2>1. k \in 1 .. (k + 1) - 1 /\ \A i \in k + 1 .. (k + 1) - 1 : ~Clears(i)
    OBVIOUS
  <2> QED BY <1>3, <2>1
<1>4. ASSUME Since(k), ~Clears(k)
      PROVE  Since(k + 1)
  <2>1. PICK j \in 1 .. k - 1 : Sets(j) /\ \A i \in j + 1 .. k - 1 : ~Clears(i)
    BY <1>4
  <2>2. \A i \in j + 1 .. (k + 1) - 1 : i = k \/ i \in j + 1 .. k - 1
    OBVIOUS
  <2>3. j \in 1 .. (k + 1) - 1
    OBVIOUS
  <2> QED BY <1>4, <2>1, <2>2, <2>3
<1>5. ASSUME Since(k + 1), ~Sets(k)
      PROVE  Since(k) /\ ~Clears(k)
  <2>1. PICK j \in 1 .. (k + 1) - 1 :
          Sets(j) /\ \A i \in j + 1 .. (k + 1) - 1 : ~Clears(i)
    BY <1>5
  <2>2. j # k
    BY <1>5, <2>1
  <2>3. j \in 1 .. k - 1 /\ k \in j + 1 .. (k + 1) - 1
        /\ \A i \in j + 1 .. k - 1 : i \in j + 1 .. (k + 1) - 1
    BY <2>2
  <2> QED BY <2>1, <2>3
<1> QED BY <1>1, <1>3, <1>4, <1>5 DEF Sets, Clears

LEMMA VerifyOfAppend ==
  ASSUME NEW t, NEW ops \in Seq(OpType), NEW op \in OpType,
         Verify(t, ops), Fits(t, op), Clear(t, ops, op)
  PROVE  /\ Verify(t, Append(ops, op))
         /\ \A p : MeasuredAt(Append(ops, op), p) <=>
              \/ op.kind = "measure" /\ p \in Touched(op)
              \/ MeasuredAt(ops, p) /\ ~(op.kind = "reset" /\ p \in Touched(op))
<1> DEFINE n   == Len(ops)
           ext == Append(ops, op)
<1>1. /\ n \in Nat /\ Len(ext) = n + 1 /\ ext[n + 1] = op
      /\ \A i \in 1 .. n : ext[i] = ops[i]
  BY LenProperties, AppendProperties
<1> HIDE DEF ext
<1>2. \A p : Measured(ext, p, n + 1) <=> MeasuredAt(ops, p)
  <2>1. \A i \in 1 .. (n + 1) - 1 : ext[i] = ops[i]
    BY <1>1
  <2>2. n + 1 \in Nat
    BY <1>1
  <2> QED BY <2>1, <2>2, MeasuredOfPrefix DEF MeasuredAt
<1>3. ASSUME NEW p
      PROVE  MeasuredAt(ext, p) <=>
               \/ op.kind = "measure" /\ p \in Touched(op)
               \/ MeasuredAt(ops, p) /\ ~(op.kind = "reset" /\ p \in Touched(op))
  <2>1. n + 1 \in Nat /\ n + 1 # 0
    BY <1>1
  <2>2. Measured(ext, p, (n + 1) + 1) <=>
          \/ op.kind = "measure" /\ p \in Touched(op)
          \/ Measured(ext, p, n + 1) /\ ~(op.kind = "reset" /\ p \in Touched(op))
    BY <1>1, <2>1, MeasuredStep
  <2> QED BY <1>1, <1>2, <2>2 DEF MeasuredAt
<1>4. ASSUME NEW k \in 1 .. n
      PROVE  TouchesMeasured(t, ext, k) <=> TouchesMeasured(t, ops, k)
  <2>1. k \in Nat /\ ext[k] = ops[k] /\ \A i \in 1 .. k - 1 : ext[i] = ops[i]
    BY <1>1
  <2>2. \A p : Measured(ext, p, k) <=> Measured(ops, p, k)
    BY <2>1, MeasuredOfPrefix
  <2> QED BY <2>1, <2>2 DEF TouchesMeasured
<1>5. ~TouchesMeasured(t, ext, n + 1)
  BY <1>1, <1>2 DEF TouchesMeasured, Clear
<1>6. ASSUME NEW k \in 1 .. n + 1
      PROVE  Fits(t, ext[k]) /\ ~TouchesMeasured(t, ext, k)
  <2>1. CASE k = n + 1
    BY <1>1, <1>5, <2>1
  <2>2. CASE k \in 1 .. n
    BY <1>1, <1>4, <2>2 DEF Verify, Fits
  <2> QED BY <1>1, <2>1, <2>2
<1> QED BY <1>1, <1>3, <1>6 DEF Verify, Fits, ext

LEMMA VerifyOfConcat ==
  ASSUME NEW t, NEW ops \in Seq(OpType), NEW more \in Seq(OpType),
         Verify(t, ops),
         \A i \in 1 .. Len(more) :
           /\ Fits(t, more[i]) /\ Clear(t, ops, more[i])
           /\ more[i].kind \notin {"measure", "reset"}
  PROVE  /\ Verify(t, ops \o more)
         /\ \A p : MeasuredAt(ops \o more, p) <=> MeasuredAt(ops, p)
<1> DEFINE n   == Len(ops)
           m   == Len(more)
           ext == ops \o more
<1>1. /\ n \in Nat /\ m \in Nat /\ Len(ext) = n + m
      /\ \A i \in 1 .. n : ext[i] = ops[i]
      /\ \A i \in 1 .. m : ext[n + i] = more[i]
  BY LenProperties, ConcatProperties
<1> HIDE DEF ext
<1>2. \A k \in n + 1 .. n + m : k - n \in 1 .. m /\ ext[k] = more[k - n]
  <2> TAKE k \in n + 1 .. n + m
  <2>1. k - n \in 1 .. m /\ n + (k - n) = k
    BY <1>1
  <2> QED BY <1>1, <2>1
<1>3. \A k \in n + 1 .. n + m : ext[k].kind \notin {"measure", "reset"}
  BY <1>2
<1>4. ASSUME NEW p, NEW k \in n + 1 .. n + m + 1
      PROVE  Measured(ext, p, k) <=> MeasuredAt(ops, p)
  <2>1. ASSUME Measured(ext, p, k)
        PROVE  MeasuredAt(ops, p)
    <3>1. PICK j \in 1 .. k - 1 :
            /\ ext[j].kind = "measure" /\ p \in Touched(ext[j])
            /\ \A i \in j + 1 .. k - 1 :
                 ~(ext[i].kind = "reset" /\ p \in Touched(ext[i]))
      BY <2>1 DEF Measured
    <3>2. j \notin n + 1 .. n + m
      BY <1>3, <3>1
    <3>3. j \in 1 .. n /\ ext[j] = ops[j]
      BY <1>1, <3>2
    <3>4. \A i \in j + 1 .. n : i \in j + 1 .. k - 1 /\ ext[i] = ops[i]
      BY <1>1, <3>3
    <3>5. (n + 1) - 1 = n
      BY <1>1
    <3> QED BY <3>1, <3>3, <3>4, <3>5 DEF MeasuredAt, Measured
  <2>2. ASSUME MeasuredAt(ops, p)
        PROVE  Measured(ext, p, k)
    <3>1. (n + 1) - 1 = n
      BY <1>1
    <3>2. PICK j \in 1 .. n :
            /\ ops[j].kind = "measure" /\ p \in Touched(ops[j])
            /\ \A i \in j + 1 .. n :
                 ~(ops[i].kind = "reset" /\ p \in Touched(ops[i]))
      BY <2>2, <3>1 DEF MeasuredAt, Measured
    <3>3. j \in 1 .. k - 1 /\ ext[j] = ops[j]
      BY <1>1
    <3>4. ASSUME NEW i \in j + 1 .. k - 1
          PROVE  ~(ext[i].kind = "reset" /\ p \in Touched(ext[i]))
      <4>1. CASE i <= n
        <5>1. i \in j + 1 .. n /\ ext[i] = ops[i]
          BY <1>1, <4>1
        <5> QED BY <3>2, <5>1
      <4>2. CASE i > n
        <5>1. i \in n + 1 .. n + m
          BY <1>1, <4>2
        <5> QED BY <1>3, <5>1
      <4> QED BY <1>1, <4>1, <4>2
    <3> QED BY <3>2, <3>3, <3>4 DEF Measured
  <2> QED BY <2>1, <2>2
<1>5. ASSUME NEW k \in 1 .. n
      PROVE  Fits(t, ext[k]) /\ ~TouchesMeasured(t, ext, k)
  <2>1. k \in Nat /\ ext[k] = ops[k] /\ \A i \in 1 .. k - 1 : ext[i] = ops[i]
    BY <1>1
  <2>2. \A p : Measured(ext, p, k) <=> Measured(ops, p, k)
    BY <2>1, MeasuredOfPrefix
  <2>3. ~TouchesMeasured(t, ops, k) /\ Fits(t, ops[k])
    BY DEF Verify, Fits
  <2> QED BY <2>1, <2>2, <2>3 DEF TouchesMeasured
<1>6. ASSUME NEW k \in n + 1 .. n + m
      PROVE  Fits(t, ext[k]) /\ ~TouchesMeasured(t, ext, k)
  <2>1. Fits(t, ext[k]) /\ Clear(t, ops, ext[k])
    BY <1>2
  <2>2. k \in n + 1 .. n + m + 1
    BY <1>1
  <2>3. \A p : Measured(ext, p, k) <=> MeasuredAt(ops, p)
    BY <1>4, <2>2
  <2> QED BY <2>1, <2>3 DEF TouchesMeasured, Clear
<1>7. \A k \in 1 .. Len(ext) : k \in 1 .. n \/ k \in n + 1 .. n + m
  BY <1>1
<1>8. Len(ext) + 1 \in n + 1 .. n + m + 1
  BY <1>1
<1>9. \A p : MeasuredAt(ext, p) <=> MeasuredAt(ops, p)
  BY <1>4, <1>8 DEF MeasuredAt
<1>10. Verify(t, ext)
  BY <1>5, <1>6, <1>7 DEF Verify, Fits
<1> QED BY <1>9, <1>10 DEF ext

-----------------------------------------------------------------------------
(* Ops as the dialect builds them, whatever their angles; and the modules  *)
(* of such ops the verifier lets through.                                  *)
Shaped == { op \in OpType : op.kind \in {"rz", "sx", "sxdg"} => Len(op.qs) = 1 }

Accepted(t) == { ops \in Seq(Shaped) : Verify(t, ops) }

(* What Cleanup may emit on a qubit of its own accord, now.                *)
MayEmit(t, ops, kind, p) ==
  /\ kind \in t.native
  /\ ~(t.qubits > 0 /\ p >= t.qubits)
  /\ t.midCircuitMeasure \/ ~MeasuredAt(ops, p)

(* A state of the pass that has emitted what the verifier lets through and *)
(* holds back what it would let through.                                   *)
Accepting(t, s) ==
  /\ s \in WalkStates /\ s.out \in Accepted(t)
  /\ \A p \in Qubits :
       /\ s.pi2[p] > 0 => MayEmit(t, s.out, "sx", p)
       /\ s.pi2[p] < 0 => MayEmit(t, s.out, "sxdg", p)
       /\ s.rz[p] # 0 => MayEmit(t, s.out, "rz", p)

SameMeasured(s, u) ==
  \A p \in Qubits : MeasuredAt(u.out, p) <=> MeasuredAt(s.out, p)

LEMMA ShapedIsTyped ==
  /\ Shaped \subseteq OpType
  /\ \A w \in Seq(Shaped) : w \in Seq(OpType)
<1>1. Shaped \subseteq OpType
  BY DEF Shaped
<1> QED BY <1>1, SeqMonotonic

LEMMA RotationFits ==
  ASSUME NEW t, ~t.generic, NEW ops, NEW p \in Qubits,
         NEW kind \in {"rz", "sx", "sxdg"}, NEW n \in Int
  PROVE  LET op == [kind |-> kind, qs |-> <<p>>, n |-> n]
         IN  /\ op \in Shaped
             /\ MayEmit(t, ops, kind, p) => Fits(t, op) /\ Clear(t, ops, op)
<1> DEFINE op == [kind |-> kind, qs |-> <<p>>, n |-> n]
<1>1. /\ op.kind = kind /\ op.qs = <<p>> /\ Len(op.qs) = 1 /\ op \in OpType
      /\ Touched(op) = {p} /\ Arity(op) = 1 /\ op.kind # "barrier"
  BY DEF OpType, Gates, Standard, OneQ, NativeOneQ, Angled, Touched, Arity
<1>2. op \in Shaped
  BY <1>1 DEF Shaped
<1> HIDE DEF op
<1>3. ASSUME MayEmit(t, ops, kind, p)
      PROVE  Fits(t, op)
  BY <1>1, <1>3 DEF MayEmit, Fits, OutOfRange, Repeated, OutsideVocabulary, NotCoupled
<1>4. ASSUME MayEmit(t, ops, kind, p)
      PROVE  Clear(t, ops, op)
  BY <1>1, <1>4 DEF MayEmit, Clear
<1> QED BY <1>2, <1>3, <1>4 DEF op

(* What is held back is let through when a flush emits it.                 *)
LEMMA AcceptingFlush ==
  ASSUME NEW t, ~t.generic, NEW s, Accepting(t, s), NEW more \in Seq(Shaped),
         NEW u, u \in WalkStates, u.out = s.out \o more,
         \A i \in 1 .. Len(more) :
           /\ Fits(t, more[i]) /\ Clear(t, s.out, more[i])
           /\ more[i].kind \notin {"measure", "reset"},
         \A p \in Qubits : /\ u.pi2[p] \in {0, s.pi2[p]}
                           /\ u.rz[p] \in {0, s.rz[p]}
  PROVE  Accepting(t, u) /\ SameMeasured(s, u)
<1> DEFINE ops == s.out
<1>1. ops \in Seq(Shaped) /\ ops \in Seq(OpType) /\ more \in Seq(OpType)
      /\ Verify(t, ops)
  BY ShapedIsTyped DEF Accepting, Accepted
<1>2. s.pi2 \in [Qubits -> Int] /\ s.rz \in [Qubits -> Int]
  BY DEF Accepting, WalkStates
<1> HIDE DEF ops
<1>3. /\ Verify(t, ops \o more)
      /\ \A p : MeasuredAt(ops \o more, p) <=> MeasuredAt(ops, p)
  <2>1. \A i \in 1 .. Len(more) :
          /\ Fits(t, more[i]) /\ Clear(t, ops, more[i])
          /\ more[i].kind \notin {"measure", "reset"}
    BY DEF ops
  <2> QED BY <1>1, <2>1, VerifyOfConcat
<1>4. ops \o more \in Seq(Shaped)
  BY <1>1, ConcatProperties
<1>5. u.out \in Accepted(t) /\ SameMeasured(s, u)
  BY <1>3, <1>4 DEF Accepted, SameMeasured, ops
<1>6. ASSUME NEW p \in Qubits
      PROVE  /\ u.pi2[p] > 0 => MayEmit(t, u.out, "sx", p)
             /\ u.pi2[p] < 0 => MayEmit(t, u.out, "sxdg", p)
             /\ u.rz[p] # 0 => MayEmit(t, u.out, "rz", p)
  <2>1. \A kind : MayEmit(t, s.out, kind, p) => MayEmit(t, u.out, kind, p)
    BY <1>5 DEF MayEmit, SameMeasured
  <2>2. /\ s.pi2[p] > 0 => MayEmit(t, s.out, "sx", p)
        /\ s.pi2[p] < 0 => MayEmit(t, s.out, "sxdg", p)
        /\ s.rz[p] # 0 => MayEmit(t, s.out, "rz", p)
    BY DEF Accepting
  <2>3. u.pi2[p] \in {0, s.pi2[p]} /\ u.rz[p] \in {0, s.rz[p]}
    OBVIOUS
  <2> QED BY <1>2, <2>1, <2>2, <2>3
<1> QED BY <1>5, <1>6 DEF Accepting

LEMMA FlushPi2Accepts ==
  ASSUME NEW t, ~t.generic, NEW s, Accepting(t, s), NEW q \in Qubits
  PROVE  LET u == FlushPi2(s, q)
         IN  /\ Accepting(t, u) /\ SameMeasured(s, u)
             /\ u.pi2 = [s.pi2 EXCEPT ![q] = 0] /\ u.rz = s.rz
<1> DEFINE u    == FlushPi2(s, q)
           n    == s.pi2[q]
           more == Pi2Run(n, q)
           m    == IF n < 0 THEN -n ELSE n
           kind == IF n > 0 THEN "sx" ELSE "sxdg"
           op   == [kind |-> kind, qs |-> <<q>>, n |-> 0]
<1>1. /\ s.pi2 \in [Qubits -> Int] /\ s.rz \in [Qubits -> Int]
      /\ s.out \in Seq(OpType) /\ n \in Int /\ m \in Nat
  BY DEF Accepting, WalkStates
<1>2. n # 0 => MayEmit(t, s.out, kind, q)
  BY <1>1 DEF Accepting
<1>3. op \in Shaped /\ (MayEmit(t, s.out, kind, q) => Fits(t, op) /\ Clear(t, s.out, op))
  BY RotationFits
<1>4. op.kind \notin {"measure", "reset"}
  OBVIOUS
<1>5. more = [k \in 1 .. m |-> op]
  BY DEF Pi2Run
<1>6. u.rz = s.rz /\ u.pi2 = [s.pi2 EXCEPT ![q] = 0] /\ u.out = s.out \o more
  BY DEF FlushPi2, State
<1>7. u \in WalkStates
  <2>1. u = State(s.rz, [s.pi2 EXCEPT ![q] = 0], s.out \o more)
    BY DEF FlushPi2
  <2>2. more \in Seq(OpType)
    <3>1. op \in OpType
      BY <1>3, ShapedIsTyped
    <3> HIDE DEF op, m, more
    <3> QED BY <1>1, <1>5, <3>1
  <2>3. s.out \o more \in Seq(OpType)
    BY <1>1, <2>2, ConcatProperties
  <2>4. [s.pi2 EXCEPT ![q] = 0] \in [Qubits -> Int]
    BY <1>1
  <2> QED BY <1>1, <2>1, <2>3, <2>4 DEF State, WalkStates
<1> HIDE DEF u, op, more, kind, m
<1>8. more \in Seq(Shaped) /\ Len(more) = m /\ \A i \in 1 .. m : more[i] = op
  BY <1>1, <1>3, <1>5
<1>9. \A i \in 1 .. m : n # 0
  BY <1>1 DEF m
<1> HIDE DEF n
<1>10. \A i \in 1 .. Len(more) :
         /\ Fits(t, more[i]) /\ Clear(t, s.out, more[i])
         /\ more[i].kind \notin {"measure", "reset"}
  BY <1>2, <1>3, <1>4, <1>8, <1>9
<1>11. \A p \in Qubits : u.pi2[p] \in {0, s.pi2[p]} /\ u.rz[p] \in {0, s.rz[p]}
  BY <1>1, <1>6
<1>12. Accepting(t, u) /\ SameMeasured(s, u)
  BY <1>6, <1>7, <1>8, <1>10, <1>11, AcceptingFlush
<1> QED BY <1>6, <1>12 DEF u

LEMMA FlushRzAccepts ==
  ASSUME NEW t, ~t.generic, NEW s, Accepting(t, s), NEW q \in Qubits
  PROVE  LET u == FlushRz(s, q)
         IN  /\ Accepting(t, u) /\ SameMeasured(s, u)
             /\ u.rz = [s.rz EXCEPT ![q] = 0] /\ u.pi2 = s.pi2
<1> DEFINE u    == FlushRz(s, q)
           a    == s.rz[q]
           b    == Normalized(a)
           op   == Rz(b, q)
           more == IF b = 0 THEN << >> ELSE <<op>>
<1>1. /\ s.pi2 \in [Qubits -> Int] /\ s.rz \in [Qubits -> Int]
      /\ s.out \in Seq(OpType) /\ a \in Int
  BY DEF Accepting, WalkStates
<1>2. b \in Int /\ (b # 0 => a # 0)
  <2> HIDE DEF a
  <2> QED BY <1>1, NormalizedFacts
<1>3. b # 0 => MayEmit(t, s.out, "rz", q)
  BY <1>2 DEF Accepting
<1>4. op \in Shaped /\ (MayEmit(t, s.out, "rz", q) => Fits(t, op) /\ Clear(t, s.out, op))
  BY <1>2, RotationFits DEF Rz
<1>5. op.kind \notin {"measure", "reset"}
  BY DEF Rz
<1>6. s.out \o more = IF b = 0 THEN s.out ELSE Append(s.out, op)
  <2>1. op \in OpType
    BY <1>4, ShapedIsTyped
  <2> HIDE DEF op
  <2>2. s.out \o << >> = s.out /\ s.out \o <<op>> = Append(s.out, op)
    BY <1>1, <2>1, ConcatEmptySeq, AppendIsConcat
  <2> QED BY <2>2
<1>7. u = State([s.rz EXCEPT ![q] = 0], s.pi2, s.out \o more)
  BY <1>6 DEF FlushRz
<1>8. more \in Seq(Shaped) /\ more \in Seq(OpType)
  <2>1. op \in OpType
    BY <1>4, ShapedIsTyped
  <2> HIDE DEF op
  <2> QED BY <1>4, <2>1
<1>9. \A i \in 1 .. Len(more) :
        /\ Fits(t, more[i]) /\ Clear(t, s.out, more[i])
        /\ more[i].kind \notin {"measure", "reset"}
  <2>1. b # 0 => /\ Fits(t, op) /\ Clear(t, s.out, op)
                 /\ op.kind \notin {"measure", "reset"}
    BY <1>3, <1>4, <1>5
  <2> HIDE DEF op, b
  <2>2. \A i \in 1 .. Len(more) : b # 0 /\ more[i] = op
    OBVIOUS
  <2> QED BY <2>1, <2>2
<1> HIDE DEF u, more, op
<1>10. /\ u.rz = [s.rz EXCEPT ![q] = 0] /\ u.pi2 = s.pi2
       /\ u.out = s.out \o more
  BY <1>7 DEF State
<1>11. u \in WalkStates
  <2>1. s.out \o more \in Seq(OpType)
    BY <1>1, <1>8, ConcatProperties
  <2>2. [s.rz EXCEPT ![q] = 0] \in [Qubits -> Int]
    BY <1>1
  <2> QED BY <1>1, <1>7, <2>1, <2>2 DEF State, WalkStates
<1>12. \A p \in Qubits : u.pi2[p] \in {0, s.pi2[p]} /\ u.rz[p] \in {0, s.rz[p]}
  BY <1>1, <1>10
<1>13. Accepting(t, u) /\ SameMeasured(s, u)
  BY <1>8, <1>9, <1>10, <1>11, <1>12, AcceptingFlush
<1> QED BY <1>10, <1>13 DEF u

LEMMA FlushAllAccepts ==
  ASSUME NEW t, ~t.generic, NEW s, Accepting(t, s), NEW q \in Qubits
  PROVE  LET u == FlushAll(s, q)
         IN  /\ Accepting(t, u) /\ SameMeasured(s, u) /\ Nothing(u, q)
             /\ \A p \in Qubits : Nothing(s, p) => Nothing(u, p)
<1> DEFINE v == FlushPi2(s, q)
           u == FlushRz(v, q)
<1>1. /\ Accepting(t, v) /\ SameMeasured(s, v)
      /\ v.pi2 = [s.pi2 EXCEPT ![q] = 0] /\ v.rz = s.rz
  BY FlushPi2Accepts
<1>2. s.pi2 \in [Qubits -> Int] /\ s.rz \in [Qubits -> Int]
  BY DEF Accepting, WalkStates
<1>3. FlushAll(s, q) = u
  BY DEF FlushAll
<1> HIDE DEF v
<1>4. /\ Accepting(t, u) /\ SameMeasured(v, u)
      /\ u.rz = [v.rz EXCEPT ![q] = 0] /\ u.pi2 = v.pi2
  BY <1>1, FlushRzAccepts
<1> HIDE DEF u
<1>5. SameMeasured(s, u)
  BY <1>1, <1>4 DEF SameMeasured
<1>6. \A p \in Qubits : p = q \/ Nothing(s, p) => Nothing(u, p)
  BY <1>1, <1>2, <1>4 DEF Nothing
<1> QED BY <1>3, <1>4, <1>5, <1>6

LEMMA FlushEachAccepts ==
  ASSUME NEW t, ~t.generic, NEW s, Accepting(t, s), NEW qs \in Seq(Qubits)
  PROVE  LET u == FlushEach(s, qs)
         IN  /\ Accepting(t, u) /\ SameMeasured(s, u)
             /\ \A i \in 1 .. Len(qs) : Nothing(u, qs[i])
<1> DEFINE n     == Len(qs)
           steps == [k \in 1 .. n |-> Flushed(qs[k])]
           f     == Through(s, steps)
           Good(k) ==
             /\ Accepting(t, f[k]) /\ SameMeasured(s, f[k])
             /\ \A i \in 1 .. k : Nothing(f[k], qs[i])
           bad   == { k \in 0 .. n : ~Good(k) }
<1>1. n \in Nat /\ Len(steps) = n /\ \A k \in 1 .. n : steps[k] = Flushed(qs[k])
  BY LenProperties
<1>2. FlushEach(s, qs) = f[n]
  BY DEF FlushEach
<1> HIDE DEF steps
<1>3. f[0] = s /\ \A k \in 1 .. n : f[k] = steps[k][f[k - 1]]
  BY <1>1, ThroughSteps
<1> HIDE DEF f
<1>4. bad = {}
  <2> SUFFICES ASSUME bad # {} PROVE FALSE
    OBVIOUS
  <2>1. bad \in SUBSET Nat
    BY <1>1
  <2>2. PICK m \in bad : \A j \in bad : m <= j
    BY <2>1, NatSetHasLowest
  <2>3. m \in 0 .. n /\ ~Good(m)
    OBVIOUS
  <2>4. Good(0)
    BY <1>3 DEF SameMeasured
  <2>5. m # 0
    BY <2>3, <2>4
  <2>6. m \in 1 .. n /\ m - 1 \in 0 .. n /\ ~(m <= m - 1)
    BY <1>1, <2>3, <2>5
  <2>7. Good(m - 1)
    BY <2>2, <2>6
  <2> DEFINE v == f[m - 1]
  <2>8. qs[m] \in Qubits
    BY <2>6, ElementOfSeq
  <2>9. f[m] = FlushAll(v, qs[m])
    <3>1. v \in WalkStates
      BY <2>7 DEF Accepting
    <3>2. f[m] = Flushed(qs[m])[v]
      BY <1>1, <1>3, <2>6
    <3> QED BY <3>1, <3>2 DEF Flushed
  <2>10. /\ Accepting(t, f[m]) /\ SameMeasured(v, f[m]) /\ Nothing(f[m], qs[m])
         /\ \A p \in Qubits : Nothing(v, p) => Nothing(f[m], p)
    BY <2>7, <2>8, <2>9, FlushAllAccepts
  <2>11. ASSUME NEW i \in 1 .. m
         PROVE  Nothing(f[m], qs[i])
    <3>1. CASE i = m
      BY <2>10, <3>1
    <3>2. CASE i # m
      <4>1. i \in 1 .. m - 1 /\ i \in 1 .. n
        BY <1>1, <2>6, <3>2
      <4>2. qs[i] \in Qubits
        BY <4>1, ElementOfSeq
      <4> QED BY <2>7, <2>10, <4>1, <4>2
    <3> QED BY <3>1, <3>2
  <2>12. SameMeasured(s, f[m])
    BY <2>7, <2>10 DEF SameMeasured
  <2>13. Good(m)
    BY <2>10, <2>11, <2>12
  <2> QED BY <2>3, <2>13
<1>5. n \in 0 .. n
  BY <1>1
<1>6. Good(n)
  BY <1>4, <1>5
<1> QED BY <1>2, <1>6

(* What is measured once an op has been executed.                          *)
MeasuredAfter(op, before, p) ==
  \/ op.kind = "measure" /\ p \in Touched(op)
  \/ before /\ ~(op.kind = "reset" /\ p \in Touched(op))

LEMMA HoldingAccepts ==
  ASSUME NEW t, ~t.generic, NEW s, Accepting(t, s),
         NEW op \in Shaped, op.kind \in {"rz", "sx", "sxdg"},
         Fits(t, op), Clear(t, s.out, op)
  PROVE  Accepting(t, Visit(s, op)) /\ SameMeasured(s, Visit(s, op))
<1> DEFINE q == op.qs[1]
           u == Visit(s, op)
<1>1. q \in Qubits /\ Touched(op) = {q} /\ Arity(op) = 1 /\ op.n \in Int
  <2>1. Len(op.qs) = 1 /\ op.qs \in Seq(Qubits) /\ op.n \in Int
    BY DEF Shaped, OpType
  <2> QED BY <2>1 DEF Touched, Arity
<1>2. s.pi2 \in [Qubits -> Int] /\ s.rz \in [Qubits -> Int]
  BY DEF Accepting, WalkStates
<1>3. op.kind \in Gates
  BY DEF Gates, Standard, OneQ, NativeOneQ, Angled
<1>4. MayEmit(t, s.out, op.kind, q)
  <2>1. op.kind \in t.native
    BY <1>3 DEF Fits, OutsideVocabulary
  <2>2. ~(t.qubits > 0 /\ q >= t.qubits)
    BY <1>1 DEF Fits, OutOfRange
  <2>3. t.midCircuitMeasure \/ ~MeasuredAt(s.out, q)
    BY <1>1 DEF Clear
  <2> QED BY <2>1, <2>2, <2>3 DEF MayEmit
<1>5. CASE op.kind = "rz"
  <2> DEFINE v == FlushPi2(s, q)
  <2>1. Accepting(t, v) /\ SameMeasured(s, v)
    BY <1>1, FlushPi2Accepts
  <2>2. u = State([v.rz EXCEPT ![q] = @ + op.n], v.pi2, v.out)
    BY <1>5 DEF Visit, HoldRz
  <2> HIDE DEF v, u, q
  <2>3. u.rz = [v.rz EXCEPT ![q] = @ + op.n] /\ u.pi2 = v.pi2 /\ u.out = v.out
    BY <2>2 DEF State
  <2>4. v.rz \in [Qubits -> Int] /\ v.pi2 \in [Qubits -> Int] /\ v.out \in Seq(OpType)
    BY <2>1 DEF Accepting, WalkStates
  <2>5. u \in WalkStates
    <3>1. [v.rz EXCEPT ![q] = @ + op.n] \in [Qubits -> Int]
      BY <1>1, <2>4
    <3> QED BY <2>2, <2>4, <3>1 DEF State, WalkStates
  <2>6. MayEmit(t, u.out, "rz", q)
    BY <1>1, <1>4, <1>5, <2>1, <2>3 DEF MayEmit, SameMeasured
  <2>7. \A p \in Qubits : u.rz[p] = v.rz[p] \/ p = q
    BY <1>1, <2>3, <2>4
  <2>8. Accepting(t, u)
    BY <2>1, <2>3, <2>5, <2>6, <2>7 DEF Accepting
  <2>9. SameMeasured(s, u)
    BY <2>1, <2>3 DEF SameMeasured
  <2> QED BY <2>8, <2>9 DEF u
<1>6. CASE op.kind \in {"sx", "sxdg"}
  <2> DEFINE v == FlushRz(s, q)
             k == Root(op)
  <2>1. Accepting(t, v) /\ SameMeasured(s, v)
    BY <1>1, FlushRzAccepts
  <2>2. u = State(v.rz, [v.pi2 EXCEPT ![q] = @ + k], v.out)
    BY <1>6 DEF Visit, HoldPi2, Root
  <2>3. k \in Int /\ (k > 0 => op.kind = "sx") /\ (k < 0 => op.kind = "sxdg")
    BY <1>6 DEF Root
  <2> HIDE DEF v, u, q, k
  <2>4. u.pi2 = [v.pi2 EXCEPT ![q] = @ + k] /\ u.rz = v.rz /\ u.out = v.out
    BY <2>2 DEF State
  <2>5. v.rz \in [Qubits -> Int] /\ v.pi2 \in [Qubits -> Int] /\ v.out \in Seq(OpType)
    BY <2>1 DEF Accepting, WalkStates
  <2>6. u \in WalkStates
    <3>1. [v.pi2 EXCEPT ![q] = @ + k] \in [Qubits -> Int]
      BY <1>1, <2>3, <2>5
    <3> QED BY <2>2, <2>5, <3>1 DEF State, WalkStates
  <2>7. MayEmit(t, v.out, op.kind, q)
    BY <1>1, <1>4, <2>1 DEF MayEmit, SameMeasured
  <2>8. /\ v.pi2[q] > 0 => MayEmit(t, v.out, "sx", q)
        /\ v.pi2[q] < 0 => MayEmit(t, v.out, "sxdg", q)
        /\ v.pi2[q] \in Int /\ u.pi2[q] = v.pi2[q] + k
    BY <1>1, <2>1, <2>4, <2>5 DEF Accepting
  <2>9. /\ u.pi2[q] > 0 => v.pi2[q] > 0 \/ k > 0
        /\ u.pi2[q] < 0 => v.pi2[q] < 0 \/ k < 0
    BY <2>3, <2>8
  <2>10. /\ u.pi2[q] > 0 => MayEmit(t, u.out, "sx", q)
         /\ u.pi2[q] < 0 => MayEmit(t, u.out, "sxdg", q)
    BY <2>3, <2>4, <2>7, <2>8, <2>9
  <2>11. \A p \in Qubits : u.pi2[p] = v.pi2[p] \/ p = q
    BY <1>1, <2>4, <2>5
  <2>12. Accepting(t, u)
    BY <2>1, <2>4, <2>6, <2>10, <2>11 DEF Accepting
  <2>13. SameMeasured(s, u)
    BY <2>1, <2>4 DEF SameMeasured
  <2> QED BY <2>12, <2>13 DEF u
<1> QED BY <1>5, <1>6

LEMMA PassingAccepts ==
  ASSUME NEW t, ~t.generic, NEW s, Accepting(t, s),
         NEW op \in Shaped, op.kind \notin {"rz", "sx", "sxdg"},
         Fits(t, op), Clear(t, s.out, op)
  PROVE  /\ Accepting(t, Visit(s, op))
         /\ \A p \in Qubits : MeasuredAt(Visit(s, op).out, p) <=>
                                MeasuredAfter(op, MeasuredAt(s.out, p), p)
<1> DEFINE v == FlushEach(s, op.qs)
           u == Visit(s, op)
           g == Reemitted(op)
<1>1. op \in OpType /\ op.qs \in Seq(Qubits) /\ op.n \in Int
  BY DEF Shaped, OpType
<1>2. /\ Accepting(t, v) /\ SameMeasured(s, v)
      /\ \A p \in Touched(op) : Nothing(v, p)
  BY <1>1, FlushEachAccepts DEF Touched
<1>3. u = State(v.rz, v.pi2, Append(v.out, g))
  BY DEF Visit, Pass
<1>4. g.kind = op.kind /\ g.qs = op.qs /\ g \in OpType
  BY <1>1 DEF Reemitted, AngleAttribute, OpType
<1> HIDE DEF v, u, g
<1>5. g \in Shaped /\ Fits(t, g) /\ Touched(g) = Touched(op) /\ Arity(g) = Arity(op)
  <2>1. Touched(g) = Touched(op) /\ Arity(g) = Arity(op)
    BY <1>4 DEF Touched, Arity
  <2> QED BY <1>4, <2>1 DEF Shaped, Fits, OutOfRange, Repeated,
                            OutsideVocabulary, NotCoupled
<1>6. Touched(op) \subseteq Qubits
  BY <1>1, ElementOfSeq DEF Touched
<1>7. Clear(t, v.out, g)
  BY <1>2, <1>4, <1>5, <1>6 DEF Clear, SameMeasured
<1> DEFINE ops == v.out
<1>8. /\ ops \in Seq(Shaped) /\ ops \in Seq(OpType) /\ Verify(t, ops)
      /\ v.rz \in [Qubits -> Int] /\ v.pi2 \in [Qubits -> Int]
  BY <1>2, ShapedIsTyped DEF Accepting, Accepted, WalkStates
<1>9. u.rz = v.rz /\ u.pi2 = v.pi2 /\ u.out = Append(ops, g)
  BY <1>3 DEF State
<1>10. u \in WalkStates
  <2>1. Append(ops, g) \in Seq(OpType)
    BY <1>4, <1>8, AppendProperties
  <2> QED BY <1>3, <1>8, <2>1 DEF State, WalkStates
<1> HIDE DEF ops
<1>11. /\ Verify(t, Append(ops, g))
       /\ \A p : MeasuredAt(Append(ops, g), p) <=>
            \/ g.kind = "measure" /\ p \in Touched(g)
            \/ MeasuredAt(ops, p) /\ ~(g.kind = "reset" /\ p \in Touched(g))
  BY <1>4, <1>5, <1>7, <1>8, VerifyOfAppend DEF ops
<1>12. Append(ops, g) \in Seq(Shaped)
  BY <1>5, <1>8, AppendProperties
<1>13. ASSUME NEW p \in Qubits
       PROVE  MeasuredAt(u.out, p) <=> MeasuredAfter(op, MeasuredAt(s.out, p), p)
  BY <1>2, <1>4, <1>5, <1>9, <1>11 DEF MeasuredAfter, SameMeasured, ops
<1>14. ASSUME NEW p \in Qubits
       PROVE  /\ u.pi2[p] > 0 => MayEmit(t, u.out, "sx", p)
              /\ u.pi2[p] < 0 => MayEmit(t, u.out, "sxdg", p)
              /\ u.rz[p] # 0 => MayEmit(t, u.out, "rz", p)
  <2>1. CASE p \in Touched(op)
    <3>1. u.pi2[p] = 0 /\ u.rz[p] = 0
      BY <1>2, <1>9, <2>1 DEF Nothing
    <3> QED BY <3>1
  <2>2. CASE p \notin Touched(op)
    <3>1. MeasuredAt(u.out, p) <=> MeasuredAt(v.out, p)
      BY <1>2, <1>13, <2>2 DEF MeasuredAfter, SameMeasured
    <3>2. \A kind : MayEmit(t, v.out, kind, p) => MayEmit(t, u.out, kind, p)
      BY <3>1 DEF MayEmit
    <3>3. /\ v.pi2[p] > 0 => MayEmit(t, v.out, "sx", p)
          /\ v.pi2[p] < 0 => MayEmit(t, v.out, "sxdg", p)
          /\ v.rz[p] # 0 => MayEmit(t, v.out, "rz", p)
      BY <1>2 DEF Accepting
    <3> QED BY <1>9, <3>2, <3>3
  <2> QED BY <2>1, <2>2
<1>15. Accepting(t, u)
  BY <1>9, <1>10, <1>11, <1>12, <1>14 DEF Accepting, Accepted
<1> QED BY <1>13, <1>15 DEF u

LEMMA VisitAccepts ==
  ASSUME NEW t, ~t.generic, NEW s, Accepting(t, s),
         NEW op \in Shaped, Fits(t, op), Clear(t, s.out, op)
  PROVE  /\ Accepting(t, Visit(s, op))
         /\ \A p \in Qubits : MeasuredAt(Visit(s, op).out, p) <=>
                                MeasuredAfter(op, MeasuredAt(s.out, p), p)
<1>1. CASE op.kind \in {"rz", "sx", "sxdg"}
  <2>1. Accepting(t, Visit(s, op)) /\ SameMeasured(s, Visit(s, op))
    BY <1>1, HoldingAccepts
  <2> QED BY <1>1, <2>1 DEF SameMeasured, MeasuredAfter
<1>2. CASE op.kind \notin {"rz", "sx", "sxdg"}
  BY <1>2, PassingAccepts
<1> QED BY <1>1, <1>2

(* What Cleanup makes of a module the verifier lets through, it lets       *)
(* through, too: gates of the chip on coupled pairs, and none that has     *)
(* moved behind a measure.                                                 *)
LEMMA CleanedIsAccepted ==
  ASSUME NEW t, ~t.generic, NEW ops \in Accepted(t)
  PROVE  Cleaned(ops) \in Accepted(t)
<1> DEFINE n     == Len(ops)
           steps == [k \in 1 .. n |-> Visited(ops[k])]
           f     == Through(Start, steps)
           Good(k) ==
             /\ Accepting(t, f[k])
             /\ \A p \in Qubits : MeasuredAt(f[k].out, p) <=> Measured(ops, p, k + 1)
           bad   == { k \in 0 .. n : ~Good(k) }
<1>1. /\ n \in Nat /\ Len(steps) = n /\ ops \in Seq(Shaped) /\ Verify(t, ops)
      /\ \A k \in 1 .. n : steps[k] = Visited(ops[k])
  BY LenProperties DEF Accepted
<1>2. Cleaned(ops) = FlushEvery(f[n]).out
  BY DEF Cleaned
<1> HIDE DEF steps
<1>3. f[0] = Start /\ \A k \in 1 .. n : f[k] = steps[k][f[k - 1]]
  BY <1>1, ThroughSteps
<1> HIDE DEF f
<1>4. Good(0)
  <2> DEFINE none == << >>
  <2>1. /\ Start \in WalkStates /\ Start.out = none
        /\ \A p \in Qubits : Start.pi2[p] = 0 /\ Start.rz[p] = 0
    BY StartIsSound DEF Start, State, Sound
  <2>2. none \in Seq(Shaped) /\ Len(none) = 0
    BY EmptySeq
  <2> HIDE DEF none
  <2>3. Verify(t, none)
    BY <2>2 DEF Verify
  <2>4. \A p : ~MeasuredAt(none, p) /\ ~Measured(ops, p, 0 + 1)
    BY <2>2 DEF MeasuredAt, Measured
  <2>5. Accepting(t, Start)
    BY <2>1, <2>2, <2>3 DEF Accepting, Accepted
  <2> QED BY <1>3, <2>1, <2>4, <2>5
<1>5. bad = {}
  <2> SUFFICES ASSUME bad # {} PROVE FALSE
    OBVIOUS
  <2>1. bad \in SUBSET Nat
    BY <1>1
  <2>2. PICK m \in bad : \A j \in bad : m <= j
    BY <2>1, NatSetHasLowest
  <2>3. m \in 0 .. n /\ ~Good(m)
    OBVIOUS
  <2>4. m # 0
    BY <1>4, <2>3
  <2>5. m \in 1 .. n /\ m - 1 \in 0 .. n /\ ~(m <= m - 1) /\ (m - 1) + 1 = m
        /\ m \in Nat
    BY <1>1, <2>3, <2>4
  <2>6. Good(m - 1)
    BY <2>2, <2>5
  <2> DEFINE s  == f[m - 1]
             op == ops[m]
  <2>7. /\ Accepting(t, s)
        /\ \A p \in Qubits : MeasuredAt(s.out, p) <=> Measured(ops, p, m)
    BY <2>5, <2>6
  <2>8. op \in Shaped /\ Touched(op) \subseteq Qubits
    <3>1. op \in Shaped
      BY <1>1, <2>5, ElementOfSeq
    <3>2. op.qs \in Seq(Qubits)
      BY <3>1 DEF Shaped, OpType
    <3> HIDE DEF op
    <3> QED BY <3>1, <3>2, ElementOfSeq DEF Touched
  <2>9. f[m] = Visit(s, op)
    <3>1. s \in WalkStates
      BY <2>7 DEF Accepting
    <3>2. f[m] = Visited(op)[s]
      BY <1>1, <1>3, <2>5
    <3> QED BY <3>1, <3>2 DEF Visited
  <2>10. Fits(t, op) /\ ~TouchesMeasured(t, ops, m)
    BY <1>1, <2>5 DEF Verify, Fits
  <2>11. Clear(t, s.out, op)
    BY <2>7, <2>8, <2>10 DEF Clear, TouchesMeasured
  <2>12. \A p : Measured(ops, p, m + 1) <=> MeasuredAfter(op, Measured(ops, p, m), p)
    BY <2>4, <2>5, MeasuredStep DEF MeasuredAfter
  <2> HIDE DEF s, op
  <2>13. /\ Accepting(t, f[m])
         /\ \A p \in Qubits : MeasuredAt(f[m].out, p) <=>
                                MeasuredAfter(op, MeasuredAt(s.out, p), p)
    BY <2>7, <2>8, <2>9, <2>10, <2>11, VisitAccepts
  <2>14. Good(m)
    BY <2>7, <2>12, <2>13 DEF MeasuredAfter
  <2> QED BY <2>3, <2>14
<1>6. n \in 0 .. n
  BY <1>1
<1> DEFINE s  == f[n]
           qs == [k \in 1 .. Cardinality(Qubits) |-> k - 1]
<1>7. Accepting(t, s)
  BY <1>5, <1>6
<1>8. qs \in Seq(Qubits)
  BY QubitsAssumption
<1> HIDE DEF s, qs
<1>9. Accepting(t, FlushEach(s, qs))
  BY <1>7, <1>8, FlushEachAccepts
<1> QED BY <1>2, <1>9 DEF Accepting, FlushEvery, s, qs

-----------------------------------------------------------------------------
(* Decomposition.  A chip whose gates are all decomposition emits for it.  *)
(* The family of Rigetti, OQC, Anyon, TII and QCI is none: the recipe of   *)
(* their entangler takes an sx.                                            *)
RootOf(c) == IF c.pi2 = "gpi2" THEN "gpi2" ELSE "sx"

Equipped(c) ==
  /\ ~c.target.generic
  /\ c.rotation \in c.target.native
  /\ c.pi2 # NoGate => RootOf(c) \in c.target.native
  /\ c.entangler \in c.target.native
  /\ c.entangler \in {"ecr", "cz"} => {"rz", "sx"} \subseteq c.target.native
  /\ c.entangler = "ms" => "gpi2" \in c.target.native
  /\ c.entangler = "rzz" => "u1q" \in c.target.native

(* The gates a recipe for op may consist of.                               *)
Lawful(t, op) ==
  { g \in Shaped : Fits(t, g) /\ g.kind \in Gates /\ Touched(g) \subseteq Touched(op) }

InRange(t, op) == \A p \in Touched(op) : ~(t.qubits > 0 /\ p >= t.qubits)

LEMMA SourceFacts ==
  ASSUME NEW t \in Targets
  PROVE  /\ Source(t).generic = t.generic /\ Source(t).qubits = t.qubits
         /\ Source(t).native = t.native \cup Standard
         /\ Source(t).allToAll = t.allToAll /\ Source(t).coupling = t.coupling
         /\ Source(t).midCircuitMeasure = t.midCircuitMeasure
BY DEF Source, Targets

LEMMA OneIsLawful ==
  ASSUME NEW t, ~t.generic, NEW op, InRange(t, op),
         NEW p \in Qubits, p \in Touched(op), NEW n \in Int,
         NEW kind \in OneQ \cup NativeOneQ, kind \in t.native
  PROVE  One(kind, n, p) \in Seq(Lawful(t, op))
<1> DEFINE g == [kind |-> kind, qs |-> <<p>>, n |-> n]
<1>1. /\ g.kind = kind /\ g.qs = <<p>> /\ Len(g.qs) = 1 /\ g \in OpType
      /\ g.kind \in Gates /\ g.kind # "barrier"
      /\ Touched(g) = {p} /\ Arity(g) = 1
  BY DEF OpType, Gates, Standard, OneQ, NativeOneQ, Angled, Touched, Arity
<1> HIDE DEF g
<1>2. Fits(t, g)
  BY <1>1 DEF InRange, Fits, OutOfRange, Repeated, OutsideVocabulary, NotCoupled
<1>3. g \in Lawful(t, op)
  BY <1>1, <1>2 DEF Lawful, Shaped
<1> QED BY <1>3 DEF One, g

LEMMA TwoIsLawful ==
  ASSUME NEW t, ~t.generic, NEW op, InRange(t, op),
         NEW p \in Qubits, p \in Touched(op),
         NEW q \in Qubits, q \in Touched(op), Coupled(t, p, q), NEW n \in Int,
         NEW kind \in TwoQ \cup NativeTwoQ, kind \in t.native
  PROVE  Two(kind, n, p, q) \in Seq(Lawful(t, op))
<1> DEFINE g == [kind |-> kind, qs |-> <<p, q>>, n |-> n]
<1>1. /\ g.kind = kind /\ g.qs = <<p, q>> /\ Len(g.qs) = 2 /\ g \in OpType
      /\ g.kind \in Gates /\ g.kind \notin {"barrier", "rz", "sx", "sxdg"}
      /\ Touched(g) = {p, q} /\ Arity(g) = 2
  BY DEF OpType, Gates, Standard, TwoQ, NativeTwoQ, Touched, Arity
<1>2. IsInjective(g.qs)
  <2>1. p # q
    BY DEF Coupled
  <2> QED BY <1>1, <2>1 DEF IsInjective
<1>3. g.qs[1] = p /\ g.qs[2] = q
  BY <1>1
<1> HIDE DEF g
<1>4. Fits(t, g)
  BY <1>1, <1>2, <1>3 DEF InRange, Fits, OutOfRange, Repeated,
                          OutsideVocabulary, NotCoupled
<1>5. g \in Lawful(t, op)
  BY <1>1, <1>4 DEF Lawful, Shaped
<1> QED BY <1>5 DEF Two, g

LEMMA ConcatIsLawful ==
  ASSUME NEW t, NEW op, NEW a \in Seq(Lawful(t, op)), NEW b \in Seq(Lawful(t, op))
  PROVE  a \o b \in Seq(Lawful(t, op))
BY ConcatProperties

LEMMA EmitZyzIsLawful ==
  ASSUME NEW c \in Chips, Equipped(c), NEW op, InRange(c.target, op),
         NEW z \in Int \X Int \X Int, NEW p \in Qubits, p \in Touched(op)
  PROVE  EmitZyz(c, z, p) \in Seq(Lawful(c.target, op))
<1> DEFINE S    == Seq(Lawful(c.target, op))
           root == One(RootOf(c), 0, p)
<1>1. c.rotation \in OneQ \cup NativeOneQ /\ RootOf(c) \in OneQ \cup NativeOneQ
  BY ChipsAssumption DEF OneQ, NativeOneQ, Angled, RootOf
<1>2. \A a \in Int : One(c.rotation, a, p) \in S
  BY <1>1, OneIsLawful DEF Equipped
<1>3. c.pi2 # NoGate => root \in S
  BY <1>1, OneIsLawful DEF Equipped
<1>4. /\ z[1] \in Int /\ z[2] \in Int /\ z[3] \in Int
      /\ z[2] + Half \in Int /\ z[3] + Half \in Int
  BY AnglesAreIntegers
<1>5. << >> \in S
  BY EmptySeq
<1>6. \A a \in S, b \in S : a \o b \in S
  BY ConcatIsLawful
<1>7. EmitZyz(c, z, p) =
        IF c.pi2 = NoGate
        THEN One(c.rotation, z[1], p) \o One(c.rotation, z[2], p)
               \o One(c.rotation, z[3], p)
        ELSE (IF z[1] = 0 THEN << >> ELSE One(c.rotation, z[1], p))
               \o root \o One(c.rotation, z[2] + Half, p) \o root
               \o One(c.rotation, z[3] + Half, p)
  BY DEF EmitZyz, RootOf
<1> HIDE DEF S, root
<1>8. CASE c.pi2 = NoGate
  BY <1>2, <1>4, <1>6, <1>7, <1>8 DEF S
<1>9. CASE c.pi2 # NoGate
  <2> DEFINE first == IF z[1] = 0 THEN << >> ELSE One(c.rotation, z[1], p)
  <2>1. first \in S
    BY <1>2, <1>4, <1>5
  <2>2. EmitZyz(c, z, p) =
          first \o root \o One(c.rotation, z[2] + Half, p) \o root
            \o One(c.rotation, z[3] + Half, p)
    BY <1>7, <1>9
  <2> HIDE DEF first
  <2> QED BY <1>2, <1>3, <1>4, <1>6, <1>9, <2>1, <2>2 DEF S
<1> QED BY <1>8, <1>9

LEMMA EmitCxIsLawful ==
  ASSUME NEW c \in Chips, Equipped(c), NEW op, InRange(c.target, op),
         NEW p \in Qubits, p \in Touched(op), NEW q \in Qubits, q \in Touched(op),
         Coupled(c.target, p, q)
  PROVE  EmitCx(c, p, q) \in Seq(Lawful(c.target, op))
<1> DEFINE S == Seq(Lawful(c.target, op))
<1>1. \A kind \in OneQ \cup NativeOneQ, n \in Int, r \in {p, q} :
        kind \in c.target.native => One(kind, n, r) \in S
  BY OneIsLawful DEF Equipped
<1>2. c.entangler \in TwoQ \cup NativeTwoQ
  BY ChipsAssumption DEF TwoQ
<1>3. \A n \in Int : Two(c.entangler, n, p, q) \in S
  BY <1>2, TwoIsLawful DEF Equipped
<1>4. \A a \in S, b \in S : a \o b \in S
  BY ConcatIsLawful
<1>5. {"rz", "sx", "gpi2", "u1q"} \subseteq OneQ \cup NativeOneQ
  BY DEF OneQ, NativeOneQ, Angled
<1> HIDE DEF S
<1>6. CASE c.entangler = "ecr"
  <2>1. EmitCx(c, p, q) =
          One("rz", Quarter, q) \o One("sx", 0, q) \o Two("ecr", 0, p, q)
            \o One("sx", 0, q) \o One("rz", Quarter, p) \o One("rz", -Quarter, q)
    BY <1>6 DEF EmitCx
  <2>2. /\ One("rz", Quarter, q) \in S /\ One("sx", 0, q) \in S
        /\ Two("ecr", 0, p, q) \in S /\ One("rz", Quarter, p) \in S
        /\ One("rz", -Quarter, q) \in S
    BY <1>1, <1>3, <1>5, <1>6, AnglesAreIntegers DEF Equipped
  <2> QED BY <1>4, <2>1, <2>2 DEF S
<1>7. CASE c.entangler = "ms"
  <2>1. EmitCx(c, p, q) =
          One("gpi2", Quarter, p) \o Two("ms", 0, p, q)
            \o One("gpi2", -Quarter, p) \o One("gpi2", -Quarter, q)
    BY <1>7 DEF EmitCx
  <2>2. /\ One("gpi2", Quarter, p) \in S /\ Two("ms", 0, p, q) \in S
        /\ One("gpi2", -Quarter, p) \in S /\ One("gpi2", -Quarter, q) \in S
    BY <1>1, <1>3, <1>5, <1>7, AnglesAreIntegers DEF Equipped
  <2> QED BY <1>4, <2>1, <2>2 DEF S
<1>8. CASE c.entangler = "rzz"
  <2>1. EmitCx(c, p, q) =
          One("u1q", Quarter, p) \o One("u1q", Quarter, q)
            \o Two("rzz", Quarter, p, q)
            \o One("u1q", -Quarter, p) \o One("u1q", -Quarter, q)
    BY <1>8 DEF EmitCx
  <2>2. /\ One("u1q", Quarter, p) \in S /\ One("u1q", Quarter, q) \in S
        /\ Two("rzz", Quarter, p, q) \in S
        /\ One("u1q", -Quarter, p) \in S /\ One("u1q", -Quarter, q) \in S
    BY <1>1, <1>3, <1>5, <1>8, AnglesAreIntegers DEF Equipped
  <2> QED BY <1>4, <2>1, <2>2 DEF S
<1>9. CASE c.entangler = "cz"
  <2>1. EmitCx(c, p, q) = HByRoot(q) \o Two("cz", 0, p, q) \o HByRoot(q)
    BY <1>9 DEF EmitCx
  <2>2. /\ One("rz", Quarter, q) \in S /\ One("sx", 0, q) \in S
        /\ Two("cz", 0, p, q) \in S
    BY <1>1, <1>3, <1>5, <1>9, AnglesAreIntegers DEF Equipped
  <2>3. HByRoot(q) \in S
    BY <1>4, <2>2 DEF HByRoot
  <2> QED BY <1>4, <2>1, <2>2, <2>3 DEF S
<1>10. CASE c.entangler = "cx"
  BY <1>3, <1>10 DEF EmitCx, S
<1>11. c.entangler \in {"ecr", "ms", "rzz", "cz", "cx"}
  BY ChipsAssumption DEF NativeTwoQ
<1> QED BY <1>6, <1>7, <1>8, <1>9, <1>10, <1>11

LEMMA RecipeIsLawful ==
  ASSUME NEW c \in Chips, Equipped(c),
         NEW op \in OpType, op.kind \notin Fences, Fits(Source(c.target), op),
         op.kind \in OneQ \cup NativeOneQ => Len(op.qs) = 1,
         op.kind \in TwoQ \cup NativeTwoQ => Len(op.qs) = 2
  PROVE  /\ Recipe(c, op) \in Seq(Lawful(c.target, op))
         /\ Arity(op) > 0
<1> DEFINE t == c.target
           S == Seq(Lawful(t, op))
           p == op.qs[1]
           q == op.qs[2]
<1>1. t \in Targets /\ ~t.generic
  BY ChipsAssumption DEF Equipped
<1>2. op.qs \in Seq(Qubits) /\ op.n \in Int /\ op.kind \in Gates /\ op.kind # "barrier"
  BY DEF OpType, Fences
<1>3. op.kind \in OneQ \cup NativeOneQ \/ op.kind \in TwoQ \cup NativeTwoQ
  BY <1>2 DEF Gates, Standard
<1>4. Arity(op) = Len(op.qs) /\ Arity(op) \in {1, 2}
  BY <1>2, <1>3 DEF Arity
<1>5. /\ ~OutOfRange(Source(t), op) /\ ~Repeated(op)
      /\ ~OutsideVocabulary(Source(t), op) /\ ~NotCoupled(Source(t), op)
      /\ Source(t).generic = t.generic /\ Source(t).qubits = t.qubits
      /\ Source(t).native = t.native \cup Standard
      /\ Source(t).allToAll = t.allToAll /\ Source(t).coupling = t.coupling
  BY <1>1, SourceFacts DEF Fits
<1> HIDE DEF t
<1>6. InRange(t, op)
  <2> DEFINE s == Source(t)
  <2>1. ~OutOfRange(s, op)
    BY <1>5
  <2>2. s.qubits = t.qubits
    BY <1>5
  <2>3. ~s.generic
    BY <1>1, <1>5, Zenon
  <2>4. Arity(op) > 0
    BY <1>4
  <2> HIDE DEF s
  <2> QED BY <2>1, <2>2, <2>3, <2>4 DEF OutOfRange, InRange
<1>7. p \in Qubits /\ p \in Touched(op)
  <2>1. 1 \in 1 .. Len(op.qs)
    BY <1>4
  <2> QED BY <1>2, <2>1, ElementOfSeq DEF Touched
<1>8. \A a \in S, b \in S : a \o b \in S
  BY ConcatIsLawful
<1>9. ASSUME op.kind \in OneQ
      PROVE  Recipe(c, op) \in S
  <2>1. EmitZyz(c, ZyzFor(op), p) \in S
    BY <1>6, <1>7, <1>9, ZyzIsTyped, EmitZyzIsLawful DEF t
  <2>2. Recipe(c, op) = EmitZyz(c, ZyzFor(op), p)
    BY <1>9 DEF Recipe, Fences, OneQ, Angled
  <2> QED BY <2>1, <2>2
<1>10. ASSUME op.kind \in TwoQ
       PROVE  Recipe(c, op) \in S
  <2>1. 2 \in 1 .. Len(op.qs) /\ Arity(op) = 2
    BY <1>4, <1>10
  <2>2. q \in Qubits /\ q \in Touched(op)
    BY <1>2, <2>1, ElementOfSeq DEF Touched
  <2>3. Coupled(t, p, q) /\ Coupled(t, q, p)
    <3>1. Coupled(Source(t), p, q)
      BY <1>1, <1>2, <1>5, <2>1 DEF NotCoupled
    <3>2. {p, q} = {q, p}
      OBVIOUS
    <3> QED BY <1>5, <3>1, <3>2 DEF Coupled
  <2> HIDE DEF p, q
  <2>4. EmitCx(c, p, q) \in S /\ EmitCx(c, q, p) \in S
    BY <1>6, <1>7, <2>2, <2>3, EmitCxIsLawful DEF t
  <2>5. EmitZyz(c, NamedAngles.h, q) \in S
    <3>1. NamedAngles.h \in Int \X Int \X Int
      BY AnglesAreIntegers DEF NamedAngles
    <3> QED BY <1>6, <2>2, <3>1, EmitZyzIsLawful DEF t
  <2> HIDE DEF S
  <2>6. EmitSwap(c, p, q) \in S
    BY <1>8, <2>4 DEF EmitSwap
  <2>7. EmitCz(c, p, q) \in S
    BY <1>8, <2>4, <2>5 DEF EmitCz
  <2>8. op.kind \notin Fences \cup OneQ
    BY <1>10 DEF Fences, OneQ, Angled, TwoQ
  <2>9. Recipe(c, op) \in {EmitCx(c, p, q), EmitCz(c, p, q), EmitSwap(c, p, q)}
    BY <1>10, <2>8 DEF Recipe, TwoQ, p, q
  <2> QED BY <2>4, <2>6, <2>7, <2>9
<1>11. ASSUME op.kind \notin OneQ \cup TwoQ
       PROVE  Recipe(c, op) \in S
  <2> DEFINE g == [op EXCEPT !.n = AngleAttribute(op)]
  <2>1. Recipe(c, op) = <<g>>
    BY <1>11 DEF Recipe, TwoQ
  <2>2. g.kind = op.kind /\ g.qs = op.qs /\ g \in OpType
    BY <1>2 DEF AngleAttribute, OpType
  <2> HIDE DEF g
  <2>3. Touched(g) = Touched(op) /\ Arity(g) = Arity(op)
    BY <2>2 DEF Touched, Arity
  <2>4. g \in Shaped
    <3>1. op.kind \in {"rz", "sx", "sxdg"} => op.kind \in OneQ \cup NativeOneQ
      BY DEF OneQ, NativeOneQ, Angled
    <3> QED BY <2>2, <3>1 DEF Shaped
  <2>5. op.kind \in t.native
    BY <1>1, <1>2, <1>5, <1>11 DEF OutsideVocabulary, Standard
  <2>6. ~OutOfRange(t, g) /\ ~Repeated(g)
    BY <1>5, <2>2, <2>3 DEF OutOfRange, Repeated
  <2>7. ~OutsideVocabulary(t, g) /\ ~NotCoupled(t, g)
    BY <1>1, <1>5, <2>2, <2>3, <2>5 DEF OutsideVocabulary, NotCoupled, Coupled
  <2>8. g \in Lawful(t, op)
    BY <1>2, <2>2, <2>3, <2>4, <2>6, <2>7 DEF Lawful, Fits
  <2> QED BY <2>1, <2>8
<1> HIDE DEF S
<1>12. Recipe(c, op) \in S
  <2>1. CASE op.kind \in OneQ
    BY <1>9, <2>1
  <2>2. CASE op.kind \in TwoQ
    BY <1>10, <2>2
  <2> QED BY <1>11, <2>1, <2>2
<1>13. Arity(op) > 0
  BY <1>4
<1> QED BY <1>12, <1>13 DEF S, t

(* A routed module of standard gates on coupled pairs is decomposed to one *)
(* the verifier lets through for the chip.                                 *)
LEMMA DecomposedIsAccepted ==
  ASSUME NEW c \in Chips, Equipped(c), NEW ops \in Routed,
         Verify(Source(c.target), ops)
  PROVE  DecomposedFor(c, ops) \in Accepted(c.target)
<1> DEFINE n     == Len(ops)
           t     == c.target
           steps == [k \in 1 .. n |-> Rewritten(c, ops[k])]
           out   == Through(<< >>, steps)
           Good(k) ==
             /\ out[k] \in Accepted(t)
             /\ \A p \in Qubits : MeasuredAt(out[k], p) <=> Measured(ops, p, k + 1)
           bad   == { k \in 0 .. n : ~Good(k) }
<1>1. /\ n \in Nat /\ Len(steps) = n
      /\ \A k \in 1 .. n : steps[k] = Rewritten(c, ops[k])
  BY RoutedAssumption, LenProperties
<1>2. t \in Targets /\ ~t.generic
      /\ Source(t).midCircuitMeasure = t.midCircuitMeasure
      /\ Source(t).generic = t.generic /\ Source(t).qubits = t.qubits
  BY ChipsAssumption, SourceFacts DEF Equipped
<1>3. DecomposedFor(c, ops) = out[n]
  BY DEF DecomposedFor
<1> HIDE DEF steps
<1>4. out[0] = << >> /\ \A k \in 1 .. n : out[k] = steps[k][out[k - 1]]
  BY <1>1, ThroughSteps
<1> HIDE DEF out, t
<1>5. Good(0)
  <2> DEFINE none == << >>
  <2>1. none \in Seq(Shaped) /\ Len(none) = 0
    BY EmptySeq
  <2>2. out[0] = none
    BY <1>4
  <2> HIDE DEF none
  <2>3. Verify(t, none)
    BY <2>1 DEF Verify
  <2>4. \A p : ~MeasuredAt(none, p) /\ ~Measured(ops, p, 0 + 1)
    BY <2>1 DEF MeasuredAt, Measured
  <2> QED BY <2>1, <2>2, <2>3, <2>4 DEF Accepted
<1>6. bad = {}
  <2> SUFFICES ASSUME bad # {} PROVE FALSE
    OBVIOUS
  <2>1. bad \in SUBSET Nat
    BY <1>1
  <2>2. PICK m \in bad : \A j \in bad : m <= j
    BY <2>1, NatSetHasLowest
  <2>3. m \in 0 .. n /\ ~Good(m)
    OBVIOUS
  <2>4. m # 0
    BY <1>5, <2>3
  <2>5. m \in 1 .. n /\ m - 1 \in 0 .. n /\ ~(m <= m - 1) /\ (m - 1) + 1 = m
        /\ m \in Nat
    BY <1>1, <2>3, <2>4
  <2>6. Good(m - 1)
    BY <2>2, <2>5
  <2> DEFINE w  == out[m - 1]
             op == ops[m]
             r  == Recipe(c, op)
  <2>7. /\ w \in Seq(Shaped) /\ w \in Seq(OpType) /\ Verify(t, w)
        /\ \A p \in Qubits : MeasuredAt(w, p) <=> Measured(ops, p, m)
    BY <2>5, <2>6, ShapedIsTyped DEF Accepted
  <2>8. /\ op \in OpType
        /\ op.kind \in OneQ \cup NativeOneQ => Len(op.qs) = 1
        /\ op.kind \in TwoQ \cup NativeTwoQ => Len(op.qs) = 2
    BY <2>5, RoutedAssumption, ElementOfSeq
  <2>9. Fits(Source(t), op) /\ ~TouchesMeasured(Source(t), ops, m)
    BY <2>5 DEF Verify, Fits, t
  <2>10. out[m] = w \o r
    <3>1. out[m] = Rewritten(c, op)[w]
      BY <1>1, <1>4, <2>5
    <3> HIDE DEF w, op
    <3> QED BY <2>7, <3>1 DEF Rewritten, r
  <2>11. \A p : Measured(ops, p, m + 1) <=> MeasuredAfter(op, Measured(ops, p, m), p)
    BY <2>4, <2>5, MeasuredStep DEF MeasuredAfter
  <2> HIDE DEF w
  <2>12. Touched(op) \subseteq Qubits
    <3>1. op.qs \in Seq(Qubits)
      BY <2>8 DEF OpType
    <3> HIDE DEF op
    <3> QED BY <3>1, ElementOfSeq DEF Touched
  <2>13. Clear(t, w, op)
    BY <1>2, <2>7, <2>9, <2>12 DEF Clear, TouchesMeasured
  <2> HIDE DEF op, r
  <2>14. CASE op.kind \in Fences
    <3>1. r = <<op>>
      <4>1. op.kind \notin OneQ \cup {"cx", "cz", "swap"}
        BY <2>14 DEF Fences, OneQ, Angled
      <4> QED BY <2>14, <4>1 DEF Recipe, r
    <3>2. w \o r = Append(w, op)
      BY <2>7, <2>8, <3>1, AppendIsConcat
    <3>3. op \in Shaped /\ op.kind \notin Gates
      BY <2>8, <2>14 DEF Shaped, Fences, Gates, Standard, OneQ, TwoQ, Angled,
                         NativeOneQ, NativeTwoQ
    <3>4. Fits(t, op)
      BY <1>2, <2>9, <3>3 DEF Fits, OutOfRange, OutsideVocabulary, NotCoupled
    <3>5. /\ Verify(t, Append(w, op))
          /\ \A p : MeasuredAt(Append(w, op), p) <=>
                      MeasuredAfter(op, MeasuredAt(w, p), p)
      BY <2>7, <2>8, <2>13, <3>4, VerifyOfAppend DEF MeasuredAfter
    <3>6. Append(w, op) \in Seq(Shaped)
      BY <2>7, <3>3, AppendProperties
    <3>7. Good(m)
      BY <2>7, <2>10, <2>11, <3>2, <3>5, <3>6 DEF Accepted, MeasuredAfter
    <3> QED BY <2>3, <3>7
  <2>15. CASE op.kind \notin Fences
    <3>1. r \in Seq(Lawful(t, op)) /\ Arity(op) > 0
      BY <2>8, <2>9, <2>15, RecipeIsLawful DEF t, r
    <3>2. r \in Seq(Shaped) /\ r \in Seq(OpType)
      BY <3>1, SeqMonotonic, ShapedIsTyped DEF Lawful
    <3>3. op.kind \notin {"measure", "reset"}
      BY <2>15 DEF Fences
    <3>4. ASSUME NEW i \in 1 .. Len(r)
          PROVE  /\ Fits(t, r[i]) /\ Clear(t, w, r[i])
                 /\ r[i].kind \notin {"measure", "reset"}
      <4>1. r[i] \in Lawful(t, op)
        BY <3>1, ElementOfSeq
      <4>2. /\ Fits(t, r[i]) /\ r[i].kind \in Gates
            /\ Touched(r[i]) \subseteq Touched(op)
        BY <4>1 DEF Lawful
      <4>3. Clear(t, w, r[i])
        BY <2>13, <3>1, <3>3, <4>2 DEF Clear
      <4>4. r[i].kind \notin {"measure", "reset"}
        BY <4>2 DEF Gates, Standard, OneQ, TwoQ, Angled, NativeOneQ, NativeTwoQ
      <4> QED BY <4>2, <4>3, <4>4
    <3>5. /\ Verify(t, w \o r)
          /\ \A p : MeasuredAt(w \o r, p) <=> MeasuredAt(w, p)
      BY <2>7, <3>2, <3>4, VerifyOfConcat
    <3>6. w \o r \in Seq(Shaped)
      BY <2>7, <3>2, ConcatProperties
    <3>7. Good(m)
      BY <2>7, <2>10, <2>11, <3>3, <3>5, <3>6 DEF Accepted, MeasuredAfter
    <3> QED BY <2>3, <3>7
  <2> QED BY <2>14, <2>15
<1>7. n \in 0 .. n
  BY <1>1
<1> QED BY <1>3, <1>6, <1>7 DEF t

-----------------------------------------------------------------------------
(* The invariant: what routing leaves for the chip and the verifier lets   *)
(* through, every later stage leaves so.                                   *)
ChipInv ==
  /\ chip \in Chips /\ routed \in Routed
  /\ (stage # "routed" /\ Verify(Source(chip.target), routed)) =>
       decomposed \in Accepted(chip.target) /\ cur \in Accepted(chip.target)

LEMMA ChipGoesOn ==
  ASSUME ChipInv, [Next]_vars, \A c \in Chips : Equipped(c)
  PROVE  ChipInv'
<1>1. ~chip.target.generic /\ chip \in Chips /\ routed \in Routed
  BY DEF ChipInv, Equipped
<1>2. \A m \in Accepted(chip.target) : Cleaned(m) \in Accepted(chip.target)
  BY <1>1, CleanedIsAccepted
<1>3. CASE Decompose
  <2>1. /\ decomposed' = DecomposedFor(chip, routed) /\ cur' = decomposed'
        /\ chip' = chip /\ routed' = routed
    BY <1>3 DEF Decompose, FixedPointLoop!Restart
  <2>2. Verify(Source(chip.target), routed) =>
          DecomposedFor(chip, routed) \in Accepted(chip.target)
    BY <1>1, DecomposedIsAccepted
  <2> QED BY <1>1, <2>1, <2>2 DEF ChipInv
<1>4. CASE Clean
  <2>1. /\ stage # "routed" /\ cur' = Cleaned(decomposed)
        /\ UNCHANGED <<chip, routed, decomposed>>
    BY <1>4 DEF Clean, FixedPointLoop!Restart
  <2> QED BY <1>2, <2>1 DEF ChipInv
<1>5. CASE RoundOf1 \/ RoundOf3
  <2>1. /\ stage # "routed" /\ cur' = Cleaned(cur)
        /\ UNCHANGED <<chip, routed, decomposed, stage>>
    BY <1>5 DEF RoundOf1, RoundOf3, FixedPointLoop!Round, MinimumPointLoop!Round
  <2> QED BY <1>2, <2>1 DEF ChipInv
<1>6. CASE StartLoop3 \/ ReturnDecomposed \/ Return
  <2>1. /\ stage # "routed" /\ cur' = cur
        /\ UNCHANGED <<chip, routed, decomposed>>
    BY <1>6 DEF StartLoop3, MinimumPointLoop!Restart, ReturnDecomposed, Return, loopVars
  <2> QED BY <2>1 DEF ChipInv
<1>7. CASE UNCHANGED vars
  BY <1>7 DEF ChipInv, vars, loopVars
<1> QED BY <1>3, <1>4, <1>5, <1>6, <1>7 DEF Next

(* A routed module the verifier lets through for the chip's pairs and      *)
(* rules, it lets through for the chip's gates, too, at every stage and    *)
(* level: for modules of any length, u1q among their ops or not, and every *)
(* chip that has the gates its recipes take.                               *)
THEOREM EveryStageIsAccepted ==
  ASSUME \A c \in Chips : Equipped(c)
  PROVE  Spec => []ChipAccepts
<1>1. Init => ChipInv
  BY DEF Init, ChipInv
<1>2. ChipInv /\ [Next]_vars => ChipInv'
  BY ChipGoesOn
<1>3. ChipInv => ChipAccepts
  BY DEF ChipInv, ChipAccepts, Accepted
<1> QED BY <1>1, <1>2, <1>3, PTL DEF Spec
=============================================================================
