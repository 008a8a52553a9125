------------------------- MODULE CleanupWalkProofs -------------------------
(***************************************************************************)
(* What the walk of Cleanup has emitted and holds back is, at every step,  *)
(* what the ops walked over do, for modules of any length over any set of  *)
(* ops without a u1q, whose angles the pass does not read.                 *)
(***************************************************************************)
EXTENDS CleanupWalk, CleanupProofs

(* The invariant: emitted and held back together, qubit by qubit.          *)
WalkInv ==
  /\ walked \in Seq(PlainOps)
  /\ Sound(state)
  /\ \A p \in Qubits : Pending(state, p) = Effect(walked, p)

LEMMA InputsArePlain ==
  ASSUME \A op \in InputOps : op.kind # "u1q"
  PROVE  InputOps \subseteq PlainOps
<1> SUFFICES ASSUME NEW op \in InputOps PROVE op \in PlainOps
  OBVIOUS
<1>1. op \in OpType /\ op.kind # "u1q"
  BY InputAssumption
<1>2. op.kind \in {"rz", "sx", "sxdg"} => Len(op.qs) = 1
  BY InputAssumption DEF OneQ, NativeOneQ, Angled
<1>3. AngleAttribute(op) = op.n
  BY <1>1 DEF AngleAttribute
<1>4. op.kind \in {"sx", "sxdg"} => op.n = 0
  BY InputAssumption
<1> QED BY <1>1, <1>2, <1>3, <1>4 DEF PlainOps

LEMMA WalkStarts ==
  ASSUME Init
  PROVE  WalkInv
<1>1. walked = << >> /\ state = Start
  BY DEF Init
<1>2. << >> \in Seq(PlainOps) /\ << >> \in Seq(OpType)
  BY EmptySeq
<1>3. ASSUME NEW p \in Qubits
      PROVE  Pending(Start, p) = Effect(<< >>, p)
  <2>1. RunOp(0, p) \in OpType
    BY EmptyIsReduced, EffectOfRunOp
  <2>2. Effect(<< >>, p) = << >>
    BY <1>2, <2>1, EffectFacts
  <2> QED BY <2>2, StartIsSound
<1> QED BY <1>1, <1>2, <1>3, StartIsSound DEF WalkInv

LEMMA WalkGoesOn ==
  ASSUME WalkInv, [Next]_vars, InputOps \subseteq PlainOps
  PROVE  WalkInv'
<1>1. CASE Walk
  <2>1. PICK op \in InputOps :
          state' = Visit(state, op) /\ walked' = Append(walked, op)
    BY <1>1 DEF Walk
  <2>2. op \in PlainOps /\ op \in OpType /\ walked \in Seq(PlainOps)
    BY <2>1 DEF WalkInv, PlainOps
  <2>3. walked \in Seq(OpType)
    BY <2>2, SeqMonotonic DEF PlainOps
  <2>4. walked' \in Seq(PlainOps)
    BY <2>1, <2>2, AppendProperties
  <2>5. Sound(state')
        /\ \A p \in Qubits :
             Pending(state', p) = NextWord(Pending(state, p), p, op)
    BY <2>1, <2>2, VisitKeeps DEF WalkInv
  <2>6. ASSUME NEW p \in Qubits
        PROVE  Effect(walked', p) = NextWord(Effect(walked, p), p, op)
    BY <2>1, <2>2, <2>3, EffectFacts
  <2> QED BY <2>4, <2>5, <2>6 DEF WalkInv
<1>2. CASE Return
  <2>1. state' = FlushEvery(state) /\ walked' = walked
    BY <1>2 DEF Return
  <2>2. Sound(FlushEvery(state))
        /\ \A p \in Qubits : Pending(FlushEvery(state), p) = Pending(state, p)
    BY FlushEveryKeeps DEF WalkInv
  <2> QED BY <2>1, <2>2 DEF WalkInv
<1>3. CASE UNCHANGED vars
  BY <1>3 DEF WalkInv, vars
<1> QED BY <1>1, <1>2, <1>3 DEF Next

(* The walk of Cleanup::run loses, invents and moves nothing that a qubit  *)
(* could tell, at any point of any module without a u1q.                   *)
THEOREM WalkIsFaithful ==
  ASSUME \A op \in InputOps : op.kind # "u1q"
  PROVE  Spec => []Faithful
<1>1. InputOps \subseteq PlainOps
  BY InputsArePlain
<1>2. Init => WalkInv
  BY WalkStarts
<1>3. WalkInv /\ [Next]_vars => WalkInv'
  BY <1>1, WalkGoesOn
<1>4. WalkInv => Faithful
  <2> SUFFICES ASSUME WalkInv PROVE Faithful
    OBVIOUS
  <2>1. \A p \in Qubits : Effect(FlushEvery(state).out, p) = Pending(state, p)
    BY FlushEveryKeeps DEF WalkInv
  <2> QED BY <2>1 DEF WalkInv, Faithful, SameEffect
<1> QED BY <1>2, <1>3, <1>4, PTL DEF Spec

-----------------------------------------------------------------------------
(* The invariant of the size: the state is the one of a whole walk over    *)
(* what was walked over, flushed at the end.                               *)
StateInv ==
  /\ walked \in Seq(PlainOps)
  /\ state = IF returned THEN FlushEvery(Walked(walked)) ELSE Walked(walked)

LEMMA StateGoesOn ==
  ASSUME StateInv, [Next]_vars, InputOps \subseteq PlainOps
  PROVE  StateInv'
<1>1. CASE Walk
  <2>1. PICK op \in InputOps :
          state' = Visit(state, op) /\ walked' = Append(walked, op)
    BY <1>1 DEF Walk
  <2>2. ~returned /\ ~returned' /\ op \in PlainOps
    BY <1>1, <2>1 DEF Walk
  <2>3. /\ Walked(Append(walked, op)) = Visit(Walked(walked), op)
        /\ Append(walked, op) \in Seq(PlainOps)
    BY <2>2, WalkedFacts, AppendProperties DEF StateInv
  <2>4. state' = Walked(walked')
    BY <2>1, <2>2, <2>3 DEF StateInv
  <2> QED BY <2>1, <2>2, <2>3, <2>4 DEF StateInv
<1>2. CASE Return
  BY <1>2 DEF Return, StateInv
<1>3. CASE UNCHANGED vars
  BY <1>3 DEF StateInv, vars
<1> QED BY <1>1, <1>2, <1>3 DEF Next

(* A module without a u1q never gets longer from Cleanup, and one that     *)
(* stays as long has the same ops on every qubit: the size the optimizer's *)
(* loop looks at tells it whether the pass changed anything.               *)
THEOREM SizeTellsOfChange ==
  ASSUME \A op \in InputOps : op.kind # "u1q"
  PROVE  Spec => []SizeTellsChange
<1>1. InputOps \subseteq PlainOps
  BY InputsArePlain
<1>2. Init => StateInv
  <2>1. Walked(<< >>) = Start /\ << >> \in Seq(PlainOps)
    BY WalkedFacts, EmptySeq
  <2> QED BY <2>1 DEF Init, StateInv
<1>3. StateInv /\ [Next]_vars => StateInv'
  BY <1>1, StateGoesOn
<1>4. StateInv => SizeTellsChange
  <2> SUFFICES ASSUME StateInv, returned
               PROVE  SizeTellsChange
    BY DEF SizeTellsChange
  <2>1. walked \in Seq(PlainOps) /\ state.out = Cleaned(walked)
    BY CleanedIsFlushed DEF StateInv
  <2>2. /\ Len(Cleaned(walked)) <= Len(walked)
        /\ Len(Cleaned(walked)) = Len(walked) =>
             \A p \in Qubits : On(Cleaned(walked), p) = On(Canonicals(walked), p)
    BY <2>1, CleanupNeverLengthens
  <2> QED BY <2>1, <2>2 DEF SizeTellsChange
<1> QED BY <1>2, <1>3, <1>4, PTL DEF Spec
=============================================================================
