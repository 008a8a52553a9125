---------------------------- MODULE PassManager ----------------------------
(***************************************************************************)
(* Stages 3 to 5 of PassManager::compile, after placement and routing: the *)
(* routed module is decomposed for the chip, cleaned once, then cleaned in *)
(* the fixed-point loop, then at O3 in the minimum-point loop.  Of the     *)
(* passes in the bodies of the loops all but Cleanup are identity          *)
(* transforms.                                                             *)
(***************************************************************************)
EXTENDS Decomposition, Cleanup, Verifier

CONSTANTS
  Routed,     \* the modules stages 1 and 2 leave
  Chips       \* what the registry says of the chips

(* Ops as the dialect builds them, no root of X with an angle, and the     *)
(* gates a chip can have for rotations and as its entangler.               *)
ASSUME RoutedAssumption ==
  \A ops \in Routed :
    /\ ops \in Seq(OpType)
    /\ \A k \in 1 .. Len(ops) :
         /\ ops[k].kind \in OneQ \cup NativeOneQ => Len(ops[k].qs) = 1
         /\ ops[k].kind \in TwoQ \cup NativeTwoQ => Len(ops[k].qs) = 2
         /\ ops[k].kind \in {"sx", "sxdg"} => ops[k].n = 0

ASSUME ChipsAssumption ==
  \A c \in Chips :
    /\ c.target \in Targets
    /\ c.rotation \in {"rz", "gpi", "u1q"}
    /\ c.entangler \in {"cx", "cz"} \cup NativeTwoQ

VARIABLES
  level,        \* OptimizationLevel
  chip,
  routed,
  decomposed,
  stage,        \* "routed", "decomposed", the loop: "fixed" or "minimum",
                \* "returned"
  initial, cur, prev, it, stagnant, returned, least     \* of the loop

loopVars == <<initial, cur, prev, it, stagnant, returned, least>>
vars == <<level, chip, routed, decomposed, stage, loopVars>>

FixedPointLoop == INSTANCE OptimizationLoop
  WITH Initials <- Routed, Body <- Cleaned, Size <- Len,
       Criterion <- "FixedPoint", Patience <- 2, MaxIters <- 8

MinimumPointLoop == INSTANCE OptimizationLoop
  WITH Initials <- Routed, Body <- Cleaned, Size <- Len,
       Criterion <- "MinimumPoint", Patience <- 2, MaxIters <- 6

Init ==
  /\ level \in {"O0", "O1", "O2", "O3"}
  /\ chip \in Chips
  /\ routed \in Routed
  /\ decomposed = << >>
  /\ stage = "routed"
  /\ FixedPointLoop!Start(routed)

Decompose ==
  /\ stage = "routed"
  /\ stage' = "decomposed"
  /\ decomposed' = DecomposedFor(chip, routed)
  /\ FixedPointLoop!Restart(decomposed')
  /\ UNCHANGED <<level, chip, routed>>

ReturnDecomposed ==
  /\ stage = "decomposed" /\ level = "O0"
  /\ stage' = "returned"
  /\ UNCHANGED <<level, chip, routed, decomposed, loopVars>>

Clean ==
  /\ stage = "decomposed" /\ level # "O0"
  /\ stage' = "fixed"
  /\ FixedPointLoop!Restart(Cleaned(decomposed))
  /\ UNCHANGED <<level, chip, routed, decomposed>>

RoundOf1 ==
  /\ stage = "fixed"
  /\ FixedPointLoop!Round
  /\ UNCHANGED <<level, chip, routed, decomposed, stage>>

(* The loop of O3 starts from what the other one returns.                  *)
StartLoop3 ==
  /\ stage = "fixed" /\ returned /\ level = "O3"
  /\ stage' = "minimum"
  /\ MinimumPointLoop!Restart(cur)
  /\ UNCHANGED <<level, chip, routed, decomposed>>

RoundOf3 ==
  /\ stage = "minimum"
  /\ MinimumPointLoop!Round
  /\ UNCHANGED <<level, chip, routed, decomposed, stage>>

Return ==
  /\ returned
  /\ stage = IF level = "O3" THEN "minimum" ELSE "fixed"
  /\ stage' = "returned"
  /\ UNCHANGED <<level, chip, routed, decomposed, loopVars>>

Next ==
  \/ Decompose \/ ReturnDecomposed \/ Clean
  \/ RoundOf1 \/ StartLoop3 \/ RoundOf3 \/ Return
  \/ stage = "returned" /\ UNCHANGED vars

Spec == Init /\ [][Next]_vars
-----------------------------------------------------------------------------
(* No level changes what the decomposed module does to any qubit, in any   *)
(* round.                                                                  *)
EffectKept == stage # "routed" => SameEffect(decomposed, cur)

(* The chip as the target of a module that has yet to be decomposed: its   *)
(* pairs and its rules, but any standard gate.                             *)
Source(target) == [target EXCEPT !.native = @ \cup Standard]

(* What the verifier lets through before decomposition, standard gates on  *)
(* coupled pairs, it lets through for the chip afterwards, at every stage: *)
(* the gates are the chip's, still on coupled pairs, and none has moved    *)
(* behind a measure of its qubit.                                          *)
ChipAccepts ==
  (stage # "routed" /\ Verify(Source(chip.target), routed)) =>
    Verify(chip.target, cur)

(* Above O0 another Cleanup would leave the ops of every qubit of the      *)
(* module returned as they are, unless the last loop used up its rounds:   *)
(* the loops compare sizes, and an unchanged size does mean unchanged ops, *)
(* if not an unchanged order of ops on different qubits.                   *)
StopsAtFixedPoint ==
  (stage = "returned" /\ level # "O0" /\ it < (IF level = "O3" THEN 6 ELSE 8)) =>
    \A p \in Qubits : On(Cleaned(cur), p) = On(cur, p)
=============================================================================
