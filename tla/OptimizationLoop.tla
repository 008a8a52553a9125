-------------------------- MODULE OptimizationLoop --------------------------
(***************************************************************************)
(* OptimizationLoop<Criterion>::run: a body applied again and again to a   *)
(* module until the criterion says stop.                                   *)
(***************************************************************************)
EXTENDS Integers

CONSTANTS
  Initials,     \* modules the loop is run on
  Body(_),      \* one round of passes, a pure function on modules
  Size(_),      \* the metric; depth is approximated as size
  Criterion,    \* "FixedPoint" or "MinimumPoint"
  Patience,     \* patience_ of MinimumPointCriterion
  MaxIters

VARIABLES
  initial,
  cur,
  prev,         \* the metric of cur
  it,           \* rounds done
  stagnant,     \* stagnant_ of MinimumPointCriterion
  returned,
  least         \* the least size of all modules so far, for the properties

vars == <<initial, cur, prev, it, stagnant, returned, least>>

(* The loop about to start on a module.                                    *)
Start(m) ==
  /\ initial = m
  /\ cur = m
  /\ prev = Size(m)
  /\ it = 0
  /\ stagnant = 0
  /\ returned = FALSE
  /\ least = Size(m)

Restart(m) ==
  /\ initial' = m
  /\ cur' = m
  /\ prev' = Size(m)
  /\ it' = 0
  /\ stagnant' = 0
  /\ returned' = FALSE
  /\ least' = Size(m)

Init == \E m \in Initials : Start(m)

(* A slip: the loop stops when the size has changed.                       *)
StopsOnChange(m, rounds) == rounds >= MaxIters \/ prev # m

(* shouldStop(prev, m, rounds, maxIters).                                  *)
ShouldStop(m, rounds) ==
  \/ rounds >= MaxIters
  \/ CASE Criterion = "FixedPoint"   -> prev = m
       [] Criterion = "MinimumPoint" -> m >= prev /\ stagnant + 1 >= Patience

(* One round.  The metric is compared with that of the round before.       *)
Round ==
  /\ ~returned
  /\ LET m == Size(Body(cur))
     IN  /\ cur' = Body(cur)
         /\ prev' = m
         /\ stagnant' = IF Criterion = "FixedPoint" \/ it + 1 >= MaxIters
                        THEN stagnant
                        ELSE IF m < prev THEN 0 ELSE stagnant + 1
         /\ returned' = ShouldStop(m, it + 1)
         /\ least' = IF m < least THEN m ELSE least
  /\ it' = it + 1
  /\ UNCHANGED initial

Next == Round \/ (returned /\ UNCHANGED vars)

Spec == Init /\ [][Next]_vars
=============================================================================
