--------------------------- MODULE PhononPipeline ---------------------------
(***************************************************************************)
(* A Phonon program from its text to flat Spinor, as fromPhononText runs   *)
(* it: parse, type check, optimize, lower.                                 *)
(***************************************************************************)
EXTENDS PhononParser, LinearTypes, PhononOptimizer, PhononLowering

CONSTANT Admissible(_)  \* the programs read, with all their prefixes

M == INSTANCE PhononMeaning

VARIABLES
  phase,    \* "parse", "optimize", "lower", "ok" or "rejected"
  passes    \* passes of the optimizer that have run

vars == <<parserVars, phase, passes, module, loweringVars>>

PipelineInit ==
  /\ Init
  /\ phase = "parse" /\ passes = 0
  /\ module = << >>
  /\ frames = << >> /\ vmap = << >> /\ emitted = << >> /\ errors = FALSE

Read ==
  /\ phase = "parse"
  /\ \E s \in Statements : Admissible(Append(source, s)) /\ ReadStatement(s)
  /\ UNCHANGED <<phase, passes, module, loweringVars>>

(* The end of the text, outside any block; a module that fails the type    *)
(* check goes no further.                                                  *)
TypeCheck ==
  /\ phase = "parse" /\ open = << >>
  /\ phase' = IF TypeChecks(ops) THEN "optimize" ELSE "rejected"
  /\ module' = ops
  /\ UNCHANGED <<parserVars, passes, loweringVars>>

Optimize ==
  /\ phase = "optimize" /\ passes < Len(Passes)
  /\ passes' = passes + 1
  /\ module' = PassOf(Passes[passes + 1], module)
  /\ UNCHANGED <<parserVars, phase, loweringVars>>

Lower ==
  /\ phase = "optimize" /\ passes = Len(Passes)
  /\ phase' = "lower"
  /\ Lowering(module)
  /\ UNCHANGED <<parserVars, passes, module>>

LowerStep ==
  /\ phase = "lower"
  /\ LoweringStep
  /\ UNCHANGED <<parserVars, phase, passes, module>>

(* The Spinor module is kept if the lowering reported nothing.             *)
Return ==
  /\ phase = "lower" /\ frames = << >>
  /\ phase' = "ok"
  /\ UNCHANGED <<parserVars, passes, module, loweringVars>>

Next ==
  \/ Read \/ TypeCheck \/ Optimize \/ Lower \/ LowerStep \/ Return
  \/ phase \in {"ok", "rejected"} /\ UNCHANGED vars

Spec == PipelineInit /\ [][Next]_vars
-----------------------------------------------------------------------------
Outcomes(p) == SUBSET (1 .. M!IfsUpTo(p, Len(p)))

Lowered == phase = "ok" /\ ~errors

TypeOK ==
  /\ source \in Seq(Statements)
  /\ \A i \in 1 .. Len(ops) :
       /\ ops[i].kind \in OpKinds
       /\ Range(ops[i].in) \cup Range(ops[i].out) \subseteq ValuesOf(ops)
  /\ slot \in [Names -> ValuesOf(ops) \cup {Unbound}]
  /\ open \in Seq(1 .. Len(ops))
  /\ phase \in {"parse", "optimize", "lower", "ok", "rejected"}
  /\ passes \in 0 .. Len(Passes)
  /\ \A i \in 1 .. Len(module) : Range(module[i].in) \subseteq ValuesOf(module)
  /\ Range(vmap) \subseteq ValuesOf(emitted) \cup {Unmapped}

(* The module the parser builds says what was written: on every path       *)
(* through its conditionals the same operations on the same qubits.        *)
ModuleSaysSource ==
  phase = "parse" /\ open = << >> =>
    \A taken \in Outcomes(source) :
      M!WordOf(M!StatementsOf(ops), taken) = M!WordOf(source, taken)

(* The type checker accepts exactly the modules in which no value is used  *)
(* twice, but for a measure followed by a reset.                           *)
AcceptsLinear ==
  phase # "parse" => (phase # "rejected" <=> Linear(ops))

(* Every pass of the optimizer keeps the effect of the program, on every   *)
(* path, and leaves a module in which no value is used twice.              *)
MeaningKept ==
  phase \in {"optimize", "ok"} =>
    \A taken \in Outcomes(source) :
      M!SameEffect(M!WordOf(M!StatementsOf(module), taken), M!WordOf(source, taken))

OptimizedLinear == phase \in {"optimize", "ok"} => Linear(module)

(* The Spinor module does what the program does when every branch is       *)
(* taken: calls are inlined on the qubits passed and loops repeated as     *)
(* often as they say.                                                      *)
LoweredKept ==
  Lowered =>
    M!SameEffect(M!WordOf(M!StatementsOf(emitted), {}),
                 M!WordOf(source, 1 .. M!IfsUpTo(source, Len(source))))
=============================================================================
