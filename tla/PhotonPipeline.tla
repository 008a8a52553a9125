--------------------------- MODULE PhotonPipeline ---------------------------
(***************************************************************************)
(* photonc from a source text to the Spinor module spinorc reads: a Photon *)
(* program is parsed, lowered to Phonon, optimized without a type check    *)
(* and written as Spinor text; a Spinor text is passed on as it is.        *)
(***************************************************************************)
EXTENDS PhotonLowering, SpinorParser

CONSTANTS
  Field, Zeta,
  Following(_),  \* the statements read after those of a sequence
  FollowingL(_), \* the same for the lines of a Spinor text
  MaxLines       \* bound on the lines of such a text

T  == INSTANCE LinearTypes
O  == INSTANCE PhononOptimizer
M  == INSTANCE PhononMeaning
PM == INSTANCE PhotonMeaning

ASSUME FieldAssumption ==
  Turn % 4 = 0 /\ Field \in Nat \ {0} /\ PM!Powers[Turn] = Field - 1

VARIABLES
  phase,    \* "read", "optimize", "parse", "end" or "rejected"
  module,   \* the Phonon module, as far as it is optimized
  passes    \* passes of the optimizer that have run

vars == <<photonVars, spinorVars, phase, module, passes>>

PipelineInit ==
  /\ Init /\ ParserInit
  /\ phase = "read" /\ module = << >> /\ passes = 0

(* The next statement of a .pho file.                                      *)
Read ==
  /\ phase = "read" /\ lines = << >>
  /\ \E s \in Following(text) : ReadStatement(s)
  /\ UNCHANGED <<spinorVars, phase, module, passes>>

(* The end of the file, outside any function or at an error.               *)
Compile ==
  /\ phase = "read" /\ text # << >> /\ (fatal \/ blocks = << >>)
  /\ IF errors THEN phase' = "rejected" /\ UNCHANGED module
     ELSE phase' = "optimize" /\ module' = ops
  /\ UNCHANGED <<photonVars, spinorVars, passes>>

Optimize ==
  /\ phase = "optimize" /\ passes < Len(O!Passes)
  /\ passes' = passes + 1
  /\ module' = O!PassOf(O!Passes[passes + 1], module)
  /\ UNCHANGED <<photonVars, spinorVars, phase>>

EmitText ==
  /\ phase = "optimize" /\ passes = Len(O!Passes)
  /\ phase' = "parse"
  /\ lines' = EmitSpinorText(module)
  /\ UNCHANGED <<photonVars, at, regs, spinor, refused, module, passes>>

(* The next line of a .spinor file, and its end.                           *)
ReadSpinor ==
  /\ phase = "read" /\ text = << >> /\ Len(lines) < MaxLines
  /\ \E l \in FollowingL(lines) : lines' = Append(lines, l)
  /\ UNCHANGED <<photonVars, at, regs, spinor, refused, phase, module, passes>>

PassOn ==
  /\ phase = "read" /\ text = << >> /\ lines # << >>
  /\ phase' = "parse"
  /\ UNCHANGED <<photonVars, spinorVars, module, passes>>

Parse ==
  /\ phase = "parse" /\ ReadLine
  /\ UNCHANGED <<photonVars, phase, module, passes>>

Finish ==
  /\ phase = "parse" /\ (refused \/ Accepted)
  /\ phase' = "end"
  /\ UNCHANGED <<photonVars, spinorVars, module, passes>>

Next ==
  \/ Read \/ Compile \/ Optimize \/ EmitText \/ ReadSpinor \/ PassOn \/ Parse \/ Finish
  \/ phase \in {"end", "rejected"} /\ UNCHANGED vars

Spec == PipelineInit /\ [][Next]_vars
-----------------------------------------------------------------------------
Complete == text # << >> /\ blocks = << >> /\ ~errors

Ifs(m) == M!IfsUpTo(m, Len(m))

TypeOK ==
  /\ \A i \in 1 .. Len(ops) : ops[i].kind \in OpKinds
  /\ \A r \in DOMAIN qslots : Range(qslots[r]) \subseteq ValuesOf(ops)
  /\ \A x \in DOMAIN intConsts : intConsts[x] \in Int
  /\ fatal => errors
  /\ phase \in {"read", "optimize", "parse", "end", "rejected"}
  /\ passes \in 0 .. Len(O!Passes)
  /\ at \in 1 .. Len(lines) + 1
  /\ \A r \in DOMAIN regs : regs[r].qubit => Range(regs[r].live) \subseteq ValuesOf(spinor)

(* The Phonon module says what the Photon program says: on every path      *)
(* through its conditionals the same operations on the same qubits, with   *)
(* the indices and angles its expressions give.                            *)
ModuleSaysProgram ==
  phase = "read" /\ Complete =>
    \A taken \in SUBSET (1 .. Ifs(ops)) :
      M!WordOf(M!StatementsOf(ops), taken) = PM!Said(text, taken)

(* A routine of the library makes of the register what it promises: the    *)
(* Bell and GHZ states, the Fourier transform and its inverse, the state   *)
(* of the source on the destination for every outcome of a teleportation.  *)
LibraryKeepsPromises ==
  Complete /\ phase = "read" /\ Len(text) = 4 /\ text[2].kind = "qreg"
    /\ text[3].kind = "call" /\ text[3].method \in Lib!Routines \ {"vqe_ansatz"} =>
    LET word(taken) == M!WordOf(M!StatementsOf(ops), taken)
    IN  \A src, anc \in {0, 1} :
          PM!KeepsPromise(text[3].method, Allocated,
                          word({ k \in {1, 2} : <<anc, src>>[k] = 1 }),
                          [q \in 0 .. 1 |-> <<src, anc>>[q + 1]])

(* No op uses a value of another function: one in a def only what was made *)
(* since it began, one outside nothing made in a def.                      *)
ScopedFunctions ==
  \A d \in { i \in 1 .. Len(ops) : ops[i].kind = "def" } :
    LET ends   == { j \in d .. Len(ops) : ops[j].kind = "enddef" }
        body   == IF ends = {} THEN d .. Len(ops)
                  ELSE d .. CHOOSE j \in ends : \A k \in ends : j <= k
        inside == UNION { Range(ops[i].out) : i \in body }
    IN  \A i \in 1 .. Len(ops) :
          IF i \in body THEN Range(ops[i].in) \subseteq inside
          ELSE Range(ops[i].in) \cap inside = {}

(* A program without loops that the type checker of the other front ends   *)
(* accepts never works on a qubit it has measured, on any path, nor on one *)
(* qubit as two.  The body of a loop is checked as if it ran once.         *)
AcceptedMeasuresLast ==
  phase = "read" /\ Complete /\ T!TypeChecks(ops)
    /\ (\A i \in DOMAIN text : text[i].kind # "for") =>
    \A taken \in SUBSET (1 .. Ifs(ops)) :
      LET w == PM!Said(text, taken)
      IN  \A i \in DOMAIN w :
            /\ IsInjective(w[i].qs)
            /\ w[i].kind = "measure" =>
                 \A j \in i + 1 .. Len(w) : w[i].qs[1] \notin Range(w[j].qs)

(* What the lines of a Spinor text say.                                    *)
Wire(o) ==
  LET before == { i \in 1 .. Len(lines) : lines[i].kind = "qubit"
                    /\ \E j \in i + 1 .. Len(lines) :
                         lines[j].kind = "qubit" /\ lines[j].operands[1][1] = o[1] }
  IN  Register[FoldSet(LAMBDA i, n : n + lines[i].operands[1][2], 0, before) + o[2] + 1]

SizeOf(reg) ==
  LET i == CHOOSE i \in DOMAIN lines :
             lines[i].kind = "qubit" /\ lines[i].operands[1][1] = reg
  IN  lines[i].operands[1][2]

LineWord(l) ==
  CASE l.kind \in GateKinds \cup {"reset", "barrier"} ->
         <<[kind |-> l.kind, qs |-> [k \in DOMAIN l.operands |-> Wire(l.operands[k])],
            n |-> IF l.kind \in TakesAngle THEN l.angles[1] ELSE 0]>>
    [] l.kind = "measure" ->
         <<[kind |-> "measure", qs |-> <<Wire(l.operands[2])>>, n |-> 0]>>
    [] l.kind = "measureall" ->
         [k \in 1 .. SizeOf(l.operands[2][1]) |->
            [kind |-> "measure", qs |-> <<Wire(<<l.operands[2][1], k - 1>>)>>, n |-> 0]]
    [] OTHER -> << >>

(* The parser threads the registers through the operations: the module     *)
(* says what the lines say, and no operation takes a value that one before *)
(* it has replaced.                                                        *)
ParsedSaysText ==
  phase = "end" /\ ~refused =>
    /\ M!WordOf(M!StatementsOf(spinor), {})
         = FlattenSeq([i \in DOMAIN lines |-> LineWord(lines[i])])
    /\ \A i \in DOMAIN spinor : spinor[i].out # << >> =>
         \A j \in i + 1 .. Len(spinor) : Range(spinor[i].in) \cap Range(spinor[j].in) = {}

(* A straight line of gates and measurements comes out of photonc as it    *)
(* was written, up to what the optimizer may do, or not at all: an angle   *)
(* the text leaves out is missed by the parser.  This is so of programs    *)
(* the type checker would accept, to which photonc does not show them.     *)
Straight == /\ \A i \in DOMAIN text : text[i].kind \notin {"for", "if", "else"}
            /\ \A i \in DOMAIN text : text[i].kind = "call" => text[i].method # "teleport"

ArtifactSaysProgram ==
  phase = "end" /\ ~refused /\ text # << >> /\ Straight /\ T!TypeChecks(ops) =>
    M!SameEffect(M!WordOf(M!StatementsOf(spinor), {}), PM!Said(text, {}))
=============================================================================
