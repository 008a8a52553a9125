# A verification of quantum-stack

`quantum-stack` compiles quantum programs.  Three languages sit on each other:
Photon (a small host language), Phonon (structured circuits in static single
assignment form) and Spinor (flat circuits).  Spinor's compiler places, routes,
decomposes and cleans a circuit for one chip of a registry, then emits it as
text or submits it.  The compilers are single-threaded batch programs, with no
threads and no messages between nodes.  What is hard in them is the *long
sequence*: tables kept in two directions and rewritten by every step, work lists
kept between iterations, loops that choose greedily and may not end, passes that
remove ops and trace the rest back, whose correctness shows only in the state left
after many of them.  Around the compilers are drivers that work by way of files and
child processes, any of which may fail, and that read one child through two
bounded pipes.  Those are what this project models.

1. [Inventory](#1-inventory)
2. [Plan](#2-plan)
3. [The models and the code](#3-the-models-and-the-code)
4. [The runs](#4-the-runs)
5. [What is proved](#5-what-is-proved)
6. [What the code does that it says it does not](#6-what-the-code-does-that-it-says-it-does-not)
7. [What is not modelled](#7-what-is-not-modelled)

Paths are relative to `src/`.

## 1. Inventory

| component | state it keeps | operations | what makes it correct | module |
|---|---|---|---|---|
| coupling graph (`spinor/passes/lib/CouplingGraph.cpp`) | chip size, edges, all-pairs distances | `connected`, `neighbors`, `distance` | distances are those of the graph | `Layout` |
| placement (`Placement.cpp`) | `Layout`: `v2p` and `p2v` | settle pairs heaviest first, then the rest | one site per qubit, one qubit per site, nothing left unplaced that fits, nothing placed moves again | `Layout`, `Placement`, `PlacementLoop` |
| routing (`Routing.cpp`) | layout, `done`, `head`, front layer, live values, output | drain, refresh, choose a swap, insert it, give up, final pass | the output executes the input; two-qubit gates on coupled pairs; it ends; bits keep their meaning | `Routing`, `CircuitExecution` |
| cleanup (`Cleanup.cpp`) | pending rotations per value, value map, output | accumulate, flush, drop, copy | same effect; change is visible in the size | `SpinorOps`, `Cleanup`, `CleanupWalk` |
| optimization loop (`OptimizationLoop.h/.cpp`) | round, previous metric, patience | run body, ask the criterion | it ends; a fixed point is one | `OptimizationLoop` |
| pass manager (`PassManager.cpp`) | the module | stages of `compile` by level | the same unitary at every level, in gates the chip accepts | `PassManager` |
| resynthesis passes | none | return their module | nothing: they are stubs | taken as identities |
| decomposition (`Decomposition.cpp`) | value map, output | one recipe per gate | every recipe exact; output within the chip's gates, measures in place | `Decomposition` |
| Spinor parser (`spinor/parser/cpp`) | register tables, values, ops | a line at a time: declare, gate, reset, barrier, measure | the module says the lines; no value is used twice | `SpinorParser` |
| Spinor dialect, printers, emitters, reader of OpenQASM | value and op tables | build, print, parse | text round trips | text, not modelled |
| Spinor verifier (`Verifier.cpp`) | lineage of values | rules W2 to W6 | accepts what the passes leave for a chip | `Verifier` |
| simulator (`Simulator.cpp`) | amplitudes | apply gates, compare | the judge of all passes | `Simulator` |
| chip registry (`spinor/registry/`) | chips read from YAML | load once | symmetric, in range | constants of `Layout` |
| Phonon dialect and parser (`phonon/dialect`, `phonon/parser`) | slot table, open blocks, ops, values | a statement a time to ops and markers | the module says what the source says | `PhononIR`, `PhononParser` |
| Phonon linear types (`phonon/types`) | consumed, measured, reset flags of each value | one walk | refuses exactly the second uses | `LinearTypes` |
| Phonon optimizer (`phonon/optimizer`) | dead ops, maker of each value, remaps, merged angles | cancel pairs, merge rotations, compact | every pass keeps the meaning and linearity | `PhononOptimizer` |
| Phonon lowering (`phonon/lower`) | value map, call stack, function index | emit, inline a call, unroll a loop, take a branch | flat Spinor does what the source does | `PhononLowering` |
| compilation (`photon/bindings/lib/Engine.cpp`) | the modules of `CompiledProgram` | the phases in order, stop at the first refusal | what is returned is whole | `PhononPipeline`, `PhononMeaning` |
| Photon language (`photon/lang/cpp`) | tables of registers, of their values and of integer variables; open blocks; ops | parse an expression, fold it, lower a statement, expand a routine of the library | the Phonon module says the program; a routine makes the state it promises; a function sees its own names only | `PhotonLibrary`, `PhotonLowering`, `PhotonMeaning` |
| Photon to Spinor text (`photon/cli/photonc_main.cpp`, `emitSpinorText`) | slot of each value | optimize, print | the text parses to what was written | `SpinorParser`, `PhotonPipeline` |
| Photon frontends (`photon/frontends`) | none | rewrite lines of other languages by patterns | same program | not modelled |
| command line (`common/cli/lib/Flags.cpp`) | position, flags | a word at a time; `validate` | what is asked is what was typed, or an error | `Flags` |
| child process (`common/cli/lib/Submit.cpp`) | two pipes, what was read, status | fork, exec, read to the end, wait | all output of both streams, and how the child ended | `Capture`, `Submission` |
| `spinorc`, `phononc`, `photonc` | files, exit code | compile, estimate, run, submit, targets; check, verify, emit, parse | the exit code tells what became of the artifact; a job is the one asked for | `Spinorc`, `Driver` |
| submission (`spinor/submit/python`) | environment | read a secret, choose a mode, replay a cassette, place a job | as asked, in the mode asked, under the key given | `SpinorSubmit` |

Interaction is by call and by value: a pass takes a module and returns a new
one.  `PassManager::compile` calls placement, routing, decomposition, cleanup and
then the loops of the level.  `Layout` goes from placement into routing, and the
final layout into the report.  `CompiledProgram::fromPhononText` calls parser,
type checker, optimizer and lowering.  The module an earlier pass leaves is the
whole interface, so most hazards inside a compiler are of one kind: what one pass
stores in a module (a count, a value number, a position) and a later one takes on
trust.  Between programs the interface is a file, a command line and an exit code:
`photonc` writes Spinor text to a file named by its pid and asks `spinorc` to
compile that file; `run` writes what it got to another and asks
`python -m spinor_submit` to submit it.

The behaviours that are hard to test are listed, at their lines, under
`hazards` in `PROJECT.json`, each with the properties that watch it or the reason
none does.

## 2. Plan

The order follows what can go wrong least visibly.

1. **Placement and routing** (done): the one loop of the program that may not
   end, on the tables all later results depend on.  Abstract specification: a
   circuit executed gate by gate, in an order each qubit agrees with.
2. **Cleanup, the loops and the levels** (done): effect on every wire, size as a
   sign of change.
3. **Phonon, from text to flat Spinor** (done but for the parts section 7 lists):
   parser, type check, optimizer, lowering, composed by the pipeline.
4. **Decomposition, with the simulator to judge it and the verifier as its client**
   (done): one recipe per gate and entangler, composed with cleanup and the loops in
   `PassManager`; exactness in amplitudes, closure under the chip's gates.
5. **The child process and its two pipes, and the drivers around it** (done): parent,
   child and two bounded buffers as an implementation of an abstract capture, within
   whole invocations of the three binaries, with failing writes and processes.
6. **Photon's lowering** and `photonc`'s path through text, which skips the type check
   (done), down to the Spinor parser.
7. **All five stages of `compile` as one model**: placement and routing before
   `PassManager`'s stages, equality across the layout, and rule W4 across swaps.
8. **Phonon functions with control flow, explicit returns, `while`**, with the
   recursion that is inlined without end.
9. **The reader of OpenQASM and the frontends**, as far as they are more than patterns.
10. **Proofs** (done for Spinor's placement, routing, cleanup and levels, for the
   drivers, and for Phonon's type check, optimizer and lowering): next would be that a
   Photon function sees its own values only, for which the parser of expressions has to
   be a function of positions instead of a recursive operator.

## 3. The models and the code

A qubit, a gate or a bit is a number or a model value; names, angles and
attributes are kept only as far as a property tells them apart.  An angle is a
whole number of parts of a turn (`Turn` of them make one).

### Placement and routing

| module | models | correspondence |
|---|---|---|
| `Layout` | `CouplingGraph` | `Edges` and `AllToAll` are the chip; `Distance` is the breadth-first table, `Unreachable` where it has no path |
| `Layout` | `collectGates`, `buildVMap` | a program is a sequence of ops on virtual qubits; all gates on one qubit are one kind, and so are all on two |
| `Layout` | `Layout`, `apply_swap` | `v2p` and `p2v` as two functions, with `Unplaced` and `Free` for -1 |
| `Placement` | `Placement::run` | the two loops as folds; `PlaceProgram` is what the pass returns |
| `PlacementLoop` | the same, one iteration a step | `pairs` are the interacting pairs still to settle, `rest` the loop variable of the last loop |
| `Routing` | `Routing::run` | `todo[v]` are the gates from `head[v]` on, `front` the front layer, `scan` the gates the current drain pass has yet to look at, `wire[p]` the gates emitted on what lives at site p, `pc` the loop the code is in |
| `CircuitExecution` | the promise | a gate is executed when all earlier gates on its qubits have been, and each qubit remembers its gates in order |

An action of `Routing` is an iteration of an inner loop, with all that follows it
in the same iteration: `Commit` is `commitGate` with the advance of both heads and
the bookkeeping, `NextPass` ends a drain pass and refreshes the front layer,
`PickSwap` scores the candidates with the lookahead of the extended set, breaks
ties by the lowest pair and inserts the swap.  Scores are integers, the code's
means multiplied by what all candidates divide by, where the code compares doubles.

### Decomposition, cleanup and the levels

`SpinorOps` gives the ops of a flat module, a kind, the qubits by number and one
angle, and what `SameEffect` means: the same word on every wire once neighbouring
rotations and square roots of X are added.  `Decomposition` is the recipes: a
function from a chip's three strings (`rotation`, `pi2`, `entangler`) and an op to
the ops it becomes, written with the code's own helpers (`EmitZyz`, `EmitCx`,
`EmitSwap`, `EmitCz`), and `DecomposedFor` the pass.  `Cleanup` is the peephole:
`Start`, `Visit` for one op, `FlushEvery` at the end, and `Cleaned` for the whole.
A walk over a module is `Through`: what the steps of a sequence make of a start, one
function after the other (`Visited` an op, `Flushed` a qubit, `Rewritten` by a recipe).
`CleanupWalk` takes it one op a step over every module up to a length.

`Simulator` is `simulate` and `equivalent`, with what the check lane asks of the stages
of `PassManager`.  Its amplitudes are residues modulo the
prime 12289, in which 4134 is a sixteenth root of unity: it stands for the
exponential of half the smallest angle, so that sines and cosines are the sums
they are and nothing is rounded.  Equal matrices have equal residues; different
ones could coincide only by chance, which would hide a violation and never make one
up.  Where the code compares the amplitudes reached from one state, `Equivalent`
compares whole matrices, up to one factor.

`Verifier` is rules W2 to W6 of `verify`, each the set of ops it reports.

`OptimizationLoop` is the template with both criteria; its body and metric are
constants.  `PassManager` instantiates it twice around `Cleaned`, with the rounds
and the patience of the code (8; 6 and 2), and puts `Decompose` and `Clean` before:
`stage` is where `compile` is, `cur` the module it holds, `decomposed` and `routed`
what it held before.

### Phonon

`PhononIR` holds modules: a sequence of ops, each with its operands and results as
value numbers, and markers `if`, `for`, `def` and their ends.  The state of
`PhononParser` is the source read so far, the ops built, the slot table (`slot`,
which value a name is bound to) and the blocks still open; one statement a step.
`LinearTypes` and `PhononOptimizer` are functions of a module, written as the loops of
the code are: `Through` (in `Walks`) carries a state along a sequence, of which every
element has its step (`CheckOp`, `CancelStep`, `MergeStep`, `TraceStep`), and `Kept` is what
a loop leaves that copies the live ops.  A pass ends in `Compact`.
`PhononLowering` is `emitRange` and its recursion as a stack of frames, one op, one
iteration or one return a step; `vmap` is the value map.  `PhononPipeline` composes
them in the order `fromPhononText` runs them, a pass of the optimizer a step (`passes` of
them have run), and holds the properties.

`PhononMeaning` is no code.  It gives the word of operations a program performs
for each outcome of its conditionals (`WordOf`), reads a module back as statements
by following each value to the register element it came from (`StatementsOf`),
and compares words up to cancelling inverses and adding rotations on every wire
(`SameEffect`).  The same reading serves the source, the parsed module, the
optimized module and the lowered one.

### Photon, and the text between the programs

`PhotonLowering` begins with the parser's descent (`parseAdd`, `parseMul`, `parseUnary`,
`parsePrimary`) over the tokens of an expression, and `FoldInt`, the folding of its
tree.  `PhotonLibrary` gives the gates each routine of `photon.lib` expands to on a
register of a given size.  The actions of `PhotonLowering` read a program one statement at a time
and do to it what parser and lowering do together: `ops` is the Phonon module
being built (what `Optimize` then works on, pass by pass, is `module`), `qslots` the live values of each register, `intConsts` the integer
variables known, `blocks` the blocks still open.  Parser and lowering are two walks
in the code; an error of either leaves no module, so one walk with both their
refusals has the same results.  `PhotonPipeline` composes them with the optimizer's
passes, `EmitSpinorText` and the Spinor parser (both in `SpinorParser`): `Read` a statement,
`Compile` at the end of the file, `Optimize` for each pass, `EmitText`, then `Parse` line by line.  It also
starts from texts given directly (`ReadSpinor`, `PassOn`), as `photonc` does for a
`.spinor` file.

`SpinorParser` takes one line a step: `regs` holds, for each register, whether it is of
qubits and the value last made of each element, as `live` does in the code; `Throw` is
the exception that drops the module.

`PhotonMeaning` is no code.  It says what a program does (`Said`: the word of
operations, for every outcome of its conditionals, with loops repeated and
expressions evaluated by another route than the parser's) and what the library
promises (`KeepsPromise`, in amplitudes as in `Simulator`).

### The drivers

| module | models | correspondence |
|---|---|---|
| `Flags` | `parseArgv`, `takeValue`, `isSecretLiteral`, `validate` | a word is a sequence: a name, then for `name=value` the value; `pos` is the iterator, `stage` the loop the code is in, or `"crashed"` once it has read past the end |
| `Spinorc` | `spinorc_main.cpp` | `Replies` is what a command line is answered: exit code and text.  A text is known by its language, the program it says, the chip it is for and whether it is whole |
| `Submission` | `runPython`, `slurpFd` | `pipe` counts the chunks in each pipe, `text` those the parent has, `script` those the child has yet to write; `parent` is the stream it reads, `"out"` before `"err"`, then `"wait"` |
| `Capture` | the promise | the child writes and ends; the caller is then given all of it |
| `SpinorSubmit` | `__main__.py`, `__init__.py` | `Answers` is what the child will write, its exit code, and the job it placed; the vendors' clients are outside the repository |
| `Driver` | `photonc_main.cpp`, `phononc_main.cpp`, the rest of `spinorc` | `pc` is what the driver does next, `disk` the files, `request` what it hands to python |

An action of `Driver` is a function of the code between two calls that leave the
process: `Prepare` is `prepareLoweredFile`, `CompileBySpinorc` the subprocess and what
is done with its code, `WriteArtifact`, `WriteManifest`, `CmdSubmit`, then
`RunPython` with the steps of `Submission`, and `Report`.  Three things may go
wrong, each of them as the code meets it: a write is lost or cut and nobody looks
(`writeFile`), a process does not start, a process is killed.  `faults` collects
their kinds.

## 4. The runs

Every property of a passing run has a mutant in `PROJECT.json`: a slip of the kind
a plausible change to that code would make, under which the run finds the
property violated.

| run | instance | shows |
|---|---|---|
| `placement_overfull` | every program of at most 3 ops on 4 qubits, a chip of 3 sites with one coupled pair | the layout is one-to-one also when the program does not fit, no site is wasted, the heaviest pair starts coupled, nothing moves twice, and the stepwise loops return what the one-shot fold computes |
| `routing_line4` | every program of at most 3 mixed ops on 3 qubits, on a line of 4 with two uncoupled sites beside it, from every layout in which no two-qubit gate reaches from one to the other; lookahead 1 | all invariants, that two-qubit gates land on coupled pairs, that gates are left behind only where no swap can help, that routing refines the abstract circuit, and that it ends |
| `cleanup_two_qubits` | every module of at most 5 ops of 9 kinds on 2 qubits | at every point of the walk emitted and pending ops do what was read; unchanged size is unchanged module |
| `pass_manager_levels` | every level; chips of the IBM and the IonQ family; modules of at most 2 of the 14 standard gates (angled ones at three angles), of at most 3 of 8 mixed ops, and onions of up to 17 layers | recipes are exact and fences stay where they were; what is returned is equivalent, and accepted by the verifier at every stage if the routed module was; the loops stop at a fixed point or at their bound |
| `phonon_pipeline` | every straight line of at most 4 gates of 11 kinds on 2 qubits; every nesting of at most 3 openings or gates, with blocks two deep | the module says the source, the type check is exact, every pass keeps meaning and linearity, what is lowered does what was written |
| `photon` | programs of at most 6 statements: straight lines of 9 kinds of statement on 2 qubits, nestings of conditionals and loops of 0 and 2 rounds, every expression of at most 5 tokens, every routine of the library on up to 3 qubits, functions with a parameter before and behind a kernel; Spinor texts of at most 6 lines | the Phonon module says the program, routines make what they promise, functions see their own values, what the type check accepts does not use a qubit it measured, the parser says the lines, and what `photonc` hands on does what was written |
| `driver` | some ninety command lines of `photonc` and as many of `phononc`, forty of `spinorc`, in three environments, with and without files of an earlier process; at most two kinds of fault; a child that writes on both streams through pipes of one chunk | `runPython` implements `Capture`, the driver ends, its exit code tells the outcome, and a job is the one asked for |
| `routing_line8_livelock` | one program of 19 gates on a line of 8 | violates `Termination` (section 6) |
| `pass_manager_rx_chip` | one gate, a chip without a square root of X | violates `RecipesExact` |
| `cleanup_u1q` | two `u1q` ops at most | violates `PassesThrough` |
| `phonon_loop_cancel` | a gate before a loop of the same gate | violates `MeaningKept` |
| `photon_loop` | a loop over the elements of a register | violates `ModuleSaysProgram` |

**Bounds, and why they are enough.**

- *Line of 4, three qubits, three ops.*  Three qubits on four sites give a free
  site swaps can pass through, distance three, gates that need two swaps, fences
  over two and three qubits and every interleaving of the two gate kinds with
  them.  `ExtendedSetSize` is 1 where the code has 20: with three ops no more than
  two gates can be behind the front, so 1 is the value that still makes the cut
  happen.
- *`SwapBound`* caps a ghost counter of swaps (it saturates and guards nothing);
  `NoNeedlessSwap` only asks whether it is 0.
- *Uncoupled sites.*  The loader accepts chips with sites no edge reaches.  With both
  qubits of a gate on such sites there is no candidate swap and routing gives up
  (`GiveUp`).  With one of them there, swaps of the other never help and go on for ever,
  which is `Termination` violated once more; these layouts are left out of the run,
  and no proof leaves them out.
- *Placement.*  More qubits than sites, and a coupled pair that is not the lowest:
  both fallbacks of the pair loop and the exhausted loop at the end happen.
- *Cleanup.*  `Turn` 4 makes quarter turns, so that sums wrap and runs of `sx`
  vanish; five ops are enough for a pending rotation, a pending run, a fence and
  one thing on each side.
- *Pass manager.*  Recipes touch the qubits of one op, so two qubits hold them all;
  two gates in a row let the tail of one recipe meet the head of the next, and with
  three mixed ops a measure, a reset or a barrier stands between them.  `Turn` 8
  is the coarsest that has the angle of `t`.  Each layer of an onion cancels only
  after the one inside it, so a module of d layers needs d rounds; 17 is more than
  the cleanup and both loops remove (1 + 8 + 6), so that both bounds are reached.
  IBM's chips are taken with rule W4 and without.  The simulator takes `gpi`,
  `gpi2` and `u1q` for the identity, so the two properties about amplitudes leave out
  modules with these; the others hold for them too.
- *Phonon, straight lines.*  Gates that undo themselves, that undo each other, two
  that differ in the order of their operands, rotations about two axes whose sum is a
  turn, a measure, a reset and a barrier: with four, a pair can be
  cancelled across another cancelled pair, which is where tracing operands back
  matters.
- *Phonon, blocks.*  Conditionals, loops of 0 and 2 rounds, a function, calls of
  it on two qubits and of one that does not exist.  These programs
  use only gates no pass rewrites (`gpi`, `ms`): with others the optimizer does
  change the meaning of programs with blocks, as `phonon_loop_cancel` shows.
  Bodies of functions are straight lines on the parameters.  `MaxStatements` bounds
  a source without the statements that close its blocks, `MaxNesting` the blocks
  open at once.
- *Photon.*  `Turn` 16 has the angles of a Fourier transform on three qubits, halved
  twice by its controlled rotations; 5860 is a root of unity of order 32 modulo 12289, for
  half of the smallest of them.  Three qubits are the least for which a reversal has
  a middle, a chain two links and a rotation two distances.  The families of
  statements (`Families` in `MCPhoton`) keep what does not interact apart: a program
  has gates and measurements, or blocks, or a routine, or functions.  In loops only
  gates without the loop's variable are read; the run `photon_loop` shows why.
- *Spinor texts.*  Three declarations, of two registers of qubits and of one of bits in two
  sizes, in any order and repeated or missing, then two lines of 16: gates across registers and within, missing angles and operands,
  both forms of measurement, a bit where a qubit belongs.
- *Driver.*  A pipe of one chunk and outputs of at most two make the child wait for
  the parent, which is what matters of a pipe's size; the proof covers all others.
  Two kinds of fault in one invocation cover a fault behind another.  Command
  lines are those that meet every case of the parser and each way a file, a chip, a
  format, a provider and a key can be right or wrong; stale files are those a
  process of the same pid would have left under the names this one writes.  A chip
  spelled `--help` is among them: it is not a chip, and still spinorc ends well.
- *Deadlock* is checked in every run but `driver`: a routine that has returned
  stutters in an action of its own, so a state without a successor is a routine stuck
  half way.  A driver's process ends, and the one state in which it is stuck is named
  in `Ends`.

**Fairness.**  `PlacementLoop` and `Routing` assume `WF_vars(Next)`: each is a single
sequential routine that nothing interrupts, so it takes a step as long as it has
one.  `Driver` assumes weak fairness of the driver's own steps and, apart from them, of
the child's: the system schedules both processes, `spinorc` and the vendors' services
are taken to answer in the end, and a child that is blocked on a full pipe has no
step to take.  Faults are never forced: no fairness of `PythonKilled`, and a failing
write or process is always one choice among others.  No other module assumes any;
their properties are all safety.

## 5. What is proved

`RoutingProofs` and `PlacementProofs` hold for every chip, every well-formed
program, every layout and every size of the lookahead, `DriverProofs` for every command line,
every file system, every verdict of the compilers, any number of faults, every
size of a pipe and everything a child may write, `CleanupProofs`,
`CleanupWalkProofs` and `PassManagerProofs` for every module of any length on any number
of qubits, any division of the turn and every chip, but for one gate or one family
of chips (below), and `PhononProofs` for every program of any length, nested to any depth,
on a register of any size.  `Walks` holds what the two compilers' loops have in common.  The
assumptions are those of the modules, and TLC evaluates each of them in the runs:

- `GraphAssumption` (a non-empty chip, edges between distinct sites),
  `VirtualAssumption` (a number of qubits), `ProgramAssumption` (operands in range,
  distinct, one or two for a gate) and, for routing, `LayoutAssumption` (the layout
  handed in places every qubit and is one-to-one: rule W2) and `BoundAssumption`;
- for cleanup and the levels `QubitsAssumption` (qubits are numbered from 0),
  `TurnAssumption` and `EighthsAssumption` (a turn has a half, and for decomposition an
  eighth), `InputAssumption` and `RoutedAssumption` (as many operands as the dialect
  builds a gate with, and no angle on an `sx` or `sxdg`: the pass builds them anew
  without one), `ChipsAssumption` (a target of the fields the
  verifier reads, and the rotation gates and entanglers decomposition has a recipe for; it
  throws on any other);
- for Phonon `NamesAssumption` (the elements of the register are different names, and no
  parameter has the name of one), `TurnAssumption`, and `StatementsAssumption` (a statement
  names what there are names for, and a gate is written on as many qubits as it acts on:
  the parser refuses any other);
- for the child process `CapacityAssumption` (a pipe holds at least one chunk) and
  `RunningAssumption` (no exit code means *running*);
- for the drivers `CommandsAssumption` (one of the three binaries, and words that are
  words), `FilesAssumption` (a file that was there before is whole, which is what
  *whole* means of it), `VolumesAssumption` (outputs are counted in chunks) and
  `ChipsAssumption` (no vendor has a chip named `--help`: see below why this matters).

**Routing.**  `IInv` is the conjunction of `TypeOK`, `LayoutInverse`, `HeadsAgree`,
`FrontReady` and `WireFollowsProgram`, all of which but `HeadsAgree` a run checks.  None of the
last four is inductive alone.  That a committed gate is the next one of *each* of
its qubits follows from the front layer holding only ready gates; that a front
gate stays ready when another is committed follows from `HeadsAgree`, for two
gates of the front share no qubit; that a swap moves the histories with the qubits
needs the layout to be two-way.  From `IInv`:

- `LayoutCorrect`, `HeadsCorrect`, `FrontCorrect`, `WiresCorrect`, `TypeCorrect`: its
  parts;
- `FinalPassIsDead`: the final pass finds nothing to emit, since the main loop is
  left only with an empty or a blocked front and refreshes it before;
- `NoGateLeftBehind`: routing that leaves its loop with gates left over has a ready gate
  whose sites have no neighbours: the lowest gate to do is always ready
  (`SomeGateIsReady`, by the well-order of the naturals) and a blocked gate has a
  candidate swap but there (`BlockedWithoutCandidate`).  So where every site has a
  neighbour everything is emitted (`EveryGateEmitted`);
- `CouplingRespected`: an action property, by the shape of each step;
- `RoutingExecutesProgram`: `Routing` implements `CircuitExecution`, with the executed
  gates for `done` and the histories read through the layout; a commit is a step
  of the abstract circuit and all other actions, swaps among them, stutter;
- `SuitedProgramIsNotSwapped`: from `Unmoved`, which says that while no swap was made the
  layout is the one handed in.  A front that is blocked then holds a gate of two qubits
  on sites that are not coupled, which such a program does not have.

**Placement.**  `PInv` says that the layout is two-way and of its type, and that the
last loop has placed every qubit it has passed unless the chip is full.  Every iteration only adds to the layout (`StepsGrow`), which gives
`PlacementIsInjective` and `PlacementNeverMoves`.  `PlacementFillsChip` needs that
a chip with no free site and a qubit left over has fewer sites than the program
has qubits (`FullChipIsTooSmall`): a pigeonhole argument with the cardinality
theorems of the library.  `HeaviestPairIsCoupled` needs a second invariant,
`HeaviestFirst`: until the pair that is ahead of all others is taken nothing is placed,
and from then on it sits on coupled sites.  The order the code sorts pairs by is strict
(`AheadIsStrict`), so that the first pair taken is that one; both its sites are free, so
that the search for the first coupled pair of free sites finds one if the chip has any
(`FirstPairIsCoupled`); and later iterations only add.

**Cleanup and the levels.**  The pass holds operations back, so what it has emitted
is, in the middle of a walk, not what it has read.  `Pending(s, p)` is what is emitted
on a qubit followed by the run of `sx` and the rotation held back for it, and the
invariant (`WalkInv`) is that this is the effect of the ops walked over, that a qubit
never has both held back (`Exclusive`: else the order of the two would be lost), and that
every op emitted is one the pass could read again (`PlainOps`).  One lemma for each thing the walk does
says what becomes of `Pending`: a flush leaves it as it is (`FlushPi2Keeps`, `FlushRzKeeps`,
`FlushEachKeeps`), an op visited extends it as the op itself extends the word of
the qubit (`VisitKeeps`).  Under them are the algebra of words (`TimesAdds`: powers of a
kind add, modulo a turn for rotations; words stay without redundancies), the division
by which `normalizeAngle` is undone (`NormalizedFacts`), and the lemma that stands in for an
induction over a module: what a walk leaves after k ops is what the k-th op makes
of what k - 1 left (`ThroughSteps`, from the existence of such a function), and a claim
about every k is proved at its least counterexample.

- `CleanupKeepsEffect`: the pass does to every qubit what its module does, and returns a
  module it can be given again;
- `WalkIsFaithful`: so it is at any point of the walk, the run's invariant `Faithful`;
- `LevelsKeepEffect`: the run's invariant `EffectKept`, since decomposition emits ops whose
  angles can be read (`DecomposedIsPlain`, recipe by recipe) and every later stage
  is a `Cleaned`.

The effect does not tell whether the loops are right to stop: they compare sizes, and
take a module that has not become shorter for one that Cleanup no longer changes.
They may:

- `CleanupNeverLengthens`.  `Shown(s, p)` is what is emitted on a qubit followed by the
  ops a flush would emit for it now, and `Load(s)` the number of all of these,
  over all qubits (a sum: `Total`).  A flush changes neither (`FlushEveryShows`).  An op visited adds at most one
  to the load, and when it adds one it has only been appended to what its
  qubits show, with its angle normalised (`VisitGrows`); two rotations that meet, an `sx` that meets an
  `sxdg`, a rotation by whole turns add nothing.  So a walk ends with no more ops than it
  read, and with as many only if each was appended to its qubits.
- `UnchangedSizeIsFixedPoint`.  What a walk has shown and holds on a qubit depends on the
  ops of that qubit alone, by their normalised angles (`WalkSeesItsOps`): two walks that are
  `Alike` at a qubit stay so when both visit ops that are one up to whole turns
  (`VisitsAlike`), and ops elsewhere leave it as it is.  Hence Cleanup is local
  (`CleanupIsLocal`), and given the ops it has itself emitted it emits them again,
  in whatever order they are interleaved with those of other qubits.
- `SizeTellsOfChange`: the run's invariant `SizeTellsChange`, since the state in the middle of a walk is
  the one a walk over what was read ends with (`StateInv`).
- `LoopsStopAtFixedPoint`: the run's invariant `StopsAtFixedPoint`.  `LoopInv` adds to
  `PassInv` that `prev` is the size of the module the loop has, and that a loop which has
  stopped short of its bound has a module another Cleanup would not change.  The
  fixed-point criterion asks whether the sizes are equal.  The minimum-point criterion
  asks whether the size has not fallen, which is the same only because it never
  grows.

These exclude `u1q`: the pass does lose its angles (`cleanup_u1q`, section 6), so
that chips that rotate by it, those of Quantinuum, are left out of the theorems because
what they say of the effect is false of them.

What the verifier lets through is another matter: rule W4 asks on which side of a measure
an operation stands, which the effect on a qubit tells only as long as nothing held back is
emitted late.

- `EveryStageIsAccepted`: the run's invariant `ChipAccepts`.  `ChipInv` says that the
  decomposed module and the one the loops have are `Accepted`: passed by the verifier,
  with as many operands as their gates take.  A walk needs more (`Accepting`): the
  verifier lets through what is emitted, *and* would let through, behind it, every op that is
  held back, so that no qubit which is measured has anything pending unless the chip
  allows it.  An op that is not held back flushes its qubits before it is emitted
  (`VisitAccepts`), which is what keeps a rotation from being emitted behind the
  measure it was read before.  A module is accepted op by op (`VerifyOfAppend`, `VerifyOfConcat`: rule W4
  is the only one that looks back).  Decomposition replaces an accepted op by ones on
  its own qubits in gates of the chip, on the same pair (`RecipeIsLawful`).  The theorem holds for
  `u1q` too.  It needs that the chip is `Equipped`, that is has the gates its recipes are
  made of.  The family of Rigetti, OQC, Anyon, TII and QCI is not: their recipe of `cx`
  takes an `sx` (section 6).

**Phonon.**  `Inv` (in `PhononProofs`) is an invariant of the whole pipeline, of three parts:

- `ParserInv`: the module being built is `WellFormed` (every value is made once and before it is
  used, and a gate makes as many values as it takes) and `Numbered` (its values are 1 to
  the number of them, so that those the builder makes next are new);
  the slot table leads to values the module has;
- `OptimizerInv`: the module the passes work on is well-formed, and linear from the type check
  on; a program is rejected exactly when it is not;
- `LowererInv`: the Spinor module is numbered, the value map leads from the values of the
  one module to those of the other, and every frame of an inlined call is `Resumable`: it
  remembers of each parameter of its function what the map held before.

`TypeOK` alone says nothing of the next step: that a pass finds the op which made an
operand needs single assignment; that a call restores the map it found needs the
frames below it.  From `Inv`:

- `PhononTypeCorrect`: the run's `TypeOK`;
- `TypeCheckIsExact`: the checker walks once with two flags a value, and linearity is said of
  all places a value is used at.  `Tracked` ties the two: part way through, a value is flagged
  consumed if it was met, measured if it was met once and measured there, and no error was
  reported exactly if nothing was met twice but a measured qubit at a reset (`OnceMore`: what
  one more place does to this).  A result clears the flags of its value, which is harmless
  only because a value is made before it is used (`TypeCheckIsLinearity`);
- `OptimizerKeepsLinearity`: behind a pass every operand is traced back through the gates that
  were dropped.  An op that is left takes nothing a dropped one takes, or that value would
  have been used twice (`CopiedUse`), and tracing is one to one on all other values.  So two
  uses of a value behind the pass were two uses of one value before it (`CopiedLinear`).  This
  needs that only gates are dropped (`CancelledAreGates`, `MergedAreGates`): were a measure
  dropped, it would have no result to trace.  It holds for programs with blocks too,
  where the passes do change the meaning (section 6).

A loop over a sequence is proved about by what each of its steps keeps (`ThroughKeeps` and its
like in `Walks`), which stands for the induction.

**The child process.**  `Inv` (of `DriverProofs`) adds to the types why nothing is lost: the parent
leaves a stream only when the child is gone *and* the pipe is empty, and a child
that is gone writes no more; so once it waits, both pipes are empty and what it has
read is what was written.  Each guard speaks of one stream; that the first is still
empty when the second ends has to be carried along.  From `Inv`:
`SubmissionTypeCorrect`, and `SubmissionCaptures`: `Submission` implements `Capture`
under the mapping that counts a chunk as written from the moment it is in a pipe.  A
write of the child is a `Write`, its end or its death an `End`, the parent's `waitpid`
the `Give`, and every read a stutter.  It says nothing of whether the parent ever
gets so far: it need not (section 6).

**The drivers.**  `DriverInv` is an invariant of the whole invocation, with one part for
each thing the exit code or a job depends on:

- `FlagsOK`: what the parser of the words keeps: a format is one of five, a positional is
  never `--help`, which the parser would have taken for itself;
- `Control`: which subcommand and binary each place of the code belongs to, that nothing
  was asked of python before its request is made, and that no job exists before
  python runs;
- `DiskInv`: until compile's last write the files of the user are as they were (only
  the temporaries differ), and what is handed to `spinorc` is the program lowered, or the
  user's own file;
- `ArtifactInv`: what is written, and what `run` then submits, is what was `Wanted`;
- `RequestInv`: python is asked for the chip and the text of the command line, and for a
  live submission only if the command line says so;
- `OutInv`: the chunks of stdout on their way are those the child has written so far of
  its script, which ties the count the driver prints to what python said;
- `Inv` of the child process, for `Driver` takes no other steps on it
  (`DriverStepIsSubmission`).

None of them is inductive alone: that the artifact is right needs the file handed to
`spinorc`, which needs the flags; that the temporary `run` submits is its own needs
the artifact and that nothing is written in between; that a job is live only when asked
needs the request.  From `DriverInv`:

- `DriverCaptures`: `Driver` implements `Submission`, hence `Capture`, wherever it asks for
  python and whatever it does around it;
- `ExitCodeTellsOutcome` and `JobsAreAsked`: the two invariants of the run `driver`.  The
  lemmas behind them say what a command line means to `spinorc`: the words compile
  sends have the target and the format where `ArgValue` looks for them, also when one of
  the values is spelled like a flag (`EmitWordsAre`, `CompileTargetIs`, `ReplyIsGood`).

The proof attempt found one execution TLC had not been shown: `photonc compile --target
--help x.pho`.  The parser takes the word after `--target` as its value whatever it looks
like, `spinorc compile -t --help ...` prints its usage and ends with 0
(`spinorc_main.cpp:292`, `:347`), and the driver takes the usage for the artifact.
`TakesHelp` names that case, the run has a command line for it, and
`ExitTellsOutcome` leaves it out of what code 0 promises of compile.  For `run` it does no
harm: no vendor has such a chip (`ChipsAssumption`), so no job is placed.

**Only model-checked**, and why.

- Everything that says *eventually* (`Termination`, `ReturnsPlacement`, `Ends`): liveness is
  beyond the provers.
- The recipes in amplitudes (`RecipesExact`, `CompiledEquivalent`): arithmetic in a finite field,
  of matrices computed by recursion.
- What Phonon's phases do to the meaning of a program (`ModuleSaysSource`, `MeaningKept`,
  `LoweredKept`).  `MeaningKept` and `LoweredKept` do not hold of all programs (section 6), only
  of those the run reads; the meaning of a program whose function calls itself is not
  defined, so that `ModuleSaysSource` has nothing to say of it; and `WordOf` is defined by
  recursion over blocks, calls and environments.
- All of Photon: its expressions, its meaning and its library are computed by recursive
  operators, of which nothing can be proved here.

## 6. What the code does that it says it does not

Five runs are expected to find a violation; each is quoted with the sentence it
contradicts under `findings` in `PROJECT.json`.

| run | what happens |
|---|---|
| `routing_line8_livelock` | swaps that undo each other, chosen for ever; the real pass hangs on the same program |
| `pass_manager_rx_chip` | on ten chips of the registry, with rotation `rz` and no `pi_2` gate, `h`, `x`, `y`, `rx` and `ry` become rotations about z alone |
| `cleanup_u1q` | `u1q` loses both its angles |
| `phonon_loop_cancel` | a gate before a loop cancels with the gate in it |
| `photon_loop` | the body of a loop is lowered once, with the variable at the lower bound: every round works on the first element |

Seen while modelling and not given a run.

In routing and Spinor's passes:

- a gate between two parts of a chip no edge joins is never coupled, and while one of its
  sites has a neighbour there is a swap to choose: routing does not end and no error is
  reported (`Routing.cpp:351` sees only the case without a candidate);
- the bit of a measurement is named by the order in which routing emits it, not by
  that of the program (`Routing.cpp:241`);
- routing swaps across a qubit that was already measured, on chips whose rule W4
  forbids it (`Routing.cpp:252`): the gates 0-1 and 1-2, a measure of 1, then the
  gate 0-2 on a line is such a program;
- the recipe of `cx` on nine of these ten chips uses `sx` (`Decomposition.cpp:202`), which
  their gate sets do not have, so that the verifier refuses the output (W6);
- the recipe of `cx` from `ecr` is not a CX for the matrix `Complex2x2.h` gives `ecr`
  (no chip of the registry has that entangler any more);
- a measure's bit is named by its turn in routing and decomposition and by its qubit
  in cleanup (`Cleanup.cpp:200`), so the names differ between O0 and O1;
- a program placed with the identity layout of the placement cookbook is placed
  otherwise by `Placement::run`;
- `MinimumPointCriterion` compares with the round before, not with the best; with
  the one body that exists sizes never grow, and the two agree.

In Phonon:

- the number of ops of a `then` branch is stored on the `if` and copied by passes that
  drop ops of the branch, so the lowering takes ops behind it for part of it
  (`Lowering.cpp:384`);
- a recursive function is reported by the lowering and inlined all the same
  (`Lowering.cpp:248`: the `break` leaves the inner loop only), without end;
- the body of a function is emitted op by op, so a block inside it is emitted
  twice (`Lowering.cpp:275`);
- the values an `else` branch or a loop of no rounds makes are unmapped for what
  follows; the lowering reports it, the Spinor module stays empty, and
  `fromPhononModule` returns `ok` (`Engine.cpp:58`);
- a `barrier` makes no values but consumes its operands, so a gate behind it is
  refused with E1.

In Photon:

- `photonc` optimizes modules no type check has seen (`photonc_main.cpp:280`): a gate
  before a measurement cancels with the same gate behind it;
- the text it prints leaves angles out, so a rotation that reaches it is
  refused by the Spinor parser;
- it prints both branches of a conditional, the body of a loop once, and no call, the
  calls of `oracle` among them;
- assignments in a block are folded once, in the order they are read, whichever
  branch runs and however often;
- a conditional's predicate never refers to a measurement;
- the indices of `bell_pair` and `teleport` are not checked, and `cx` takes twice the
  same index, of which the type check makes an error only where it runs;
- a measurement in a loop passes the type check, which walks the body once;
- measuring a parameter looks its bits up in a table that has none for it
  and uses the iterator all the same (`Lower.cpp:278`);
- an angle that is a variable is not folded in a rotation;
- the diffusion of `grover` on three qubits and more is no controlled Z of all of them;
- a bit named by `measure` may lie beyond its register's end, which the Spinor parser
  does not look at, and characters its lexer does not know are dropped.

In the drivers:

- `runPython` reads stdout to its end before it reads stderr (`Submit.cpp:153`): a child that
  fills the pipe of stderr first waits for ever, and so does the driver.  The header
  promises to "capture its output"; `Ends` names this state (`Stuck`) and shows there is
  no other;
- `writeFile` does not look at the stream after writing: behind a lost or cut write the
  exit code is 0, and `run` submits what the file then holds, which may be what an
  earlier process of the same pid left (`photonc_main.cpp:70`).  `ExitTellsOutcome` and
  the last part of `SubmitsWhatWasAsked` leave these executions out;
- a target spelled `--help` makes `spinorc` print its usage and end with 0, and `photonc` and
  `phononc` take that for the artifact (section 5);
- a flag that is last and lacks its value is noted as an error, and the next flag is then
  compared with the word past the end (`Flags.cpp:84`);
- the mode and key in the environment win over `--mode` and `--api-key-file`, against
  the docstring (`__main__.py:43`); `--mode local` is an error but for the provider
  `local`; `--cost-cap-usd` is read and never used;
- for an IBM chip `spinorc` emits Qiskit code, whatever format is asked: `photonc run`
  writes that to a `.qasm3` file, and the live adapter reads it as OpenQASM;
- `runProc` joins stderr to stdout (`2>&1`, `photonc_main.cpp:144`), against the comment there:
  warnings of `spinorc` become part of the artifact;
- `--emit phonon` of a `.pho` prints the lowered text, which is Spinor; a `.phonon` file is
  handed to `spinorc`, which reads Spinor only;
- cassettes are chosen by provider and file name only, not by chip or program;
- `spinorc run` returns 0 when a signal ended its python (`spinorc_main.cpp:228`), and leaves
  the script where it is when credentials are missing; the temporary files of
  `photonc` are never deleted; a failed `fork` leaves both pipes open.

## 7. What is not modelled

- *Text*: the lexers, formatting, the four emitters, the reader of OpenQASM, YAML, the
  words of a manifest and its hash, the printing and parsing of the Spinor dialect.
- *Frontends* (`photon/frontends`): they rewrite programs of other languages line by line,
  by patterns on text.  A model would be the patterns themselves; what they
  produce is text for the parser `PhotonLowering` models.
- *What compilers do, in `Driver`*: which programs a compiler refuses, or changes, is a
  constant there; the other models say it of the stages.
- *Windows*: `runPython` as it is on POSIX.
- *The child's own children*: one that outlives it would keep its pipes open.
- *`LocalProvider`* in C++ samples a simulation at random.
- *Amplitudes* of more than two qubits in Spinor (three in Photon's library), and in Phonon
  of any: there equality of
  circuits is commuting of disjoint ops, inverses and rotations of one axis, which is
  finer than equality of unitaries (what it accepts is equal, what it distinguishes
  need not differ).  A measure, a reset and a barrier leave the amplitudes as they
  are, as in the code; that they stay in place is asked separately.
- *Doubles*: angles are exact parts of a turn, scores exact fractions.
- *Phonon*: `while`, assignments, classical values and expressions, bits, explicit
  `return`, nested or repeated definitions, blocks in functions.  Iterations of a
  loop take the same branches.
- *Photon*: real numbers and calls in expressions, comparisons; they fold to nothing, as
  in the code.
- *Chips*: the recipes of `ecr` and `rzz` are defined and in no run; those of `ms` are
  run for everything but amplitudes.
- *Bits*: a measure is an op on its qubit; its bit is in `Routing` and `SpinorParser` only.
- *Stubs*: the resynthesis passes return their module unchanged, and Phonon's
  borrowed passes do so without their adapters.
