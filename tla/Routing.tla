------------------------------ MODULE Routing ------------------------------
(***************************************************************************)
(* The forward SABRE pass, Routing::run.  It walks a placed program, emits *)
(* each op on the physical qubits that host its operands, and inserts SWAPs*)
(* until every two-qubit op sits on a coupled pair.                        *)
(*                                                                         *)
(* One step is one iteration of one of the routine's loops: a visit of a   *)
(* gate by the drain pass or by the final pass, the end of a pass, or the  *)
(* choice and insertion of one SWAP.                                       *)
(*                                                                         *)
(* The module being emitted is kept as what it does to the qubits: wire[p] *)
(* is the sequence of gates applied, so far, to the quantum state that now *)
(* sits on physical qubit p.  An emitted gate extends the wires of its     *)
(* operands and an emitted swap exchanges two wires; phys[p], the live SSA *)
(* value of the output, is the end of wire[p].                             *)
(***************************************************************************)
EXTENDS Layout, FiniteSetsExt

CONSTANTS
  Programs,         \* the input programs: sequences of ops
  InitialLayouts(_),\* the layouts a program may be handed in
  ExtendedSetSize,  \* kExtendedSetSize
  SwapBound         \* swapCount is counted up to this bound

ASSUME ProgramAssumption == \A prog \in Programs : WellFormed(prog)

(* A placed layout: no virtual qubit is left out, rule W2 of the verifier. *)
ASSUME LayoutAssumption ==
  \A prog \in Programs :
    \A l \in InitialLayouts(prog) : l \in LayoutType /\ TwoWay(l)

ASSUME BoundAssumption == ExtendedSetSize \in Nat /\ SwapBound \in Nat

VARIABLES
  program,      \* the input, constant during the pass
  initialLayout,\* R.initialLayout, constant during the pass
  layout,       \* L
  todo,         \* todo[v]: the gates on v from dag[v][head[v]] on
  done,         \* gates already emitted
  front,        \* the front layer
  scan,         \* what the current pass has still to visit, lowest first
  progressed,   \* the current pass emitted a gate
  pc,           \* "drain", "swap", "final" or "done"
  wire,         \* effect of the emitted module, see above
  bits,         \* measures emitted; the k-th one is named c<k-1>
  swapCount

loop   == <<front, scan, progressed, pc>>
output == <<wire, bits>>
input  == <<program, initialLayout>>
vars   == <<input, layout, todo, done, loop, output, swapCount>>
-----------------------------------------------------------------------------
Gates  == 1 .. Len(program)
Ops(g) == QubitsOf(program[g])
TwoQ(g) == Len(program[g].qs) = 2
Sites(g) == { layout.v2p[v] : v \in Ops(g) }

Lowest(g, S) == g \in S /\ \A h \in S : g <= h

(* isFront: g is the next gate of each of its qubits.                      *)
IsFront(g) == g \notin done /\ \A v \in Ops(g) : Lowest(g, todo[v])

(* Slips: any connected region will do; coupling has a direction.          *)
LocalIfReachable(l, g) ==
  TwoQ(g) => Distance[l.v2p[program[g].qs[1]]][l.v2p[program[g].qs[2]]]
               # Unreachable

LocalIfUpward(g) ==
  TwoQ(g) => <<layout.v2p[program[g].qs[1]],
               layout.v2p[program[g].qs[2]]>> \in Edges

(* A gate that is not two-qubit, or whose operands are on a coupled pair.  *)
LocalIn(l, g) ==
  TwoQ(g) => Connected(l.v2p[program[g].qs[1]], l.v2p[program[g].qs[2]])

Local(g) == LocalIn(layout, g)

(* The drain pass visits members of the front layer and tests only Local;  *)
(* the final pass visits every gate and tests isFront first.               *)
Executable(g) == Local(g) /\ (pc = "final" => g \notin done /\ IsFront(g))
-----------------------------------------------------------------------------
(* Choice of a SWAP.                                                       *)

Blocked == { g \in front : TwoQ(g) }

(* A slip: both endpoints must host an operand.                            *)
CandidatesBetweenOperands ==
  { e \in Phys \X Phys :
      /\ e[1] < e[2]
      /\ Connected(e[1], e[2])
      /\ \E g, h \in Blocked : e[1] \in Sites(g) /\ e[2] \in Sites(h) }

(* Edges with an endpoint that hosts an operand of a blocked gate.         *)
Candidates ==
  { e \in Phys \X Phys :
      /\ e[1] < e[2]
      /\ Connected(e[1], e[2])
      /\ \E g \in Blocked : e[1] \in Sites(g) \/ e[2] \in Sites(g) }

(* The look-ahead: two-qubit gates behind the front, scanned qubit by      *)
(* qubit and, on a qubit, in program order; at most ExtendedSetSize.       *)
Upcoming == { g \in Gates \ (done \cup front) : TwoQ(g) }

ScannedBefore(g, h) ==
  \/ Min(Ops(g)) < Min(Ops(h))
  \/ Min(Ops(g)) = Min(Ops(h)) /\ g < h

Extended ==
  { g \in Upcoming :
      Cardinality({ h \in Upcoming : ScannedBefore(h, g) }) < ExtendedSetSize }

DistanceIn(l, g) ==
  Distance[l.v2p[program[g].qs[1]]][l.v2p[program[g].qs[2]]]

Total(l, G) == MapThenSumSet(LAMBDA g : DistanceIn(l, g), G)

(* A slip: the distances are those before the swap.                        *)
ScoreBeforeSwap(e) == Total(layout, Blocked)

(* scoreSwap, times 2 * |Blocked| * |finite part of Extended|: the mean    *)
(* distance of the blocked gates after the swap plus half the mean of the  *)
(* look-ahead.  A swap moves no qubit between components, so the sizes are *)
(* those of every candidate, and the scores compare as the code's doubles  *)
(* do; an unreachable blocked gate scores the same for all candidates.     *)
Score(e) ==
  LET l == ApplySwap(layout, e[1], e[2])
      ahead == { g \in Extended : DistanceIn(l, g) # Unreachable }
  IN  IF \E g \in Blocked : DistanceIn(l, g) = Unreachable
      THEN Unreachable
      ELSE 2 * Max({1, Cardinality(ahead)}) * Total(l, Blocked)
             + Cardinality(Blocked) * Total(l, ahead)

LexLess(e, f) == e[1] < f[1] \/ (e[1] = f[1] /\ e[2] < f[2])

(* The lowest score wins, and among equals the lowest pair.                *)
Best(e) ==
  LET score == [f \in Candidates |-> Score(f)]
  IN  \A f \in Candidates \ {e} :
        \/ score[e] < score[f]
        \/ score[e] = score[f] /\ LexLess(e, f)
-----------------------------------------------------------------------------
Init ==
  /\ program \in Programs
  /\ initialLayout \in InitialLayouts(program)
  /\ layout = initialLayout
  /\ todo = [v \in Virt |-> { g \in Gates : v \in Ops(g) }]
  /\ done = {}
  /\ front = { g \in Gates : IsFront(g) }
  /\ scan = front
  /\ progressed = FALSE
  /\ pc = "drain"
  /\ wire = [p \in Phys |-> << >>]
  /\ bits = << >>
  /\ swapCount = 0

(* done[g] and the head pointers at the end of commitGate.                 *)
MarkDone(g) ==
  /\ done' = done \cup {g}
  /\ todo' = [v \in Virt |-> IF v \in Ops(g) /\ Lowest(g, todo[v])
                             THEN todo[v] \ {g} ELSE todo[v]]

(* commitGate, and the removal of the gate from the front layer.           *)
Commit(g) ==
  /\ pc \in {"drain", "final"}
  /\ Lowest(g, scan)
  /\ Executable(g)
  /\ wire' = [p \in Phys |-> IF p \in Sites(g) THEN Append(wire[p], g)
                             ELSE wire[p]]
  /\ bits' = IF program[g].kind = "measure" THEN Append(bits, g) ELSE bits
  /\ MarkDone(g)
  /\ front' = front \ {g}
  /\ scan' = scan \ {g}
  /\ progressed' = TRUE
  /\ UNCHANGED <<input, layout, pc, swapCount>>

(* The pass leaves the gate where it is.                                   *)
Skip(g) ==
  /\ pc \in {"drain", "final"}
  /\ Lowest(g, scan)
  /\ ~Executable(g)
  /\ scan' = scan \ {g}
  /\ UNCHANGED <<input, layout, todo, done, front, progressed, pc,
                 output, swapCount>>

(* A slip: the front layer is not refreshed.                               *)
StaleFront == front

(* refreshFront.                                                           *)
Refreshed == front \cup { g \in Gates : IsFront(g) }

(* A pass that emitted something starts over, the drain pass on a          *)
(* refreshed front layer.                                                  *)
NextPass ==
  /\ pc \in {"drain", "final"}
  /\ scan = {}
  /\ progressed
  /\ front' = IF pc = "drain" THEN Refreshed ELSE front
  /\ scan' = IF pc = "drain" THEN front' ELSE Gates
  /\ progressed' = FALSE
  /\ UNCHANGED <<input, layout, todo, done, pc, output, swapCount>>

(* Nothing left to drain but the front layer holds blocked gates.          *)
Stall ==
  /\ pc = "drain"
  /\ scan = {} /\ ~progressed /\ front # {}
  /\ pc' = "swap"
  /\ UNCHANGED <<input, layout, todo, done, front, scan, progressed,
                 output, swapCount>>

(* The main loop ends; the final pass begins.                              *)
EnterFinal ==
  /\ pc' = "final"
  /\ scan' = Gates
  /\ progressed' = FALSE
  /\ UNCHANGED <<input, layout, todo, done, front, output, swapCount>>

Drained == pc = "drain" /\ scan = {} /\ ~progressed /\ front = {} /\ EnterFinal

(* No physical qubit of a blocked gate has a neighbour.                    *)
GiveUp == pc = "swap" /\ Candidates = {} /\ EnterFinal

(* A slip: the live values stay where they were.                           *)
InsertSwapInLayout(a, b) ==
  /\ layout' = ApplySwap(layout, a, b)
  /\ UNCHANGED <<wire, swapCount>>

(* insertSwap on the best candidate; the main loop goes on.                *)
InsertSwap(a, b) ==
  /\ wire' = [wire EXCEPT ![a] = wire[b], ![b] = wire[a]]
  /\ layout' = ApplySwap(layout, a, b)
  /\ swapCount' = IF swapCount < SwapBound THEN swapCount + 1 ELSE swapCount

PickSwap ==
  /\ pc = "swap"
  /\ \E e \in Candidates :
       /\ Best(e)
       /\ InsertSwap(e[1], e[2])
  /\ pc' = "drain"
  /\ scan' = front
  /\ progressed' = FALSE
  /\ UNCHANGED <<input, todo, done, front, bits>>

Finish ==
  /\ pc = "final"
  /\ scan = {} /\ ~progressed
  /\ pc' = "done"
  /\ UNCHANGED <<input, layout, todo, done, front, scan, progressed,
                 output, swapCount>>

Terminated == pc = "done" /\ UNCHANGED vars

Next ==
  \/ \E g \in Gates : Commit(g)
  \/ \E g \in Gates : Skip(g)
  \/ NextPass
  \/ Stall
  \/ Drained
  \/ PickSwap
  \/ GiveUp
  \/ Finish
  \/ Terminated

(* The pass is one sequential routine that nothing interrupts.             *)
Spec == Init /\ [][Next]_vars /\ WF_vars(Next)
-----------------------------------------------------------------------------
TypeOK ==
  /\ program \in Programs
  /\ initialLayout \in InitialLayouts(program)
  /\ layout \in LayoutType
  /\ todo \in [Virt -> SUBSET Gates]
  /\ done \in SUBSET Gates
  /\ front \in SUBSET Gates
  /\ scan \in SUBSET Gates
  /\ progressed \in BOOLEAN
  /\ pc \in {"drain", "swap", "final", "done"}
  /\ wire \in [Phys -> Seq(Gates)]
  /\ bits \in Seq(Gates)
  /\ swapCount \in 0 .. SwapBound

(* The two directions of the layout agree, whatever swaps were applied.    *)
LayoutInverse == TwoWay(layout)

(* What the emitted module has applied to the state of v, judged by the    *)
(* layout.                                                                 *)
History(v) == wire[layout.v2p[v]]

(* On the physical qubit the layout names for v, the emitted module has    *)
(* applied exactly the gates of v that are no longer to do, in program     *)
(* order: swaps move the state of v and the layout follows it.             *)
WireFollowsProgram ==
  \A v \in Virt :
    /\ \A i, j \in DOMAIN History(v) : i < j => History(v)[i] < History(v)[j]
    /\ { History(v)[i] : i \in DOMAIN History(v) }
         = { g \in Gates : v \in Ops(g) } \ todo[v]

(* A gate is emitted on all its qubits or on none, and never before an     *)
(* earlier gate on one of them: the done flags and the per-qubit head      *)
(* pointers, kept separately, always agree.                                *)
HeadsAgree ==
  \A v \in Virt :
    /\ todo[v] = { g \in Gates \ done : v \in Ops(g) }
    /\ \A g \in todo[v], h \in Gates : v \in Ops(h) /\ g < h => h \in todo[v]

(* The front layer is never stale.  It holds only gates that are ready;    *)
(* what a drain pass has left behind is blocked; and when a SWAP is chosen *)
(* the layer holds every ready gate, at least one, and none is executable. *)
FrontReady ==
  LET ready == { g \in Gates : IsFront(g) }
  IN  /\ front \subseteq ready
      /\ pc = "drain" => /\ scan \subseteq front
                         /\ \A g \in front \ scan : ~Local(g)
                         /\ ~progressed => front = ready
      /\ pc = "swap" => /\ front = ready /\ front # {}
                        /\ \A g \in front : ~Local(g)

(* The final pass, written for "remaining single-qubit / measure / reset / *)
(* barrier ops not yet scheduled", never finds a gate to emit.             *)
FinalPassIdle ==
  pc = "final" => \A g \in Gates : ~(IsFront(g) /\ Local(g))

(* A blocked gate no swap can help.                                        *)
Stranded(g) == TwoQ(g) /\ \A p \in Sites(g) : Neighbours(p) = {}

(* If the main loop ends with gates left over, a gate that is ready is     *)
(* stranded: the pass gives up for no other reason.                        *)
Complete ==
  pc \in {"final", "done"} /\ done # Gates =>
    \E g \in Gates : IsFront(g) /\ Stranded(g)

(* The inductive invariant behind the theorems of RoutingProofs.           *)
IInv ==
  TypeOK /\ LayoutInverse /\ HeadsAgree /\ FrontReady /\ WireFollowsProgram

(* A program the given layout already suits gets no SWAP.                  *)
NoNeedlessSwap ==
  (\A g \in Gates : LocalIn(initialLayout, g)) => swapCount = 0

(* Whatever the pass emits on two qubits, gates and swaps, is on a coupled *)
(* pair, judged by where the quantum states really are.                    *)
EmitsOnCoupledPair ==
  /\ \A g \in done' \ done :
       TwoQ(g) => \E a, b \in Phys : /\ Connected(a, b)
                                     /\ wire'[a] = Append(wire[a], g)
                                     /\ wire'[b] = Append(wire[b], g)
  /\ layout' # layout =>
       \E a, b \in Phys : /\ Connected(a, b)
                          /\ layout' = ApplySwap(layout, a, b)

TwoQOnCoupledPair == [][EmitsOnCoupledPair]_vars

(* The routed module executes the program: the effect on the qubit that    *)
(* hosts v is the history of v, and swaps are stuttering steps.            *)
Circuit ==
  INSTANCE CircuitExecution WITH
    executed <- done,
    history  <- [v \in Virt |-> History(v)]

ExecutesProgram == Circuit!Spec

(* Routing ends.                                                           *)
Termination == <>(pc = "done")
=============================================================================
