--------------------------- MODULE RoutingProofs ---------------------------
(***************************************************************************)
(* Proofs about Routing for every chip, program and layout.                *)
(***************************************************************************)
EXTENDS Routing, WellFoundedInduction, TLAPS

(* Swapping two distinct sites of a two-way layout leaves a two-way layout *)
(* of the same type, in which each qubit sits where its partner sat.       *)
LEMMA SwapKeepsLayout ==
  ASSUME NEW l \in LayoutType, TwoWay(l),
         NEW a \in Phys, NEW b \in Phys, a # b
  PROVE  /\ ApplySwap(l, a, b) \in LayoutType
         /\ TwoWay(ApplySwap(l, a, b))
<1> DEFINE m == ApplySwap(l, a, b)
<1>1. /\ l.v2p \in [Virt -> Phys]
      /\ l.p2v \in [Phys -> Virt \cup {Free}]
  BY DEF LayoutType
<1>2. /\ m.v2p = [v \in Virt |-> IF v = l.p2v[a] THEN b
                                 ELSE IF v = l.p2v[b] THEN a
                                 ELSE l.v2p[v]]
      /\ m.p2v = [l.p2v EXCEPT ![a] = l.p2v[b], ![b] = l.p2v[a]]
      /\ m = [v2p |-> m.v2p, p2v |-> m.p2v]
  BY DEF ApplySwap
<1>3. m.v2p \in [Virt -> Phys]
  BY <1>1, <1>2
<1>4. m.p2v \in [Phys -> Virt \cup {Free}]
  BY <1>1, <1>2
<1>5. m \in LayoutType
  BY <1>2, <1>3, <1>4 DEF LayoutType
<1>6. \A p \in Phys : p # Unplaced
  BY GraphAssumption DEF Phys, Unplaced
<1>7. ASSUME NEW v \in Virt
      PROVE  m.p2v[m.v2p[v]] = v
  <2>1. l.p2v[l.v2p[v]] = v /\ l.v2p[v] \in Phys
    BY <1>1, <1>6 DEF TwoWay
  <2>2. CASE v = l.p2v[a]
    BY <1>1, <1>2, <2>2
  <2>3. CASE v # l.p2v[a] /\ v = l.p2v[b]
    BY <1>1, <1>2, <2>3
  <2>4. CASE v # l.p2v[a] /\ v # l.p2v[b]
    BY <1>1, <1>2, <2>1, <2>4
  <2> QED BY <2>2, <2>3, <2>4
<1>8. ASSUME NEW p \in Phys, m.p2v[p] # Free
      PROVE  m.v2p[m.p2v[p]] = p
  <2>0. Free \notin Virt
    BY VirtualAssumption DEF Virt, Free
  <2>1. CASE p = a
    <3>1. m.p2v[p] = l.p2v[b] /\ l.p2v[b] \in Virt
      BY <1>1, <1>2, <1>8, <2>1
    <3>2. l.v2p[l.p2v[b]] = b
      BY <3>1, <2>0 DEF TwoWay
    <3>3. l.p2v[b] # l.p2v[a]
      BY <3>1, <3>2, <2>0, <1>1 DEF TwoWay
    <3> QED BY <1>2, <3>1, <3>3, <2>1
  <2>2. CASE p = b
    <3>1. m.p2v[p] = l.p2v[a] /\ l.p2v[a] \in Virt
      BY <1>1, <1>2, <1>8, <2>2
    <3> QED BY <1>2, <3>1, <2>2
  <2>3. CASE p # a /\ p # b
    <3>1. m.p2v[p] = l.p2v[p] /\ l.p2v[p] \in Virt
      BY <1>1, <1>2, <1>8, <2>3
    <3>2. l.v2p[l.p2v[p]] = p
      BY <3>1, <2>0 DEF TwoWay
    <3>3. l.p2v[p] # l.p2v[a] /\ l.p2v[p] # l.p2v[b]
      BY <3>1, <3>2, <2>0, <2>3, <1>1 DEF TwoWay
    <3> QED BY <1>2, <3>1, <3>2, <3>3
  <2> QED BY <2>1, <2>2, <2>3
<1>9. TwoWay(m)
  BY <1>7, <1>8 DEF TwoWay
<1> QED BY <1>5, <1>9
-----------------------------------------------------------------------------
(* The operands of a gate of the program are virtual qubits, and a         *)
(* two-qubit gate has its two operands where qs says.                      *)
LEMMA OperandsAreVirtual ==
  ASSUME TypeOK, NEW g \in Gates
  PROVE  /\ g \in Nat
         /\ program[g] \in OpType
         /\ Ops(g) \subseteq Virt
         /\ TwoQ(g) => /\ program[g].qs[1] \in Ops(g)
                      /\ program[g].qs[2] \in Ops(g)
                      /\ program[g].qs[1] # program[g].qs[2]
<1>1. program \in Seq(OpType) /\ WellFormed(program)
  BY ProgramAssumption DEF TypeOK, WellFormed
<1>2. g \in 1 .. Len(program)
  BY DEF Gates
<1>3. g \in Nat /\ program[g] \in OpType
  BY <1>1, <1>2
<1>4. program[g].qs \in Seq(Virt)
  BY <1>3 DEF OpType
<1>5. Ops(g) \subseteq Virt
  BY <1>4 DEF Ops, QubitsOf
<1>6. TwoQ(g) => /\ program[g].qs[1] \in Ops(g)
                /\ program[g].qs[2] \in Ops(g)
  BY <1>4 DEF TwoQ, Ops, QubitsOf
<1>7. TwoQ(g) => program[g].qs[1] # program[g].qs[2]
  BY <1>1, <1>2, <1>4 DEF TwoQ, WellFormed
<1> QED BY <1>3, <1>5, <1>6, <1>7

LEMMA PlacedInitially ==
  ASSUME NEW prog \in Programs, NEW l \in InitialLayouts(prog)
  PROVE  l \in LayoutType /\ TwoWay(l)
BY LayoutAssumption

(* The edges that PickSwap chooses among.                                  *)
LEMMA CandidatesAreEdges ==
  ASSUME NEW e \in Candidates
  PROVE  /\ e[1] \in Phys /\ e[2] \in Phys
         /\ e[1] # e[2]
         /\ Connected(e[1], e[2])
BY GraphAssumption DEF Candidates, Connected

LEMMA TypeCorrectInit == Init => TypeOK
<1> SUFFICES ASSUME Init PROVE TypeOK
  OBVIOUS
<1>1. initialLayout \in LayoutType
  BY PlacedInitially DEF Init
<1>2. program \in Seq(OpType)
  BY ProgramAssumption DEF Init, WellFormed
<1>3. Gates \subseteq Nat
  BY <1>2 DEF Gates
<1>4. wire \in [Phys -> Seq(Gates)] /\ bits \in Seq(Gates)
  BY DEF Init
<1>5. todo \in [Virt -> SUBSET Gates] /\ done \in SUBSET Gates
  BY DEF Init
<1>6. front \in SUBSET Gates /\ scan \in SUBSET Gates
  BY DEF Init
<1>7. program \in Programs /\ initialLayout \in InitialLayouts(program)
      /\ layout \in LayoutType
  BY <1>1 DEF Init
<1>8. progressed \in BOOLEAN
  BY DEF Init
<1>9. pc \in {"drain", "swap", "final", "done"}
  BY DEF Init
<1>10. swapCount \in 0 .. SwapBound
  <2>1. swapCount = 0
    BY DEF Init
  <2> QED BY <2>1, BoundAssumption
<1> QED BY <1>4, <1>5, <1>6, <1>7, <1>8, <1>9, <1>10 DEF TypeOK

LEMMA TypeCorrectNext == TypeOK /\ [Next]_vars => TypeOK'
<1> SUFFICES ASSUME TypeOK, [Next]_vars PROVE TypeOK'
  OBVIOUS
<1> USE DEF TypeOK
<1>1. ASSUME NEW g \in Gates, Commit(g) PROVE TypeOK'
  <2>1. wire' \in [Phys -> Seq(Gates)]
    BY <1>1 DEF Commit, MarkDone
  <2>2. bits' \in Seq(Gates)
    BY <1>1 DEF Commit, MarkDone
  <2> QED BY <1>1, <2>1, <2>2 DEF Commit, MarkDone, input, Gates
<1>2. ASSUME NEW g \in Gates, Skip(g) PROVE TypeOK'
  BY <1>2 DEF Skip, input, output, Gates
<1>3. CASE NextPass
  BY <1>3 DEF NextPass, Refreshed, input, output, Gates
<1>4. CASE Stall
  BY <1>4 DEF Stall, input, output, Gates
<1>5. CASE Drained
  BY <1>5 DEF Drained, EnterFinal, input, output, Gates
<1>6. CASE PickSwap
  <2>1. PICK e \in Candidates : InsertSwap(e[1], e[2])
    BY <1>6 DEF PickSwap
  <2>2. layout' \in LayoutType
    <3>1. layout' = ApplySwap(layout, e[1], e[2]) /\ layout.v2p \in [Virt -> Phys]
          /\ layout.p2v \in [Phys -> Virt \cup {Free}]
      BY <2>1 DEF InsertSwap, LayoutType
    <3> QED BY <3>1, CandidatesAreEdges DEF ApplySwap, LayoutType
  <2>3. wire' \in [Phys -> Seq(Gates)]
    BY <2>1, CandidatesAreEdges DEF InsertSwap
  <2>4. swapCount' \in 0 .. SwapBound
    BY <2>1, BoundAssumption DEF InsertSwap
  <2> QED BY <1>6, <2>2, <2>3, <2>4 DEF PickSwap, input, Gates
<1>7. CASE GiveUp
  BY <1>7 DEF GiveUp, EnterFinal, input, output, Gates
<1>8. CASE Finish
  BY <1>8 DEF Finish, input, output, Gates
<1>9. CASE UNCHANGED vars
  BY <1>9 DEF vars, input, loop, output, Gates
<1> QED BY <1>1, <1>2, <1>3, <1>4, <1>5, <1>6, <1>7, <1>8, <1>9
        DEF Next, Terminated

(* Every field the pass keeps stays of its type.                           *)
THEOREM TypeCorrect == Spec => []TypeOK
BY TypeCorrectInit, TypeCorrectNext, PTL DEF Spec
-----------------------------------------------------------------------------
(* Different virtual qubits sit on different physical qubits.              *)
LEMMA SitesDiffer ==
  ASSUME TypeOK, LayoutInverse, NEW v \in Virt, NEW w \in Virt,
         layout.v2p[v] = layout.v2p[w]
  PROVE  v = w
<1>1. layout.v2p[v] \in Phys /\ layout.v2p[w] \in Phys
  BY DEF TypeOK, LayoutType
<1>2. layout.v2p[v] # Unplaced
  BY <1>1, GraphAssumption DEF Phys, Unplaced
<1> QED BY <1>1, <1>2 DEF LayoutInverse, TwoWay

(* Whichever loop commits a gate, the gate is at the head of all its       *)
(* qubits, so every head moves.                                            *)
LEMMA CommittedWasReady ==
  ASSUME TypeOK, FrontReady, NEW g \in Gates, Commit(g)
  PROVE  /\ IsFront(g)
         /\ todo' = [v \in Virt |-> IF v \in Ops(g) THEN todo[v] \ {g}
                                    ELSE todo[v]]
<1>1. IsFront(g)
  <2>1. CASE pc = "drain"
    <3>1. g \in front
      BY <2>1 DEF Commit, MarkDone, Lowest, FrontReady
    <3> QED BY <3>1 DEF FrontReady
  <2>2. CASE pc = "final"
    BY <2>2 DEF Commit, MarkDone, Executable
  <2> QED BY <2>1, <2>2 DEF Commit, MarkDone
<1>2. \A v \in Ops(g) : Lowest(g, todo[v])
  BY <1>1 DEF IsFront
<1> QED BY <1>1, <1>2 DEF Commit, MarkDone

LEMMA HeadsStay ==
  ASSUME TypeOK, HeadsAgree, FrontReady, NEW g \in Gates, Commit(g)
  PROVE  HeadsAgree'
<1>1. todo' = [v \in Virt |-> IF v \in Ops(g) THEN todo[v] \ {g} ELSE todo[v]]
  BY CommittedWasReady
<1>2. IsFront(g)
  BY CommittedWasReady
<1>3. done' = done \cup {g} /\ program' = program
  BY DEF Commit, MarkDone, input
<1>4. ASSUME NEW v \in Virt
      PROVE  /\ todo'[v] = { h \in Gates \ done' : v \in Ops(h) }
             /\ \A h \in todo'[v], k \in Gates :
                  v \in Ops(k) /\ h < k => k \in todo'[v]
  <2>1. /\ todo[v] = { h \in Gates \ done : v \in Ops(h) }
        /\ \A h \in todo[v], k \in Gates : v \in Ops(k) /\ h < k => k \in todo[v]
    BY DEF HeadsAgree
  <2>2. CASE v \in Ops(g)
    <3>1. todo'[v] = todo[v] \ {g}
      BY <1>1, <2>2
    <3>2. \A h \in todo[v] : g <= h
      BY <1>2, <2>2 DEF IsFront, Lowest
    <3>3. \A h \in Gates : h \in Nat
      BY OperandsAreVirtual
    <3>4. todo[v] \subseteq Gates
      BY <2>1
    <3> QED BY <1>3, <2>1, <3>1, <3>2, <3>3, <3>4
  <2>3. CASE v \notin Ops(g)
    <3>1. todo'[v] = todo[v]
      BY <1>1, <2>3
    <3> QED BY <1>3, <2>1, <2>3, <3>1
  <2> QED BY <2>2, <2>3
<1>5. Gates' = Gates /\ \A h : Ops(h)' = Ops(h)
  BY <1>3 DEF Gates, Ops
<1> QED BY <1>4, <1>5 DEF HeadsAgree

(* Committing g leaves the other ready gates ready: two ready gates share  *)
(* no qubit.                                                               *)
LEMMA ReadyStays ==
  ASSUME TypeOK, FrontReady, NEW g \in Gates, Commit(g),
         NEW h \in Gates, h # g, IsFront(h)
  PROVE  IsFront(h)'
<1>1. todo' = [v \in Virt |-> IF v \in Ops(g) THEN todo[v] \ {g} ELSE todo[v]]
  BY CommittedWasReady
<1>2. IsFront(g)
  BY CommittedWasReady
<1>3. done' = done \cup {g} /\ program' = program
  BY DEF Commit, MarkDone, input
<1>4. ASSUME NEW v \in Ops(h)
      PROVE  Lowest(h, todo'[v])
  <2>1. v \in Virt
    BY OperandsAreVirtual
  <2>2. Lowest(h, todo[v])
    BY DEF IsFront
  <2>3. v \notin Ops(g)
    <3>1. SUFFICES ASSUME v \in Ops(g) PROVE FALSE
      OBVIOUS
    <3>2. Lowest(g, todo[v])
      BY <1>2, <3>1 DEF IsFront
    <3>3. g <= h /\ h <= g /\ g \in Nat /\ h \in Nat
      BY <2>2, <3>2, OperandsAreVirtual DEF Lowest
    <3> QED BY <3>3
  <2> QED BY <1>1, <2>1, <2>2, <2>3
<1>5. h \notin done'
  BY <1>3 DEF IsFront
<1>6. Ops(h)' = Ops(h)
  BY <1>3 DEF Ops
<1> QED BY <1>4, <1>5, <1>6 DEF IsFront, Lowest

LEMMA FrontStaysOnCommit ==
  ASSUME TypeOK, FrontReady, NEW g \in Gates, Commit(g)
  PROVE  FrontReady'
<1>1. /\ front' = front \ {g} /\ scan' = scan \ {g} /\ progressed' = TRUE
      /\ pc' = pc /\ program' = program /\ layout' = layout
  BY DEF Commit, MarkDone, input
<1>2. Gates' = Gates /\ \A h : Local(h)' = Local(h)
  BY <1>1 DEF Gates, Local, LocalIn, TwoQ
<1>3. front' \subseteq { h \in Gates : IsFront(h)' }
  <2>1. \A h \in front' : h \in Gates /\ h # g /\ IsFront(h)
    BY <1>1 DEF FrontReady
  <2> QED BY <2>1, ReadyStays
<1>4. pc' = "drain" => /\ scan' \subseteq front'
                       /\ \A h \in front' \ scan' : ~Local(h)'
  BY <1>1, <1>2 DEF FrontReady
<1>5. pc' # "swap" /\ progressed'
  BY <1>1 DEF Commit, MarkDone
<1> QED BY <1>2, <1>3, <1>4, <1>5 DEF FrontReady

(* What the loops' bookkeeping steps leave alone.                          *)
LEMMA FrontStaysOnBookkeeping ==
  ASSUME TypeOK, FrontReady,
         UNCHANGED <<program, layout, todo, done>>,
         \/ \E g \in Gates : Skip(g)
         \/ NextPass \/ Stall \/ Drained \/ GiveUp \/ Finish
         \/ UNCHANGED vars
  PROVE  FrontReady'
<1>1. /\ Gates' = Gates
      /\ \A h : Local(h)' = Local(h)
      /\ \A h : IsFront(h)' = IsFront(h)
  BY DEF Gates, Local, LocalIn, TwoQ, IsFront, Ops, Lowest
<1> DEFINE ready == { h \in Gates : IsFront(h) }
<1>2. ready' = ready
  BY <1>1
<1>3. ASSUME NEW g \in Gates, Skip(g) PROVE FrontReady'
  <2>1. /\ front' = front /\ scan' = scan \ {g}
        /\ progressed' = progressed /\ pc' = pc
    BY <1>3 DEF Skip
  <2>2. pc = "drain" => ~Local(g)
    BY <1>3 DEF Skip, Executable
  <2>3. pc # "swap"
    BY <1>3 DEF Skip
  <2> QED BY <1>1, <1>2, <2>1, <2>2, <2>3 DEF FrontReady
<1>4. CASE NextPass
  <2>1. pc' = pc /\ pc # "swap" /\ progressed' = FALSE
    BY <1>4 DEF NextPass, Refreshed
  <2>2. pc = "drain" => front' = front \cup ready /\ scan' = front'
    BY <1>4 DEF NextPass, Refreshed
  <2>3. pc # "drain" => front' = front
    BY <1>4 DEF NextPass, Refreshed
  <2>4. front \subseteq ready
    BY DEF FrontReady
  <2> QED BY <1>1, <1>2, <2>1, <2>2, <2>3, <2>4 DEF FrontReady
<1>5. CASE Stall
  <2>1. /\ pc = "drain" /\ scan = {} /\ ~progressed /\ front # {}
        /\ pc' = "swap" /\ front' = front
    BY <1>5 DEF Stall
  <2> QED BY <1>1, <1>2, <2>1 DEF FrontReady
<1>6. CASE Drained \/ GiveUp
  <2>1. pc' = "final" /\ front' = front
    BY <1>6 DEF Drained, GiveUp, EnterFinal
  <2> QED BY <1>1, <1>2, <2>1 DEF FrontReady
<1>7. CASE Finish
  <2>1. pc' = "done" /\ front' = front
    BY <1>7 DEF Finish
  <2> QED BY <1>1, <1>2, <2>1 DEF FrontReady
<1>8. CASE UNCHANGED vars
  <2>1. pc' = pc /\ front' = front /\ scan' = scan /\ progressed' = progressed
    BY <1>8 DEF vars, loop
  <2> QED BY <1>1, <1>2, <2>1 DEF FrontReady
<1> QED BY <1>3, <1>4, <1>5, <1>6, <1>7, <1>8

LEMMA FrontStaysOnSwap ==
  ASSUME TypeOK, FrontReady, PickSwap
  PROVE  FrontReady'
<1>1. /\ pc = "swap" /\ pc' = "drain" /\ scan' = front /\ front' = front
      /\ UNCHANGED <<program, todo, done>>
  BY DEF PickSwap, input
<1>2. Gates' = Gates /\ \A h : IsFront(h)' = IsFront(h)
  BY <1>1 DEF Gates, IsFront, Ops, Lowest
<1> QED BY <1>1, <1>2 DEF FrontReady
-----------------------------------------------------------------------------
(* A commit extends the history of exactly the operands of the gate.       *)
LEMMA CommitExtendsHistory ==
  ASSUME TypeOK, LayoutInverse, NEW g \in Gates, Commit(g), NEW v \in Virt
  PROVE  /\ History(v) \in Seq(Gates)
         /\ History(v)' = IF v \in Ops(g) THEN Append(History(v), g)
                          ELSE History(v)
<1>1. /\ layout' = layout
      /\ wire' = [p \in Phys |-> IF p \in Sites(g) THEN Append(wire[p], g)
                                 ELSE wire[p]]
  BY DEF Commit, MarkDone
<1>2. layout.v2p[v] \in Phys
  BY DEF TypeOK, LayoutType
<1>3. layout.v2p[v] \in Sites(g) <=> v \in Ops(g)
  <2>1. ASSUME layout.v2p[v] \in Sites(g) PROVE v \in Ops(g)
    <3>1. PICK w \in Ops(g) : layout.v2p[v] = layout.v2p[w]
      BY <2>1 DEF Sites
    <3>2. w \in Virt
      BY OperandsAreVirtual
    <3> QED BY <3>1, <3>2, SitesDiffer
  <2> QED BY <2>1 DEF Sites
<1>4. History(v) \in Seq(Gates)
  BY <1>2 DEF TypeOK, History
<1> QED BY <1>1, <1>2, <1>3, <1>4 DEF History

LEMMA WireStaysOnCommit ==
  ASSUME TypeOK, LayoutInverse, HeadsAgree, FrontReady, WireFollowsProgram,
         NEW g \in Gates, Commit(g)
  PROVE  WireFollowsProgram'
<1>1. todo' = [v \in Virt |-> IF v \in Ops(g) THEN todo[v] \ {g} ELSE todo[v]]
  BY CommittedWasReady
<1>2. Gates' = Gates /\ \A h : Ops(h)' = Ops(h)
  BY DEF Commit, MarkDone, input, Gates, Ops
<1> SUFFICES ASSUME NEW v \in Virt
             PROVE  /\ \A i, j \in DOMAIN History(v)' :
                         i < j => History(v)'[i] < History(v)'[j]
                    /\ { History(v)'[i] : i \in DOMAIN History(v)' }
                         = { h \in Gates : v \in Ops(h) } \ todo'[v]
  BY <1>2 DEF WireFollowsProgram
<1> DEFINE w == History(v)
<1>3. /\ \A i, j \in DOMAIN w : i < j => w[i] < w[j]
      /\ { w[i] : i \in DOMAIN w } = { h \in Gates : v \in Ops(h) } \ todo[v]
      /\ w \in Seq(Gates)
  BY CommitExtendsHistory DEF WireFollowsProgram
<1>4. CASE v \notin Ops(g)
  BY <1>1, <1>3, <1>4, CommitExtendsHistory
<1>5. CASE v \in Ops(g)
  <2>1. History(v)' = Append(w, g) /\ todo'[v] = todo[v] \ {g}
    BY <1>1, <1>5, CommitExtendsHistory
  <2>2. g \in todo[v]
    <3>1. IsFront(g)
      BY CommittedWasReady
    <3> QED BY <3>1, <1>5 DEF IsFront, Lowest
  <2>3. \A i \in DOMAIN w : w[i] < g
    <3> SUFFICES ASSUME NEW i \in DOMAIN w PROVE w[i] < g
      OBVIOUS
    <3>1. w[i] \in Gates /\ v \in Ops(w[i]) /\ w[i] \notin todo[v]
      BY <1>3
    <3>2. ~(g < w[i]) /\ g # w[i]
      BY <2>2, <3>1 DEF HeadsAgree
    <3> QED BY <3>1, <3>2, OperandsAreVirtual
  <2>4. /\ DOMAIN Append(w, g) = 1 .. Len(w) + 1
        /\ DOMAIN w = 1 .. Len(w) /\ Len(w) \in Nat
        /\ Append(w, g)[Len(w) + 1] = g
        /\ \A i \in DOMAIN w : Append(w, g)[i] = w[i]
    BY <1>3
  <2>5. \A i, j \in DOMAIN Append(w, g) :
          i < j => Append(w, g)[i] < Append(w, g)[j]
    <3> SUFFICES ASSUME NEW i \in 1 .. Len(w) + 1, NEW j \in 1 .. Len(w) + 1,
                        i < j
                 PROVE  Append(w, g)[i] < Append(w, g)[j]
      BY <2>4
    <3>1. i \in DOMAIN w
      BY <2>4
    <3>2. j \in DOMAIN w \/ j = Len(w) + 1
      BY <2>4
    <3> QED BY <1>3, <2>3, <2>4, <3>1, <3>2
  <2>6. { Append(w, g)[i] : i \in DOMAIN Append(w, g) }
          = { w[i] : i \in DOMAIN w } \cup {g}
    <3>1. DOMAIN Append(w, g) = DOMAIN w \cup {Len(w) + 1}
      BY <2>4
    <3> QED BY <2>4, <3>1
  <2>7. { h \in Gates : v \in Ops(h) } \ todo'[v]
          = ({ h \in Gates : v \in Ops(h) } \ todo[v]) \cup {g}
    BY <1>5, <2>1
  <2> QED BY <1>3, <2>1, <2>5, <2>6, <2>7
<1> QED BY <1>4, <1>5

(* A swap moves every history with its qubit.                              *)
LEMMA SwapKeepsHistory ==
  ASSUME TypeOK, LayoutInverse, PickSwap
  PROVE  /\ LayoutInverse'
         /\ \A v \in Virt : History(v)' = History(v)
<1>1. PICK e \in Candidates : InsertSwap(e[1], e[2])
  BY DEF PickSwap
<1> DEFINE a == e[1]
           b == e[2]
<1>2. a \in Phys /\ b \in Phys /\ a # b
  BY CandidatesAreEdges
<1>3. /\ layout' = ApplySwap(layout, a, b)
      /\ wire' = [wire EXCEPT ![a] = wire[b], ![b] = wire[a]]
  BY <1>1 DEF InsertSwap
<1>4. LayoutInverse'
  <2>1. layout \in LayoutType /\ TwoWay(layout)
    BY DEF TypeOK, LayoutInverse
  <2>2. TwoWay(ApplySwap(layout, a, b))
    BY <1>2, <2>1, SwapKeepsLayout
  <2> QED BY <1>3, <2>2 DEF LayoutInverse
<1>5. ASSUME NEW v \in Virt PROVE History(v)' = History(v)
  <2>1. layout'.v2p[v] = IF v = layout.p2v[a] THEN b
                         ELSE IF v = layout.p2v[b] THEN a
                         ELSE layout.v2p[v]
    BY <1>3 DEF ApplySwap
  <2>2. /\ layout.v2p[v] \in Phys
        /\ layout.p2v[layout.v2p[v]] = v
    <3>1. layout.v2p[v] \in Phys
      BY DEF TypeOK, LayoutType
    <3>2. layout.v2p[v] # Unplaced
      BY <3>1, GraphAssumption DEF Phys, Unplaced
    <3> QED BY <3>1, <3>2 DEF LayoutInverse, TwoWay
  <2>3. \A p \in Phys : layout.p2v[p] = v => layout.v2p[v] = p
    <3>1. v # Free
      BY VirtualAssumption DEF Virt, Free
    <3> QED BY <3>1 DEF LayoutInverse, TwoWay
  <2>4. DOMAIN wire = Phys
    BY DEF TypeOK
  <2>5. CASE v = layout.p2v[a]
    <3>1. layout'.v2p[v] = b /\ layout.v2p[v] = a
      BY <1>2, <2>1, <2>3, <2>5
    <3> QED BY <1>2, <1>3, <2>4, <3>1 DEF History
  <2>6. CASE v # layout.p2v[a] /\ v = layout.p2v[b]
    <3>1. layout'.v2p[v] = a /\ layout.v2p[v] = b
      BY <1>2, <2>1, <2>3, <2>6
    <3> QED BY <1>2, <1>3, <2>4, <3>1 DEF History
  <2>7. CASE v # layout.p2v[a] /\ v # layout.p2v[b]
    <3>1. /\ layout'.v2p[v] = layout.v2p[v]
          /\ layout.v2p[v] # a /\ layout.v2p[v] # b
      BY <2>1, <2>2, <2>7
    <3> QED BY <1>2, <1>3, <2>2, <2>4, <3>1 DEF History
  <2> QED BY <2>5, <2>6, <2>7
<1> QED BY <1>4, <1>5
-----------------------------------------------------------------------------
(* Steps that emit nothing and move nothing.                               *)
Bookkeeping ==
  /\ UNCHANGED <<input, layout, todo, done, output>>
  /\ \/ \E g \in Gates : Skip(g)
     \/ NextPass \/ Stall \/ Drained \/ GiveUp \/ Finish
     \/ UNCHANGED vars

LEMMA StepKinds ==
  ASSUME [Next]_vars
  PROVE  (\E g \in Gates : Commit(g)) \/ PickSwap \/ Bookkeeping
BY DEF Next, Skip, NextPass, Stall, Drained, GiveUp, Finish, EnterFinal,
       Terminated, vars, Bookkeeping

LEMMA InitIInv == Init => IInv
<1> SUFFICES ASSUME Init, TypeOK PROVE IInv
  BY TypeCorrectInit
<1>1. LayoutInverse
  BY PlacedInitially DEF Init, LayoutInverse
<1>2. HeadsAgree
  BY OperandsAreVirtual DEF Init, HeadsAgree
<1>3. FrontReady
  BY DEF Init, FrontReady
<1>4. WireFollowsProgram
  <2> SUFFICES ASSUME NEW v \in Virt
               PROVE  /\ History(v) = << >>
                      /\ todo[v] = { g \in Gates : v \in Ops(g) }
    BY DEF WireFollowsProgram
  <2>1. layout.v2p[v] \in Phys
    BY DEF TypeOK, LayoutType
  <2> QED BY <2>1 DEF Init, History
<1> QED BY <1>1, <1>2, <1>3, <1>4 DEF IInv

LEMMA NextIInv == IInv /\ [Next]_vars => IInv'
<1> SUFFICES ASSUME IInv, [Next]_vars PROVE IInv'
  OBVIOUS
<1>0. TypeOK'
  BY TypeCorrectNext DEF IInv
<1> USE DEF IInv
<1>1. ASSUME NEW g \in Gates, Commit(g) PROVE IInv'
  <2>1. LayoutInverse'
    BY <1>1 DEF Commit, MarkDone, LayoutInverse
  <2> QED BY <1>0, <1>1, <2>1, HeadsStay, FrontStaysOnCommit, WireStaysOnCommit
<1>2. CASE PickSwap
  <2>1. UNCHANGED <<program, todo, done>>
    BY <1>2 DEF PickSwap, input
  <2>2. Gates' = Gates /\ \A h : Ops(h)' = Ops(h)
    BY <2>1 DEF Gates, Ops
  <2>3. HeadsAgree'
    BY <2>1, <2>2 DEF HeadsAgree
  <2>4. WireFollowsProgram'
    BY <1>2, <2>1, <2>2, SwapKeepsHistory DEF WireFollowsProgram
  <2> QED BY <1>0, <1>2, <2>3, <2>4, SwapKeepsHistory, FrontStaysOnSwap
<1>3. CASE Bookkeeping
  <2>1. UNCHANGED <<program, layout, todo, done, wire>>
    BY <1>3 DEF Bookkeeping, input, output
  <2>2. Gates' = Gates /\ \A h : Ops(h)' = Ops(h)
    BY <2>1 DEF Gates, Ops
  <2>3. LayoutInverse' /\ HeadsAgree'
    BY <2>1, <2>2 DEF LayoutInverse, HeadsAgree
  <2>4. WireFollowsProgram'
    BY <2>1, <2>2 DEF WireFollowsProgram, History
  <2>5. FrontReady'
    BY <1>3, <2>1, FrontStaysOnBookkeeping DEF Bookkeeping
  <2> QED BY <1>0, <2>3, <2>4, <2>5
<1> QED BY <1>1, <1>2, <1>3, StepKinds

THEOREM IInvHolds == Spec => []IInv
BY InitIInv, NextIInv, PTL DEF Spec

(* The layout stays a bijection between the virtual qubits and the sites   *)
(* they occupy, for any number of swaps (struct Layout, apply_swap).       *)
THEOREM LayoutCorrect == Spec => []LayoutInverse
<1>1. IInv => LayoutInverse
  BY DEF IInv
<1> QED BY <1>1, IInvHolds, PTL

(* The output of commitGate and insertSwap, read off the hardware, is the  *)
(* program: the gates emitted for each qubit are its first ones, in order. *)
THEOREM WiresCorrect == Spec => []WireFollowsProgram
<1>1. IInv => WireFollowsProgram
  BY DEF IInv
<1> QED BY <1>1, IInvHolds, PTL

(* The done flags agree with the head pointers.                            *)
THEOREM HeadsCorrect == Spec => []HeadsAgree
<1>1. IInv => HeadsAgree
  BY DEF IInv
<1> QED BY <1>1, IInvHolds, PTL

(* The front set that isFront and refreshFront maintain is never stale.    *)
THEOREM FrontCorrect == Spec => []FrontReady
<1>1. IInv => FrontReady
  BY DEF IInv
<1> QED BY <1>1, IInvHolds, PTL
-----------------------------------------------------------------------------
LEMMA IdleStays ==
  ASSUME IInv, FinalPassIdle, [Next]_vars
  PROVE  FinalPassIdle'
<1> USE DEF IInv
<1>1. ASSUME NEW g \in Gates, Commit(g) PROVE FinalPassIdle'
  <2>1. IsFront(g) /\ Local(g)
    BY <1>1, CommittedWasReady DEF Commit, MarkDone, Executable
  <2>2. pc # "final" /\ pc' = pc
    BY <1>1, <2>1 DEF FinalPassIdle, Commit, MarkDone
  <2> QED BY <2>2 DEF FinalPassIdle
<1>2. CASE PickSwap
  <2>1. pc' # "final"
    BY <1>2 DEF PickSwap
  <2> QED BY <2>1 DEF FinalPassIdle
<1>3. CASE Bookkeeping
  <2>1. UNCHANGED <<program, layout, todo, done>>
    BY <1>3 DEF Bookkeeping, input
  <2>2. /\ Gates' = Gates
        /\ \A g : (IsFront(g) /\ Local(g))' = (IsFront(g) /\ Local(g))
    BY <2>1 DEF Gates, Local, LocalIn, TwoQ, IsFront, Ops, Lowest
  <2>3. CASE Drained
    <3>1. { g \in Gates : IsFront(g) } = {}
      BY <2>3 DEF Drained, FrontReady
    <3> QED BY <2>2, <3>1 DEF FinalPassIdle
  <2>4. CASE GiveUp
    <3>1. \A g \in Gates : IsFront(g) => ~Local(g)
      BY <2>4 DEF GiveUp, FrontReady
    <3> QED BY <2>2, <3>1 DEF FinalPassIdle
  <2>5. CASE ~Drained /\ ~GiveUp
    <3>1. pc' = "final" => pc = "final"
      BY <1>3, <2>5 DEF Bookkeeping, Skip, NextPass, Stall, Finish, vars, loop
    <3> QED BY <2>2, <3>1 DEF FinalPassIdle
  <2> QED BY <2>3, <2>4, <2>5
<1> QED BY <1>1, <1>2, <1>3, StepKinds

(* The loop after the main loop of Routing::run is dead code: it never     *)
(* finds an op that isFront accepts and that sits on a coupled pair.       *)
THEOREM FinalPassIsDead == Spec => []FinalPassIdle
<1>1. Init => FinalPassIdle
  BY DEF Init, FinalPassIdle
<1> QED BY <1>1, IdleStays, IInvHolds, PTL DEF Spec
-----------------------------------------------------------------------------
(* A program the given layout suits has been routed without a move so far. *)
Unmoved ==
  (\A g \in Gates : LocalIn(initialLayout, g)) =>
     layout = initialLayout /\ swapCount = 0

LEMMA UnmovedStays ==
  ASSUME IInv, Unmoved, [Next]_vars
  PROVE  Unmoved'
<1> USE DEF IInv
<1>1. UNCHANGED <<program, initialLayout>>
  BY StepKinds DEF Commit, PickSwap, Bookkeeping, input
<1>2. /\ Gates' = Gates
      /\ \A g : LocalIn(initialLayout, g)' = LocalIn(initialLayout, g)
  BY <1>1 DEF Gates, LocalIn, TwoQ
<1>3. CASE PickSwap
  <2>1. PICK g \in front : ~Local(g)
    BY <1>3 DEF PickSwap, FrontReady
  <2>2. g \in Gates
    BY <2>1 DEF TypeOK
  <2>3. ~\A h \in Gates : LocalIn(initialLayout, h)
    BY <2>1, <2>2 DEF Unmoved, Local
  <2> QED BY <1>2, <2>3 DEF Unmoved
<1>4. CASE ~PickSwap
  <2>1. UNCHANGED <<layout, swapCount>>
    BY <1>4, StepKinds DEF Commit, Bookkeeping, Skip, NextPass, Stall,
       Drained, GiveUp, EnterFinal, Finish, vars
  <2> QED BY <1>1, <1>2, <2>1 DEF Unmoved
<1> QED BY <1>3, <1>4

(* The main loop of Routing::run drains before it considers a SWAP: a      *)
(* program whose pairs the given layout already couples gets none.         *)
THEOREM SuitedProgramIsNotSwapped == Spec => []NoNeedlessSwap
<1>1. Init => Unmoved
  BY DEF Init, Unmoved
<1>2. Unmoved => NoNeedlessSwap
  BY DEF Unmoved, NoNeedlessSwap
<1>3. IInv /\ Unmoved /\ [Next]_vars => Unmoved'
  BY UnmovedStays
<1> QED BY <1>1, <1>2, <1>3, IInvHolds, PTL DEF Spec
-----------------------------------------------------------------------------
(* As long as a gate is missing some gate is ready: the lowest one is.     *)
LEMMA SomeGateIsReady ==
  ASSUME TypeOK, HeadsAgree, done # Gates
  PROVE  \E g \in Gates : IsFront(g)
<1>1. Gates \ done # {} /\ Gates \ done \subseteq Nat
  BY OperandsAreVirtual DEF TypeOK
<1>2. PICK g \in Gates \ done : \A h \in Gates \ done : g <= h
  <2> DEFINE less == OpToRel(<, Nat)
  <2>1. \A m, n \in Nat : m < n => <<m, n>> \in less
    BY DEF OpToRel
  <2>2. IsWellFoundedOn(less, Nat)
    BY NatLessThanWellFounded
  <2> HIDE DEF less
  <2>3. PICK g \in Gates \ done : \A h \in Gates \ done : <<h, g>> \notin less
    BY <1>1, <2>2, WFMin
  <2>4. ASSUME NEW h \in Gates \ done PROVE g <= h
    <3>1. g \in Nat /\ h \in Nat
      BY <1>1
    <3>2. ~(h < g)
      BY <2>1, <2>3, <3>1
    <3> QED BY <3>1, <3>2
  <2> QED BY <2>4
<1>3. ASSUME NEW v \in Ops(g) PROVE Lowest(g, todo[v])
  <2>1. v \in Virt
    BY OperandsAreVirtual
  <2>2. todo[v] = { h \in Gates \ done : v \in Ops(h) }
    BY <2>1 DEF HeadsAgree
  <2> QED BY <1>2, <2>2 DEF Lowest
<1> QED BY <1>2, <1>3 DEF IsFront

(* A blocked gate without a SWAP next to it sits on isolated qubits.       *)
LEMMA BlockedWithoutCandidate ==
  ASSUME TypeOK, Candidates = {},
         NEW g \in front, ~Local(g)
  PROVE  Stranded(g)
<1>1. TwoQ(g) /\ g \in Gates
  BY DEF Local, LocalIn, TypeOK
<1>2. Ops(g) \subseteq Virt
  BY <1>1, OperandsAreVirtual
<1>3. Sites(g) \subseteq Phys
  BY <1>2 DEF TypeOK, LayoutType, Sites
<1>4. g \in Blocked
  BY <1>1 DEF Blocked
<1>5. ASSUME NEW p \in Sites(g), NEW q \in Phys, Connected(p, q)
      PROVE  FALSE
  <2>1. p \in Phys /\ p \in Int /\ q \in Int /\ p # q
    BY <1>3, <1>5, GraphAssumption DEF Phys, Connected
  <2>2. Connected(q, p)
    BY <1>5 DEF Connected
  <2>3. CASE p < q
    <3>1. <<p, q>> \in Candidates
      BY <1>4, <1>5, <2>1, <2>3 DEF Candidates
    <3> QED BY <3>1
  <2>4. CASE q < p
    <3>1. <<q, p>> \in Candidates
      BY <1>4, <1>5, <2>1, <2>2, <2>4 DEF Candidates
    <3> QED BY <3>1
  <2> QED BY <2>1, <2>3, <2>4
<1> QED BY <1>1, <1>5 DEF Stranded, Neighbours

LEMMA CompleteStays ==
  ASSUME IInv, Complete, FinalPassIdle, [Next]_vars
  PROVE  Complete'
<1> USE DEF IInv
<1>1. ASSUME NEW g \in Gates, Commit(g) PROVE Complete'
  <2>1. IsFront(g) /\ Local(g)
    BY <1>1, CommittedWasReady DEF Commit, MarkDone, Executable
  <2>2. pc \notin {"final", "done"} /\ pc' = pc
    BY <1>1, <2>1 DEF FinalPassIdle, Commit, MarkDone
  <2> QED BY <2>2 DEF Complete
<1>2. CASE PickSwap
  <2>1. pc' = "drain"
    BY <1>2 DEF PickSwap
  <2> QED BY <2>1 DEF Complete
<1>3. CASE Bookkeeping
  <2>1. UNCHANGED <<program, layout, todo, done>>
    BY <1>3 DEF Bookkeeping, input
  <2>2. /\ Gates' = Gates
        /\ \A g : IsFront(g)' = IsFront(g) /\ Stranded(g)' = Stranded(g)
    BY <2>1 DEF Gates, TwoQ, IsFront, Ops, Lowest, Stranded, Sites
  <2>3. CASE Drained
    <3>1. ~\E g \in Gates : IsFront(g)
      BY <2>3 DEF Drained, FrontReady
    <3> QED BY <2>1, <2>2, <3>1, SomeGateIsReady DEF Complete
  <2>4. CASE GiveUp
    <3>1. PICK g \in front : ~Local(g)
      BY <2>4 DEF GiveUp, FrontReady
    <3>2. g \in Gates /\ IsFront(g)
      BY <2>4, <3>1 DEF GiveUp, FrontReady
    <3>3. Stranded(g)
      BY <2>4, <3>1, BlockedWithoutCandidate DEF GiveUp
    <3> QED BY <2>2, <3>2, <3>3 DEF Complete
  <2>5. CASE ~Drained /\ ~GiveUp
    <3>1. pc' \in {"final", "done"} => pc \in {"final", "done"}
      BY <1>3, <2>5 DEF Bookkeeping, Skip, NextPass, Stall, Finish, vars, loop
    <3> QED BY <2>1, <2>2, <3>1 DEF Complete
  <2> QED BY <2>3, <2>4, <2>5
<1> QED BY <1>1, <1>2, <1>3, StepKinds

(* The pass leaves gates behind only where a ready gate is on qubits       *)
(* without neighbours: the early break has no other cause.                 *)
THEOREM NoGateLeftBehind == Spec => []Complete
<1>1. Init => Complete
  BY DEF Init, Complete
<1>2. IInv /\ Complete /\ FinalPassIdle /\ [Next]_vars => Complete'
  BY CompleteStays
<1> QED BY <1>1, <1>2, IInvHolds, FinalPassIsDead, PTL DEF Spec

(* Where every physical qubit has a neighbour the pass emits every gate.   *)
THEOREM EveryGateEmitted ==
  ASSUME \A p \in Phys : Neighbours(p) # {}
  PROVE  Spec => [](pc \in {"final", "done"} => done = Gates)
<1>1. TypeOK /\ Complete => (pc \in {"final", "done"} => done = Gates)
  <2> SUFFICES ASSUME TypeOK, NEW g \in Gates, Stranded(g) PROVE FALSE
    BY DEF Complete
  <2>1. program[g].qs[1] \in Ops(g) /\ Ops(g) \subseteq Virt
    BY OperandsAreVirtual DEF Stranded
  <2>2. layout.v2p[program[g].qs[1]] \in Phys
    BY <2>1 DEF TypeOK, LayoutType
  <2>3. layout.v2p[program[g].qs[1]] \in Sites(g)
    BY <2>1 DEF Sites
  <2> QED BY <2>2, <2>3 DEF Stranded
<1>2. IInv => TypeOK
  BY DEF IInv
<1> QED BY <1>1, <1>2, IInvHolds, NoGateLeftBehind, PTL
-----------------------------------------------------------------------------
(* What a commit emits on two qubits lands on the coupled pair where their *)
(* states are, and a swap is on an edge of the chip.                       *)
LEMMA StepsAreCoupled ==
  ASSUME IInv, [Next]_vars
  PROVE  EmitsOnCoupledPair \/ UNCHANGED vars
<1> USE DEF IInv
<1>1. ASSUME NEW g \in Gates, Commit(g) PROVE EmitsOnCoupledPair
  <2>1. /\ layout' = layout /\ done' = done \cup {g}
        /\ wire' = [p \in Phys |-> IF p \in Sites(g) THEN Append(wire[p], g)
                                   ELSE wire[p]]
        /\ Local(g)
    BY <1>1 DEF Commit, MarkDone, Executable
  <2>2. ASSUME TwoQ(g)
        PROVE  \E a, b \in Phys : /\ Connected(a, b)
                                  /\ wire'[a] = Append(wire[a], g)
                                  /\ wire'[b] = Append(wire[b], g)
    <3> DEFINE a == layout.v2p[program[g].qs[1]]
               b == layout.v2p[program[g].qs[2]]
    <3>1. Connected(a, b)
      BY <2>1, <2>2 DEF Local, LocalIn
    <3>2. /\ program[g].qs[1] \in Ops(g) /\ program[g].qs[2] \in Ops(g)
          /\ Ops(g) \subseteq Virt
      BY <2>2, OperandsAreVirtual
    <3>3. a \in Phys /\ b \in Phys /\ a \in Sites(g) /\ b \in Sites(g)
      BY <3>2 DEF Sites, TypeOK, LayoutType
    <3> QED BY <2>1, <3>1, <3>3
  <2> QED BY <2>1, <2>2 DEF EmitsOnCoupledPair
<1>2. CASE PickSwap
  <2>1. PICK e \in Candidates : InsertSwap(e[1], e[2])
    BY <1>2 DEF PickSwap
  <2>2. /\ layout' = ApplySwap(layout, e[1], e[2])
        /\ done' = done
    BY <1>2, <2>1 DEF InsertSwap, PickSwap
  <2> QED BY <2>2, CandidatesAreEdges DEF EmitsOnCoupledPair
<1>3. CASE Bookkeeping
  BY <1>3 DEF Bookkeeping, EmitsOnCoupledPair
<1> QED BY <1>1, <1>2, <1>3, StepKinds

(* Routing respects the coupling map (rule W3), judged by where the states *)
(* of the operands are and not by what the layout says.                    *)
THEOREM CouplingRespected == Spec => TwoQOnCoupledPair
BY IInvHolds, StepsAreCoupled, PTL DEF Spec, TwoQOnCoupledPair
-----------------------------------------------------------------------------
LEMMA InitRefines == Init => Circuit!Init
<1> SUFFICES ASSUME Init PROVE Circuit!Init
  OBVIOUS
<1>1. TypeOK
  BY TypeCorrectInit
<1>2. \A v \in Virt : History(v) = << >>
  BY <1>1 DEF TypeOK, LayoutType, Init, History
<1> QED BY <1>2 DEF Init, Circuit!Init

LEMMA NextRefines ==
  ASSUME IInv, [Next]_vars
  PROVE  Circuit!Next \/ UNCHANGED Circuit!vars
<1> USE DEF IInv
<1> DEFINE history == [v \in Virt |-> History(v)]
<1>1. ASSUME NEW g \in Gates, Commit(g) PROVE Circuit!Next
  <2>1. IsFront(g)
    BY <1>1, CommittedWasReady
  <2>2. \A h : Circuit!Ops(h) = Ops(h)
    BY DEF Circuit!Ops, Ops, QubitsOf
  <2>3. ASSUME NEW h \in Gates, h < g, NEW v \in Ops(h) \cap Ops(g)
        PROVE  h \in done
    <3>1. v \in Virt
      BY <2>3, OperandsAreVirtual
    <3>2. \A k \in todo[v] : g <= k
      BY <2>1, <2>3 DEF IsFront, Lowest
    <3>3. h \notin todo[v]
      BY <2>3, <3>2, OperandsAreVirtual
    <3> QED BY <2>3, <3>1, <3>3 DEF HeadsAgree
  <2>4. history' = [v \in Virt |-> IF v \in Ops(g) THEN Append(history[v], g)
                                   ELSE history[v]]
    BY <1>1, CommitExtendsHistory
  <2>5. g \notin done /\ done' = done \cup {g} /\ program' = program
    BY <1>1, <2>1 DEF IsFront, Commit, MarkDone, input
  <2>6. Circuit!Execute(g)
    BY <2>2, <2>3, <2>4, <2>5 DEF Circuit!Execute, Circuit!Gates, Gates
  <2> QED BY <2>6 DEF Circuit!Next, Circuit!Gates, Gates
<1>2. CASE PickSwap
  <2>1. \A v \in Virt : History(v)' = History(v)
    BY <1>2, SwapKeepsHistory
  <2>2. UNCHANGED <<program, done>>
    BY <1>2 DEF PickSwap, input
  <2> QED BY <2>1, <2>2 DEF Circuit!vars
<1>3. CASE Bookkeeping
  <2>1. UNCHANGED <<program, done, layout, wire>>
    BY <1>3 DEF Bookkeeping, input, output
  <2> QED BY <2>1 DEF Circuit!vars, History
<1> QED BY <1>1, <1>2, <1>3, StepKinds

(* Routing implements the circuit: whatever swaps it inserts, what reaches *)
(* the states of the program's qubits is an execution of the program.      *)
THEOREM RoutingExecutesProgram == Spec => ExecutesProgram
BY InitRefines, NextRefines, IInvHolds, PTL
   DEF Spec, ExecutesProgram, Circuit!Spec
=============================================================================
