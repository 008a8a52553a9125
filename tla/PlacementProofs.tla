-------------------------- MODULE PlacementProofs --------------------------
(***************************************************************************)
(* Proofs about PlacementLoop for every chip and every program, also for   *)
(* programs with more qubits than the chip.                                *)
(***************************************************************************)
EXTENDS PlacementLoop, FiniteSetTheorems, WellFoundedInduction, TLAPS

LEMMA NatSetHasLowest ==
  ASSUME NEW S \in SUBSET Nat, S # {}
  PROVE  \E m \in S : \A n \in S : m <= n
<1> DEFINE less == OpToRel(<, Nat)
<1>1. \A m, n \in Nat : m < n => <<m, n>> \in less
  BY DEF OpToRel
<1>2. IsWellFoundedOn(less, Nat)
  BY NatLessThanWellFounded
<1> HIDE DEF less
<1>3. PICK m \in S : \A n \in S : <<n, m>> \notin less
  BY <1>2, WFMin
<1>4. ASSUME NEW n \in S PROVE m <= n
  <2>1. m \in Nat /\ n \in Nat /\ ~(n < m)
    BY <1>1, <1>3
  <2> QED BY <2>1
<1> QED BY <1>4

(* The site the loops of Placement::run stop at is one they looked for.    *)
LEMMA LowestSiteIsOne ==
  ASSUME NEW S \in SUBSET Phys, S # {}
  PROVE  LowestSite(S) \in S
<1>1. S \in SUBSET Nat
  BY GraphAssumption DEF Phys
<1> QED BY <1>1, NatSetHasLowest DEF LowestSite

LEMMA LowestPairIsOne ==
  ASSUME NEW S \in SUBSET (Phys \X Phys), S # {}
  PROVE  LowestPair(S) \in S
<1>1. Phys \subseteq Nat
  BY GraphAssumption DEF Phys
<1> DEFINE firsts == { e[1] : e \in S }
<1>2. firsts \subseteq Nat /\ firsts # {}
  BY <1>1
<1>3. PICK a \in firsts : \A c \in firsts : a <= c
  BY <1>2, NatSetHasLowest
<1> DEFINE seconds == { e[2] : e \in { d \in S : d[1] = a } }
<1>4. seconds \subseteq Nat /\ seconds # {}
  BY <1>1, <1>3
<1>5. PICK b \in seconds : \A c \in seconds : b <= c
  BY <1>4, NatSetHasLowest
<1>6. PICK e \in S : e[1] = a /\ e[2] = b
  BY <1>5
<1>7. ASSUME NEW f \in S PROVE e = f \/ LexLess(e, f)
  <2>1. f = <<f[1], f[2]>> /\ e = <<e[1], e[2]>>
    BY <1>6
  <2>2. /\ a \in Nat /\ b \in Nat /\ f[1] \in Nat /\ f[2] \in Nat
        /\ a <= f[1]
    BY <1>1, <1>2, <1>3, <1>4, <1>5
  <2>3. f[1] = a => b <= f[2]
    BY <1>5
  <2> QED BY <1>6, <2>1, <2>2, <2>3 DEF LexLess
<1> QED BY <1>6, <1>7 DEF LowestPair

(* place(v, p), called for an unplaced v and a free p only, keeps the two  *)
(* directions of the layout in agreement and moves no other qubit.         *)
LEMMA PlaceAtKeeps ==
  ASSUME NEW l \in PartialLayout, TwoWay(l),
         NEW v \in Virt, l.v2p[v] = Unplaced,
         NEW p \in FreeSites(l)
  PROVE  /\ PlaceAt(l, v, p) \in PartialLayout
         /\ TwoWay(PlaceAt(l, v, p))
         /\ \A u \in Virt : l.v2p[u] # Unplaced =>
                              PlaceAt(l, v, p).v2p[u] = l.v2p[u]
         /\ PlaceAt(l, v, p).v2p[v] = p
         /\ FreeSites(PlaceAt(l, v, p)) = FreeSites(l) \ {p}
<1> DEFINE m == PlaceAt(l, v, p)
<1>1. /\ l.v2p \in [Virt -> Phys \cup {Unplaced}]
      /\ l.p2v \in [Phys -> Virt \cup {Free}]
  BY DEF PartialLayout
<1>2. p \in Phys /\ l.p2v[p] = Free
  BY DEF FreeSites
<1>3. v # Free /\ p # Unplaced
  BY <1>2, VirtualAssumption, GraphAssumption DEF Virt, Phys, Free, Unplaced
<1>4. /\ m.v2p = [l.v2p EXCEPT ![v] = p]
      /\ m.p2v = [l.p2v EXCEPT ![p] = v]
  BY DEF PlaceAt
<1>5. m \in PartialLayout
  BY <1>1, <1>2 DEF PlaceAt, PartialLayout
<1>6. \A u \in Virt : u # v => m.v2p[u] = l.v2p[u]
  BY <1>1, <1>4
<1>7. \A q \in Phys : q # p => m.p2v[q] = l.p2v[q]
  BY <1>1, <1>4
<1>8. m.v2p[v] = p /\ m.p2v[p] = v
  BY <1>1, <1>2, <1>4
<1>9. ASSUME NEW u \in Virt, m.v2p[u] # Unplaced PROVE m.p2v[m.v2p[u]] = u
  <2>1. CASE u = v
    BY <1>8, <2>1
  <2>2. CASE u # v
    <3>1. m.v2p[u] = l.v2p[u] /\ l.v2p[u] \in Phys /\ l.p2v[l.v2p[u]] = u
      BY <1>1, <1>6, <1>9, <2>2 DEF TwoWay
    <3>2. l.v2p[u] # p
      BY <1>2, <3>1, VirtualAssumption DEF Virt, Free
    <3> QED BY <1>7, <3>1, <3>2
  <2> QED BY <2>1, <2>2
<1>10. ASSUME NEW q \in Phys, m.p2v[q] # Free PROVE m.v2p[m.p2v[q]] = q
  <2>1. CASE q = p
    BY <1>8, <2>1
  <2>2. CASE q # p
    <3>1. m.p2v[q] = l.p2v[q] /\ l.p2v[q] \in Virt /\ l.v2p[l.p2v[q]] = q
      BY <1>1, <1>7, <1>10, <2>2 DEF TwoWay
    <3>2. l.p2v[q] # v
      BY <3>1, GraphAssumption DEF Phys, Unplaced
    <3> QED BY <1>6, <3>1, <3>2
  <2> QED BY <2>1, <2>2
<1>11. TwoWay(m)
  BY <1>9, <1>10 DEF TwoWay
<1>12. FreeSites(m) = FreeSites(l) \ {p}
  BY <1>3, <1>7, <1>8 DEF FreeSites
<1> QED BY <1>5, <1>6, <1>8, <1>11, <1>12
-----------------------------------------------------------------------------
(* l grows into m: no placed qubit moves, and both are sound.              *)
Grows(l, m) ==
  /\ m \in PartialLayout
  /\ TwoWay(m)
  /\ \A u \in Virt : l.v2p[u] # Unplaced => m.v2p[u] = l.v2p[u]
  /\ FreeSites(m) \subseteq FreeSites(l)

LEMMA PlaceAmongGrows ==
  ASSUME NEW l \in PartialLayout, TwoWay(l),
         NEW v \in Virt, l.v2p[v] = Unplaced,
         NEW preferred \in SUBSET FreeSites(l)
  PROVE  /\ Grows(l, PlaceAmong(l, v, preferred, FreeSites(l)))
         /\ \/ PlaceAmong(l, v, preferred, FreeSites(l)).v2p[v] # Unplaced
            \/ FreeSites(l) = {}
<1> DEFINE free == FreeSites(l)
           m == PlaceAmong(l, v, preferred, free)
<1>1. free \subseteq Phys /\ preferred \subseteq Phys
  BY DEF FreeSites
<1>2. ASSUME NEW p \in free, m = PlaceAt(l, v, p)
      PROVE  Grows(l, m) /\ m.v2p[v] # Unplaced
  <2>1. p # Unplaced
    BY <1>1, GraphAssumption DEF Phys, Unplaced
  <2> QED BY <1>2, <2>1, PlaceAtKeeps DEF Grows
<1>3. CASE preferred # {}
  <2>1. LowestSite(preferred) \in free
    BY <1>1, <1>3, LowestSiteIsOne
  <2>2. m = PlaceAt(l, v, LowestSite(preferred))
    BY <1>3 DEF PlaceAmong
  <2> QED BY <1>2, <2>1, <2>2
<1>4. CASE preferred = {} /\ free # {}
  <2>1. LowestSite(free) \in free
    BY <1>1, <1>4, LowestSiteIsOne
  <2>2. m = PlaceAt(l, v, LowestSite(free))
    BY <1>4 DEF PlaceAmong
  <2> QED BY <1>2, <2>1, <2>2
<1>5. CASE preferred = {} /\ free = {}
  <2>1. m = l
    BY <1>5 DEF PlaceAmong
  <2> QED BY <1>5, <2>1 DEF Grows
<1> QED BY <1>3, <1>4, <1>5

(* An iteration over a pair of different qubits.                           *)
LEMMA SettlePairGrows ==
  ASSUME NEW l \in PartialLayout, TwoWay(l),
         NEW e \in Virt \X Virt, e[1] # e[2]
  PROVE  Grows(l, SettlePair(l, e))
<1> DEFINE missing == { v \in {e[1], e[2]} : l.v2p[v] = Unplaced }
           sites == IF CoupledFreePairs(l) # {} THEN CoupledFreePairs(l)
                    ELSE FreePairs(l)
<1>1. CASE missing = {}
  <2>1. SettlePair(l, e) = l
    BY <1>1 DEF SettlePair
  <2> QED BY <2>1 DEF Grows
<1>2. CASE missing = {e[1], e[2]} /\ sites = {}
  <2>1. SettlePair(l, e) = l
    BY <1>2 DEF SettlePair
  <2> QED BY <2>1 DEF Grows
<1>3. CASE missing = {e[1], e[2]} /\ sites # {}
  <2> DEFINE a == LowestPair(sites)[1]
             b == LowestPair(sites)[2]
             m == PlaceAt(l, e[1], a)
  <2>1. sites \subseteq FreeSites(l) \X FreeSites(l)
        /\ \A s \in sites : s[1] < s[2]
    BY DEF FreePairs, CoupledFreePairs
  <2>2. FreeSites(l) \subseteq Phys
    BY DEF FreeSites
  <2>3. LowestPair(sites) \in sites
    BY <1>3, <2>1, <2>2, LowestPairIsOne
  <2>4. a \in FreeSites(l) /\ b \in FreeSites(l) /\ a # b
    <3>1. a < b /\ a \in Int /\ b \in Int
      BY <2>1, <2>2, <2>3, GraphAssumption DEF Phys
    <3> QED BY <2>1, <2>3, <3>1
  <2>5. SettlePair(l, e) = PlaceAt(m, e[2], b)
    BY <1>3 DEF SettlePair
  <2>6. /\ m \in PartialLayout /\ TwoWay(m)
        /\ \A u \in Virt : l.v2p[u] # Unplaced => m.v2p[u] = l.v2p[u]
        /\ FreeSites(m) = FreeSites(l) \ {a}
    BY <1>3, <2>4, PlaceAtKeeps
  <2>7. m.v2p[e[2]] = Unplaced
    BY <1>3 DEF PlaceAt, PartialLayout
  <2>8. b \in FreeSites(m)
    BY <2>4, <2>6
  <2>9. /\ PlaceAt(m, e[2], b) \in PartialLayout
        /\ TwoWay(PlaceAt(m, e[2], b))
        /\ \A u \in Virt : m.v2p[u] # Unplaced =>
                             PlaceAt(m, e[2], b).v2p[u] = m.v2p[u]
        /\ FreeSites(PlaceAt(m, e[2], b)) = FreeSites(m) \ {b}
    BY <2>6, <2>7, <2>8, PlaceAtKeeps
  <2> QED BY <2>5, <2>6, <2>9 DEF Grows
<1>4. CASE missing # {} /\ missing # {e[1], e[2]}
  <2> DEFINE near(v) == FreeSites(l) \cap
                          Neighbours(l.v2p[CHOOSE u \in {e[1], e[2]} : u # v])
             v == CHOOSE u \in missing : TRUE
  <2>1. v \in Virt /\ l.v2p[v] = Unplaced
    BY <1>4
  <2>2. SettlePair(l, e) = PlaceAmong(l, v, near(v), FreeSites(l))
    BY <1>4 DEF SettlePair
  <2> QED BY <2>1, <2>2, PlaceAmongGrows
<1> QED BY <1>1, <1>2, <1>3, <1>4

LEMMA SettleRestGrows ==
  ASSUME NEW l \in PartialLayout, TwoWay(l), NEW v \in Virt
  PROVE  /\ Grows(l, SettleRest(l, v))
         /\ SettleRest(l, v).v2p[v] # Unplaced \/ FreeSites(l) = {}
BY PlaceAmongGrows DEF SettleRest, Grows
-----------------------------------------------------------------------------
(* The last loop never passes a qubit by while a site is free.             *)
RestSettled ==
  \/ \A v \in Virt : v < rest => layout.v2p[v] # Unplaced
  \/ FreeSites(layout) = {}

PInv == TypeOK /\ Injective /\ RestSettled

LEMMA InitPInv == Init => PInv
<1> SUFFICES ASSUME Init PROVE PInv
  OBVIOUS
<1>1. TypeOK
  BY VirtualAssumption DEF Init, TypeOK, EmptyLayout, PartialLayout
<1>2. Injective
  BY DEF Init, Injective, EmptyLayout, TwoWay
<1>3. RestSettled
  BY VirtualAssumption DEF Init, RestSettled, Virt
<1> QED BY <1>1, <1>2, <1>3 DEF PInv

(* Both loops only ever add to the layout.                                 *)
LEMMA StepsGrow ==
  ASSUME PInv, Settle \/ PlaceRest
  PROVE  Grows(layout, layout')
<1>1. layout \in PartialLayout /\ TwoWay(layout)
  BY DEF PInv, TypeOK, Injective
<1>2. CASE Settle
  <2>1. PICK e \in pairs : layout' = SettlePair(layout, e)
    BY <1>2 DEF Settle
  <2>2. e \in Virt \X Virt /\ e[1] # e[2]
    <3>1. e \in Virt \X Virt /\ e[1] < e[2]
      BY <2>1 DEF PInv, TypeOK, Interactions
    <3>2. e[1] \in Int /\ e[2] \in Int
      BY <3>1 DEF Virt
    <3> QED BY <3>1, <3>2
  <2> QED BY <1>1, <2>1, <2>2, SettlePairGrows
<1>3. CASE PlaceRest
  <2>1. rest \in Virt /\ layout' = SettleRest(layout, rest)
    BY <1>3, VirtualAssumption DEF PlaceRest, PInv, TypeOK, Virt
  <2> QED BY <1>1, <2>1, SettleRestGrows
<1> QED BY <1>2, <1>3

LEMMA NextPInv == PInv /\ [Next]_vars => PInv'
<1> SUFFICES ASSUME PInv, [Next]_vars PROVE PInv'
  OBVIOUS
<1>1. CASE Settle \/ PlaceRest
  <2>1. Grows(layout, layout')
    BY <1>1, StepsGrow
  <2>2. Injective'
    BY <2>1 DEF Grows, Injective
  <2>3. TypeOK'
    <3>1. layout' \in PartialLayout
      BY <2>1 DEF Grows
    <3>2. program' = program /\ pairs' \subseteq pairs
      BY <1>1 DEF Settle, PlaceRest
    <3>3. rest' \in 0 .. NumVirtual
      BY <1>1, VirtualAssumption DEF Settle, PlaceRest, PInv, TypeOK
    <3> QED BY <3>1, <3>2, <3>3 DEF PInv, TypeOK
  <2>4. RestSettled'
    <3>1. CASE FreeSites(layout) = {}
      BY <2>1, <3>1 DEF Grows, RestSettled
    <3>2. CASE FreeSites(layout) # {} /\ Settle
      BY <2>1, <3>2 DEF Settle, Grows, RestSettled, PInv
    <3>3. CASE FreeSites(layout) # {} /\ PlaceRest
      <4>1. rest \in Virt /\ layout' = SettleRest(layout, rest) /\ rest' = rest + 1
        BY <3>3, VirtualAssumption DEF PlaceRest, PInv, TypeOK, Virt
      <4>2. layout'.v2p[rest] # Unplaced
        BY <3>3, <4>1, SettleRestGrows DEF PInv, TypeOK, Injective
      <4>3. ASSUME NEW v \in Virt, v < rest' PROVE layout'.v2p[v] # Unplaced
        <5>1. v = rest \/ v < rest
          BY <4>1, <4>3 DEF Virt
        <5> QED BY <2>1, <3>3, <4>2, <5>1 DEF Grows, RestSettled, PInv
      <4> QED BY <4>3 DEF RestSettled
    <3> QED BY <1>1, <3>1, <3>2, <3>3
  <2> QED BY <2>2, <2>3, <2>4 DEF PInv
<1>2. CASE UNCHANGED vars
  BY <1>2 DEF vars, PInv, TypeOK, Injective, RestSettled
<1> QED BY <1>1, <1>2 DEF Next

(* The layout Placement::run builds is one-to-one at every point, whatever *)
(* the chip's coupling and also when the program does not fit on it.       *)
THEOREM PlacementIsInjective == Spec => []Injective
<1>1. PInv => Injective
  BY DEF PInv
<1> QED BY <1>1, InitPInv, NextPInv, PTL DEF Spec

(* Whatever order the pairs come in, the loops of Placement::run keep each *)
(* of their variables to its type: a layout that maps to sites there are.  *)
THEOREM PlacementTypeCorrect == Spec => []TypeOK
<1>1. PInv => TypeOK
  BY DEF PInv
<1> QED BY <1>1, InitPInv, NextPInv, PTL DEF Spec

(* No iteration moves a qubit that an earlier one placed.                  *)
THEOREM PlacementNeverMoves == Spec => PlacedStays
<1>1. PInv /\ [Next]_vars =>
        \/ \A v \in Virt : layout.v2p[v] # Unplaced =>
                             layout'.v2p[v] = layout.v2p[v]
        \/ UNCHANGED vars
  BY StepsGrow DEF Next, Grows
<1> QED BY <1>1, InitPInv, NextPInv, PTL DEF Spec, PlacedStays

LEMMA SizeOfRange ==
  ASSUME NEW n \in Nat
  PROVE  IsFiniteSet(0 .. n - 1) /\ Cardinality(0 .. n - 1) = n
<1>1. 0 \in Int /\ n - 1 \in Int
  OBVIOUS
<1> DEFINE m == n - 1
<1>2. m = n - 1
  OBVIOUS
<1> HIDE DEF m
<1>3. /\ IsFiniteSet(0 .. m)
      /\ Cardinality(0 .. m) = IF 0 > m THEN 0 ELSE m - 0 + 1
  BY <1>1, <1>2, FS_Interval
<1> QED BY <1>2, <1>3

(* If every site is taken and a qubit has none, there are fewer sites than *)
(* qubits: each site hosts a different one of the others.                  *)
LEMMA FullChipIsTooSmall ==
  ASSUME TypeOK, Injective, FreeSites(layout) = {},
         NEW v \in Virt, layout.v2p[v] = Unplaced
  PROVE  NumVirtual > NumPhys
<1> SUFFICES ASSUME NumVirtual <= NumPhys PROVE FALSE
  BY VirtualAssumption, GraphAssumption
<1> DEFINE others == Virt \ {v}
           host == layout.p2v
<1>1. /\ IsFiniteSet(Virt) /\ Cardinality(Virt) = NumVirtual
      /\ IsFiniteSet(Phys) /\ Cardinality(Phys) = NumPhys
  <2>1. NumVirtual \in Nat /\ NumPhys \in Nat
    BY VirtualAssumption, GraphAssumption
  <2>2. IsFiniteSet(Virt) /\ Cardinality(Virt) = NumVirtual
    BY <2>1, SizeOfRange DEF Virt
  <2>3. IsFiniteSet(Phys) /\ Cardinality(Phys) = NumPhys
    BY <2>1, SizeOfRange DEF Phys
  <2> QED BY <2>2, <2>3
<1>2. IsFiniteSet(others) /\ Cardinality(others) < Cardinality(Phys)
  <2>1. /\ IsFiniteSet(others)
        /\ Cardinality(others) = IF v \in Virt THEN Cardinality(Virt) - 1
                                 ELSE Cardinality(Virt)
    BY <1>1, FS_RemoveElement
  <2> QED BY <1>1, <2>1, VirtualAssumption, GraphAssumption
<1>3. ASSUME NEW p \in Phys PROVE host[p] \in others /\ layout.v2p[host[p]] = p
  <2>1. host[p] \in Virt /\ host[p] # Free
    BY DEF TypeOK, PartialLayout, FreeSites
  <2>2. layout.v2p[host[p]] = p /\ p # Unplaced
    BY <2>1, GraphAssumption DEF Injective, TwoWay, Phys, Unplaced
  <2> QED BY <2>1, <2>2
<1>4. host \in [Phys -> others]
  BY <1>3 DEF TypeOK, PartialLayout
<1>5. PICK p, q \in Phys : p # q /\ host[p] = host[q]
  BY <1>1, <1>2, <1>4, FS_PigeonHole
<1> QED BY <1>3, <1>5

(* A program that fits on the chip leaves the pass fully placed, rule W2,  *)
(* which is all that Routing asks of the layout it is handed.              *)
THEOREM PlacementFillsChip == Spec => []FillsChip
<1>1. PInv => FillsChip
  <2> SUFFICES ASSUME PInv, Returned, NEW v \in Virt, layout.v2p[v] = Unplaced
               PROVE  NumVirtual > NumPhys /\ FreeSites(layout) = {}
    BY DEF FillsChip
  <2>1. v < rest
    BY VirtualAssumption DEF Returned, Virt
  <2>2. FreeSites(layout) = {}
    BY <2>1 DEF PInv, RestSettled
  <2> QED BY <2>2, FullChipIsTooSmall DEF PInv
<1> QED BY <1>1, InitPInv, NextPInv, PTL DEF Spec
-----------------------------------------------------------------------------
(* The pair the sort puts first, on a chip that couples anything at all.   *)
Heaviest(e) ==
  /\ e \in Interactions(program)
  /\ \A f \in Interactions(program) \ {e} : Ahead(program, e, f)

SomeCoupling == \E p \in Phys : Neighbours(p) # {}

PlacedOnCoupled(l, e) ==
  /\ l.v2p[e[1]] # Unplaced /\ l.v2p[e[2]] # Unplaced
  /\ Connected(l.v2p[e[1]], l.v2p[e[2]])

(* The heaviest pair is the first to be settled, and stays where it is.    *)
HeaviestFirst ==
  \A e \in Virt \X Virt :
    Heaviest(e) => IF e \in pairs
                   THEN pairs = Interactions(program) /\ layout = EmptyLayout
                   ELSE SomeCoupling => PlacedOnCoupled(layout, e)

(* The sort order of the pairs has no ties.                                *)
LEMMA AheadIsStrict ==
  ASSUME NEW prog \in Programs, NEW e \in Virt \X Virt, NEW f \in Virt \X Virt,
         Ahead(prog, e, f)
  PROVE  ~Ahead(prog, f, e)
<1>1. ASSUME NEW x \in Virt \X Virt PROVE Weight(prog, x[1], x[2]) \in Nat
  <2> DEFINE gates == { g \in 1 .. Len(prog) :
                          /\ prog[g].kind = "gate" /\ Len(prog[g].qs) = 2
                          /\ QubitsOf(prog[g]) = {x[1], x[2]} }
  <2>1. Len(prog) \in Nat
    BY ProgramAssumption DEF WellFormed
  <2>2. IsFiniteSet(1 .. Len(prog))
    BY <2>1, FS_Interval
  <2>3. gates \subseteq 1 .. Len(prog)
    OBVIOUS
  <2>4. IsFiniteSet(gates)
    BY <2>2, <2>3, FS_Subset
  <2>5. Cardinality(gates) \in Nat
    BY <2>4, FS_CardinalityType
  <2> QED BY <2>5 DEF Weight
<1>2. Weight(prog, e[1], e[2]) \in Nat /\ Weight(prog, f[1], f[2]) \in Nat
  BY <1>1
<1>3. e[1] \in Int /\ e[2] \in Int /\ f[1] \in Int /\ f[2] \in Int
  BY DEF Virt
<1> QED BY <1>2, <1>3 DEF Ahead, LexLess

(* The pair settled on the empty chip takes the lowest coupled pair.       *)
LEMMA FirstPairIsCoupled ==
  ASSUME SomeCoupling, NEW e \in Virt \X Virt, e[1] # e[2]
  PROVE  PlacedOnCoupled(SettlePair(EmptyLayout, e), e)
<1> DEFINE l == EmptyLayout
           sites == CoupledFreePairs(l)
           a == LowestPair(sites)[1]
           b == LowestPair(sites)[2]
<1>1. FreeSites(l) = Phys
  BY DEF FreeSites, EmptyLayout
<1>2. sites # {}
  <2>1. PICK p \in Phys, q \in Phys : Connected(p, q)
    BY DEF SomeCoupling, Neighbours
  <2>2. p \in Int /\ q \in Int /\ p # q /\ Connected(q, p)
    BY <2>1 DEF Phys, Connected
  <2>3. CASE p < q
    <3>1. <<p, q>> \in sites
      BY <1>1, <2>1, <2>3 DEF CoupledFreePairs, FreePairs
    <3> QED BY <3>1
  <2>4. CASE q < p
    <3>1. <<q, p>> \in sites
      BY <1>1, <2>2, <2>4 DEF CoupledFreePairs, FreePairs
    <3> QED BY <3>1
  <2> QED BY <2>2, <2>3, <2>4
<1>3. sites \subseteq Phys \X Phys /\ \A s \in sites : Connected(s[1], s[2])
  BY <1>1 DEF CoupledFreePairs, FreePairs
<1>4. a \in Phys /\ b \in Phys /\ Connected(a, b)
  BY <1>2, <1>3, LowestPairIsOne
<1>5. { v \in {e[1], e[2]} : l.v2p[v] = Unplaced } = {e[1], e[2]}
  BY DEF EmptyLayout
<1>6. SettlePair(l, e) = PlaceAt(PlaceAt(l, e[1], a), e[2], b)
  BY <1>2, <1>5 DEF SettlePair
<1>7. SettlePair(l, e).v2p = [[l.v2p EXCEPT ![e[1]] = a] EXCEPT ![e[2]] = b]
  BY <1>6 DEF PlaceAt
<1>8. SettlePair(l, e).v2p[e[1]] = a /\ SettlePair(l, e).v2p[e[2]] = b
  BY <1>7 DEF EmptyLayout
<1>9. a # Unplaced /\ b # Unplaced
  BY <1>4, GraphAssumption DEF Phys, Unplaced
<1> QED BY <1>4, <1>8, <1>9 DEF PlacedOnCoupled

LEMMA HeaviestStaysFirst ==
  ASSUME PInv, HeaviestFirst, [Next]_vars
  PROVE  HeaviestFirst'
<1>1. UNCHANGED program
  BY DEF Next, Settle, PlaceRest, vars
<1>2. SUFFICES ASSUME NEW e \in Virt \X Virt, Heaviest(e)
               PROVE  IF e \in pairs'
                      THEN pairs' = Interactions(program) /\ layout' = EmptyLayout
                      ELSE SomeCoupling => PlacedOnCoupled(layout', e)
  BY <1>1 DEF HeaviestFirst, Heaviest
<1>3. pairs \subseteq Interactions(program) /\ program \in Programs
  BY DEF PInv, TypeOK
<1>4. CASE e \notin pairs /\ (Settle \/ PlaceRest)
  <2>1. e \notin pairs'
    BY <1>4 DEF Settle, PlaceRest
  <2>2. Grows(layout, layout')
    BY <1>4, StepsGrow
  <2>3. SomeCoupling => PlacedOnCoupled(layout, e)
    BY <1>2, <1>4 DEF HeaviestFirst
  <2> QED BY <2>1, <2>2, <2>3 DEF Grows, PlacedOnCoupled
<1>5. CASE e \in pairs /\ Settle
  <2>1. pairs = Interactions(program) /\ layout = EmptyLayout
    BY <1>2, <1>5 DEF HeaviestFirst
  <2>2. PICK s \in pairs : /\ \A f \in pairs \ {s} : Ahead(program, s, f)
                           /\ layout' = SettlePair(layout, s)
                           /\ pairs' = pairs \ {s}
    BY <1>5 DEF Settle
  <2>3. s \in Virt \X Virt
    BY <1>3, <2>2 DEF Interactions
  <2>4. s = e
    BY <1>2, <1>3, <1>5, <2>1, <2>2, <2>3, AheadIsStrict DEF Heaviest
  <2>5. e[1] # e[2]
    <3>1. e[1] < e[2] /\ e[1] \in Int /\ e[2] \in Int
      BY <1>2 DEF Heaviest, Interactions, Virt
    <3> QED BY <3>1
  <2> QED BY <2>1, <2>2, <2>4, <2>5, FirstPairIsCoupled
<1>6. CASE e \in pairs /\ PlaceRest
  BY <1>6 DEF PlaceRest
<1>7. CASE UNCHANGED vars
  BY <1>2, <1>7 DEF vars, HeaviestFirst
<1> QED BY <1>4, <1>5, <1>6, <1>7 DEF Next

(* The pair Placement::run sorts first, the one with the most two-qubit    *)
(* gates, ends on a coupled pair of sites on every chip that has one.      *)
THEOREM HeaviestPairIsCoupled == Spec => []HeaviestCoupled
<1>1. Init => HeaviestFirst
  BY DEF Init, HeaviestFirst, Heaviest
<1>2. PInv /\ HeaviestFirst => HeaviestCoupled
  <2> SUFFICES ASSUME PInv, HeaviestFirst, Returned, SomeCoupling,
                      NEW e \in Interactions(program),
                      \A f \in Interactions(program) \ {e} : Ahead(program, e, f)
               PROVE  Connected(layout.v2p[e[1]], layout.v2p[e[2]])
    BY DEF HeaviestCoupled, SomeCoupling
  <2>1. e \in Virt \X Virt /\ Heaviest(e) /\ e \notin pairs
    BY DEF Heaviest, Interactions, Returned
  <2> QED BY <2>1 DEF HeaviestFirst, PlacedOnCoupled
<1>3. PInv /\ HeaviestFirst /\ [Next]_vars => HeaviestFirst'
  BY HeaviestStaysFirst
<1> QED BY <1>1, <1>2, <1>3, InitPInv, NextPInv, PTL DEF Spec
=============================================================================
