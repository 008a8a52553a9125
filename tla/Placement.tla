----------------------------- MODULE Placement -----------------------------
(***************************************************************************)
(* Placement::run: greedy assignment of virtual to physical qubits along   *)
(* the interaction graph, heaviest pair first.                             *)
(***************************************************************************)
EXTENDS Layout, SequencesExt

(* The interaction graph: pairs u < v weighted by their two-qubit gates.   *)
Weight(prog, u, v) ==
  Cardinality({ g \in 1 .. Len(prog) :
                  /\ prog[g].kind = "gate" /\ Len(prog[g].qs) = 2
                  /\ QubitsOf(prog[g]) = {u, v} })

Interactions(prog) ==
  { e \in Virt \X Virt : e[1] < e[2] /\ Weight(prog, e[1], e[2]) > 0 }

LexLess(e, f) == e[1] < f[1] \/ (e[1] = f[1] /\ e[2] < f[2])

(* Heaviest first, among equals the lowest pair.                           *)
Ahead(prog, e, f) ==
  LET weight(x) == Weight(prog, x[1], x[2])
  IN  weight(e) > weight(f) \/ (weight(e) = weight(f) /\ LexLess(e, f))

SortedPairs(prog) ==
  LET pairs == Interactions(prog)
      rank(e) == Cardinality({ f \in pairs \ {e} : Ahead(prog, f, e) }) + 1
  IN  [k \in 1 .. Cardinality(pairs) |-> CHOOSE e \in pairs : rank(e) = k]

(* A slip: the test of p2v is forgotten.                                   *)
AllSites(l) == Phys

FreeSites(l) == { p \in Phys : l.p2v[p] = Free }

FreePairs(l) == { e \in FreeSites(l) \X FreeSites(l) : e[1] < e[2] }
CoupledFreePairs(l) == { e \in FreePairs(l) : Connected(e[1], e[2]) }

LowestPair(S) == CHOOSE e \in S : \A f \in S : e = f \/ LexLess(e, f)
LowestSite(S) == CHOOSE p \in S : \A q \in S : p <= q

(* Put v on the lowest site of the first of the two sets that has any.     *)
PlaceAmong(l, v, preferred, fallback) ==
  IF preferred # {} THEN PlaceAt(l, v, LowestSite(preferred))
  ELSE IF fallback # {} THEN PlaceAt(l, v, LowestSite(fallback))
  ELSE l

(* One iteration over the sorted pairs.                                    *)
SettlePair(l, e) ==
  LET missing == { v \in {e[1], e[2]} : l.v2p[v] = Unplaced }
      sites == IF CoupledFreePairs(l) # {} THEN CoupledFreePairs(l)
               ELSE FreePairs(l)
      near(v) == FreeSites(l) \cap
                   Neighbours(l.v2p[CHOOSE u \in {e[1], e[2]} : u # v])
  IN  IF missing = {} THEN l
      ELSE IF missing = {e[1], e[2]} THEN
        IF sites = {} THEN l
        ELSE PlaceAt(PlaceAt(l, e[1], LowestPair(sites)[1]),
                     e[2], LowestPair(sites)[2])
      ELSE LET v == CHOOSE u \in missing : TRUE
           IN  PlaceAmong(l, v, near(v), FreeSites(l))

(* A slip: the last loop only tries the site of the qubit's own number.    *)
SettleRestAtOwn(l, v) ==
  IF l.v2p[v] = Unplaced /\ v \in FreeSites(l) THEN PlaceAt(l, v, v) ELSE l

(* A slip: the last loop forgets to skip the qubits that have a site.      *)
SettleRestAgain(l, v) == PlaceAmong(l, v, {}, FreeSites(l))

(* One iteration of the last loop.                                         *)
SettleRest(l, v) ==
  IF l.v2p[v] = Unplaced THEN PlaceAmong(l, v, {}, FreeSites(l)) ELSE l

(* The layout the pass returns.                                            *)
PlaceProgram(prog) ==
  FoldLeft(SettleRest,
           FoldLeft(SettlePair, EmptyLayout, SortedPairs(prog)),
           [k \in 1 .. NumVirtual |-> k - 1])
=============================================================================
