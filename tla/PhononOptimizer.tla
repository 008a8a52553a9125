-------------------------- MODULE PhononOptimizer ---------------------------
(***************************************************************************)
(* The optimizer's two rewriting passes.  Both walk the ops of a module    *)
(* once, find for each op the one that made its operands, and rebuild the  *)
(* module without the dead ops.                                            *)
(***************************************************************************)
EXTENDS PhononIR

SelfInverse == {"h", "x", "z", "cx", "cz", "swap"}

InversePair(k, l) ==
  \/ k = l /\ k \in SelfInverse
  \/ {k, l} = {"s", "sdg"}

Rotations == {"rx", "ry", "rz"}

NoOp == 0

NothingMade(m) == [v \in ValuesOf(m) |-> NoOp]

(* prevOpForValue, after op i made its results.                            *)
Made(prev, op, i) ==
  [v \in DOMAIN prev |-> IF v \in Range(op.out) THEN i ELSE prev[v]]

Indices(m) == [i \in 1 .. Len(m) |-> i]

Copied(m, dead, angle, root) ==
  LET kept(i) == Op(m[i].kind, [k \in 1 .. Len(m[i].in) |-> root[m[i].in[k]]],
                    m[i].out, angle[i], m[i].name, m[i].qs)
      live == Kept(Indices(m), (1 .. Len(m)) \ dead)
  IN  [k \in 1 .. Len(live) |-> kept(live[k])]

Roots(m) == [ValuesOf(m) -> ValuesOf(m)]

Itself(m) == [v \in ValuesOf(m) |-> v]

(* A slip: every result is traced to the first operand.                    *)
TracedToFirst(root, op) ==
  [v \in DOMAIN root |-> IF v \in Range(op.out) THEN root[op.in[1]] ELSE root[v]]

(* resultRemap, closed: a result of a dead op is traced to what the        *)
(* operand of the same index is traced to.                                 *)
TracedThrough(root, op) ==
  [v \in DOMAIN root |->
     IF v \in Range(op.out) THEN root[op.in[CHOOSE k \in DOMAIN op.out : op.out[k] = v]]
     ELSE root[v]]

TraceStep(m, dead, i) ==
  [root \in Roots(m) |-> IF i \in dead THEN TracedThrough(root, m[i]) ELSE root]

Traced(m, dead) ==
  Through(Itself(m), [i \in 1 .. Len(m) |-> TraceStep(m, dead, i)])

(* A slip: operands are not traced back.                                   *)
CompactUntraced(m, dead, angle) == Copied(m, dead, angle, Itself(m))

(* Operands of the ops left are traced back through the dead ones, and the *)
(* rest is copied.  The counts of an if, a for or a def are not updated.   *)
Compact(m, dead, angle) == Copied(m, dead, angle, Traced(m, dead)[Len(m)])

Angles(m) == [i \in 1 .. Len(m) |-> m[i].n]
-----------------------------------------------------------------------------
(* cancelInversePairs                                                      *)

(* A slip: only the first operand is looked at.                            *)
CancelsByFirst(m, st, i, p) ==
  /\ p # NoOp /\ p \notin st.dead
  /\ InversePair(m[p].kind, m[i].kind)
  /\ st.prev[m[i].in[1]] = p

(* op i undoes p, which made all its operands, in their order.             *)
Cancels(m, st, i, p) ==
  /\ p # NoOp /\ p \notin st.dead
  /\ InversePair(m[p].kind, m[i].kind)
  /\ \A k \in 1 .. Len(m[i].in) : st.prev[m[i].in[k]] = p
  /\ m[i].in = m[p].out

CancelStates(m) ==
  [dead : SUBSET (1 .. Len(m)), prev : [ValuesOf(m) -> 0 .. Len(m)]]

CancelStep(m, i) ==
  [st \in CancelStates(m) |->
     LET p == st.prev[m[i].in[1]]
     IN  IF m[i].kind \in GateKinds /\ Cancels(m, st, i, p)
         THEN [dead |-> st.dead \cup {i, p}, prev |-> st.prev]
         ELSE [dead |-> st.dead, prev |-> Made(st.prev, m[i], i)]]

Cancelled(m) ==
  Through([dead |-> {}, prev |-> NothingMade(m)],
          [i \in 1 .. Len(m) |-> CancelStep(m, i)])[Len(m)]

CancelInversePairs(m) == Compact(m, Cancelled(m).dead, Angles(m))
-----------------------------------------------------------------------------
(* mergeRotations                                                          *)

(* fmod keeps the sign of its first argument; the result is in half a turn *)
(* either way, both ends included.                                         *)
Wrapped(x) ==
  LET r == IF x >= 0 THEN x % Turn ELSE -((-x) % Turn)
  IN  CASE r > Turn \div 2    -> r - Turn
        [] r < -(Turn \div 2) -> r + Turn
        [] OTHER              -> r

Merges(m, st, i, p) ==
  /\ m[i].kind \in Rotations
  /\ p # NoOp /\ p \notin st.dead
  /\ m[p].kind = m[i].kind

MergeStates(m) ==
  [dead : SUBSET (1 .. Len(m)), prev : [ValuesOf(m) -> 0 .. Len(m)],
   angle : [1 .. Len(m) -> Int]]

MergeStep(m, i) ==
  [st \in MergeStates(m) |->
     LET p   == st.prev[m[i].in[1]]
         sum == Wrapped(st.angle[p] + m[i].n)
     IN  IF m[i].kind \in Rotations /\ Merges(m, st, i, p)
         THEN IF sum = 0
              THEN [dead |-> st.dead \cup {p, i}, prev |-> st.prev, angle |-> st.angle]
              ELSE [dead |-> st.dead \cup {i}, prev |-> Made(st.prev, m[i], p),
                    angle |-> [st.angle EXCEPT ![p] = sum]]
         ELSE [dead |-> st.dead, prev |-> Made(st.prev, m[i], i), angle |-> st.angle]]

Merged(m) ==
  Through([dead |-> {}, prev |-> NothingMade(m), angle |-> Angles(m)],
          [i \in 1 .. Len(m) |-> MergeStep(m, i)])[Len(m)]

MergeRotations(m) == Compact(m, Merged(m).dead, Merged(m).angle)
-----------------------------------------------------------------------------
(* runPipeline: commuteAndReduce is the same two passes, the borrowed ones *)
(* and schedule leave the module alone.                                    *)
Passes == << "cancel", "merge", "cancel", "merge",
             "cancel", "merge", "cancel", "merge" >>

PassOf(pass, m) == IF pass = "cancel" THEN CancelInversePairs(m)
                     ELSE MergeRotations(m)
=============================================================================
