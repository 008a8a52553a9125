---------------------------- MODULE PhononProofs ----------------------------
(***************************************************************************)
(* Proofs about the Phonon pipeline, for every register and every set of   *)
(* statements: the type check is exact, every pass of the optimizer keeps  *)
(* modules linear, and every phase keeps its variables of their types.     *)
(***************************************************************************)
EXTENDS PhononPipeline, FiniteSetTheorems

FunctionNames == { s.name : s \in Statements } \cup {""}

OpType == [kind : OpKinds, in : Seq(Nat), out : Seq(Nat), n : Int,
           name : FunctionNames, qs : Seq(Names)]

(* A module in static single assignment form.                              *)
MadeOnce(m) ==
  \A i, j \in 1 .. Len(m) :
    \A k \in 1 .. Len(m[i].out), l \in 1 .. Len(m[j].out) :
      m[i].out[k] = m[j].out[l] => i = j /\ k = l

MadeBefore(m) ==
  \A i \in 1 .. Len(m) : \A k \in 1 .. Len(m[i].in) :
    \E j \in 1 .. i - 1 : m[i].in[k] \in Range(m[j].out)

GatesThread(m) ==
  \A i \in 1 .. Len(m) :
    m[i].kind \in GateKinds => Len(m[i].in) = Len(m[i].out) /\ Len(m[i].in) > 0

WellFormed(m) ==
  m \in Seq(OpType) /\ MadeOnce(m) /\ MadeBefore(m) /\ GatesThread(m)

Numbered(m) == NumValues(m) \in Nat /\ ValuesOf(m) = 1 .. NumValues(m)

LEMMA MadeOnceMeans ==
  ASSUME NEW m, MadeOnce(m), NEW i \in 1 .. Len(m), NEW j \in 1 .. Len(m),
         NEW k \in 1 .. Len(m[i].out), NEW l \in 1 .. Len(m[j].out),
         m[i].out[k] = m[j].out[l]
  PROVE  i = j /\ k = l
BY DEF MadeOnce

(* Some ops of a module, each at one place only, make every value once.    *)
MakesWhat(m, live, out) ==
  /\ Len(out) = Len(live)
  /\ \A p \in 1 .. Len(live) : live[p] \in 1 .. Len(m) /\ out[p].out = m[live[p]].out
  /\ \A p, q \in 1 .. Len(live) : live[p] = live[q] => p = q

LEMMA CopiesMakeOnce ==
  ASSUME NEW m, MadeOnce(m), NEW live, NEW out, MakesWhat(m, live, out)
  PROVE  MadeOnce(out)
<1>1. ASSUME NEW p \in 1 .. Len(out), NEW q \in 1 .. Len(out),
             NEW k \in 1 .. Len(out[p].out), NEW l \in 1 .. Len(out[q].out),
             out[p].out[k] = out[q].out[l]
      PROVE  p = q /\ k = l
  <2> DEFINE i == live[p]
             j == live[q]
  <2>1. /\ i \in 1 .. Len(m) /\ out[p].out = m[i].out
        /\ j \in 1 .. Len(m) /\ out[q].out = m[j].out
    BY DEF MakesWhat
  <2> HIDE DEF i, j
  <2> DEFINE a == m[i].out
             b == m[j].out
  <2>2. \A c \in 1 .. Len(a) : \A d \in 1 .. Len(b) : a[c] = b[d] => i = j /\ c = d
    BY ONLY MadeOnce(m), <2>1 DEF MadeOnce
  <2>3. k \in 1 .. Len(a) /\ l \in 1 .. Len(b) /\ a[k] = b[l]
    BY <1>1, <2>1
  <2> HIDE DEF a, b
  <2>4. i = j /\ k = l
    BY ONLY <2>2, <2>3
  <2>5. live[p] = live[q] /\ k = l
    BY <2>4 DEF i, j
  <2> QED BY <2>5 DEF MakesWhat
<1> QED BY <1>1 DEF MadeOnce

-----------------------------------------------------------------------------
(* The type checker.  Part way through the walk its flags tell of the      *)
(* operands met so far, which are the places in B.                         *)
UsedIn(m, v, B) == Uses(m, v) \cap B

Once(m, S) ==
  \A s, t \in S :
    (s # t /\ s[1] <= t[1]) =>
      m[s[1]].kind = "measure" /\ m[t[1]].kind = "reset" /\ S = {s, t}

OnlyMeasured(m, S) == \E u \in S : S = {u} /\ m[u[1]].kind = "measure"

Tracked(m, B, st) ==
  /\ \A v \in Nat : v \in st.consumed <=> UsedIn(m, v, B) # {}
  /\ st.ok => \A v \in Nat : Once(m, UsedIn(m, v, B))
  /\ (\A v \in Nat : Once(m, UsedIn(m, v, B))) => st.ok
  /\ st.ok => \A v \in Nat : v \in st.measured <=> OnlyMeasured(m, UsedIn(m, v, B))

(* One more use of a value is allowed if it is the first, or the reset of  *)
(* a qubit that was only measured.                                         *)
LEMMA OnceMore ==
  ASSUME NEW m, NEW S \in SUBSET (Nat \X Nat), NEW u \in Nat \X Nat, u \notin S,
         \A s \in S : s[1] <= u[1]
  PROVE  Once(m, S \cup {u}) <=>
           /\ Once(m, S)
           /\ S = {} \/ (OnlyMeasured(m, S) /\ m[u[1]].kind = "reset")
<1>1. ASSUME Once(m, S \cup {u})
      PROVE  Once(m, S) /\ (S = {} \/ (OnlyMeasured(m, S) /\ m[u[1]].kind = "reset"))
  <2>1. ASSUME NEW s \in S, NEW t \in S, s # t, s[1] <= t[1]
        PROVE  FALSE
    <3>1. S \cup {u} = {s, t}
      BY <1>1, <2>1 DEF Once
    <3> QED BY <2>1, <3>1
  <2>2. ASSUME S # {}
        PROVE  OnlyMeasured(m, S) /\ m[u[1]].kind = "reset"
    <3>1. PICK s \in S : TRUE
      BY <2>2
    <3>2. /\ m[s[1]].kind = "measure" /\ m[u[1]].kind = "reset"
          /\ S \cup {u} = {s, u}
      BY <1>1, <3>1 DEF Once
    <3>3. S = {s}
      BY <3>2
    <3> QED BY <3>2, <3>3 DEF OnlyMeasured
  <2>3. Once(m, S)
    BY <2>1 DEF Once
  <2> QED BY <2>2, <2>3
<1>2. ASSUME Once(m, S), S = {} \/ (OnlyMeasured(m, S) /\ m[u[1]].kind = "reset")
      PROVE  Once(m, S \cup {u})
  <2>1. CASE S = {}
    BY <2>1 DEF Once
  <2>2. CASE S # {}
    <3>1. PICK s \in S : S = {s} /\ m[s[1]].kind = "measure" /\ m[u[1]].kind = "reset"
      BY <1>2, <2>2 DEF OnlyMeasured
    <3>2. ~ (u[1] <= s[1])
      <4>1. s[1] \in Nat /\ u[1] \in Nat
        OBVIOUS
      <4>2. s[1] # u[1]
        BY <3>1
      <4> QED BY <4>1, <4>2
    <3>3. S \cup {u} = {s, u}
      BY <3>1
    <3>4. ASSUME NEW a \in {s, u}, NEW b \in {s, u}, a # b, a[1] <= b[1]
          PROVE  a = s /\ b = u
      BY <3>2, <3>4
    <3> QED BY <3>1, <3>3, <3>4 DEF Once
  <2> QED BY <2>1, <2>2
<1> QED BY <1>1, <1>2

LEMMA PlacesAreTyped ==
  ASSUME NEW m \in Seq(OpType)
  PROVE  /\ Len(m) \in Nat
         /\ \A u \in Places(m) : /\ u[1] \in 1 .. Len(m) /\ u[2] \in 1 .. Len(m[u[1]].in)
                                 /\ u = <<u[1], u[2]>> /\ u \in Nat \X Nat
         /\ \A k \in 1 .. Len(m) :
              /\ m[k] \in OpType
              /\ Len(m[k].in) \in Nat /\ Len(m[k].out) \in Nat
              /\ \A j \in 1 .. Len(m[k].in) : m[k].in[j] \in Nat /\ <<k, j>> \in Places(m)
              /\ \A j \in 1 .. Len(m[k].out) : m[k].out[j] \in Nat
<1>1. Len(m) \in Nat
  BY LenProperties
<1>2. ASSUME NEW k \in 1 .. Len(m)
      PROVE  /\ m[k] \in OpType
             /\ Len(m[k].in) \in Nat /\ Len(m[k].out) \in Nat
             /\ \A j \in 1 .. Len(m[k].in) : m[k].in[j] \in Nat
             /\ \A j \in 1 .. Len(m[k].out) : m[k].out[j] \in Nat
  <2>1. m[k] \in OpType
    BY ElementOfSeq
  <2>2. m[k].in \in Seq(Nat) /\ m[k].out \in Seq(Nat)
    BY <2>1 DEF OpType
  <2> QED BY <2>1, <2>2, LenProperties, ElementOfSeq
<1>3. ASSUME NEW u \in Places(m)
      PROVE  /\ u[1] \in 1 .. Len(m) /\ u[2] \in 1 .. Len(m[u[1]].in)
             /\ u = <<u[1], u[2]>> /\ u \in Nat \X Nat
  <2>1. PICK k \in 1 .. Len(m) : u \in {k} \X (1 .. Len(m[k].in))
    BY DEF Places
  <2>2. u[1] = k /\ u[2] \in 1 .. Len(m[k].in) /\ u = <<u[1], u[2]>>
    BY <2>1
  <2>3. k \in Nat /\ u[2] \in Nat
    BY <1>1, <1>2, <2>2
  <2> QED BY <2>1, <2>2, <2>3
<1>4. ASSUME NEW k \in 1 .. Len(m), NEW j \in 1 .. Len(m[k].in)
      PROVE  <<k, j>> \in Places(m)
  BY DEF Places
<1> QED BY <1>1, <1>2, <1>3, <1>4

(* Taking one operand of an op that uses it up.                            *)
LEMMA TakeTracks ==
  ASSUME NEW m \in Seq(OpType), NEW k \in 1 .. Len(m), NEW j \in 1 .. Len(m[k].in),
         ConsumesQubits(m[k].kind),
         NEW B \in SUBSET Places(m), <<k, j>> \notin B, \A b \in B : b[1] <= k,
         NEW st \in States, Tracked(m, B, st)
  PROVE  LET next == TakeOperand(st, m[k].kind, m[k].in[j])
         IN  next \in States /\ Tracked(m, B \cup {<<k, j>>}, next)
<1> DEFINE u    == <<k, j>>
           v    == m[k].in[j]
           kind == m[k].kind
           S    == UsedIn(m, v, B)
           C    == B \cup {u}
           next == TakeOperand(st, kind, v)
<1>1. u \in Places(m) /\ v \in Nat /\ u \in Nat \X Nat /\ u[1] = k /\ u[2] = j
  BY PlacesAreTyped
<1>2. u \in Uses(m, v) /\ \A w \in Nat : w # v => u \notin Uses(m, w)
  BY <1>1 DEF Uses
<1>3. UsedIn(m, v, C) = S \cup {u} /\ \A w \in Nat : w # v => UsedIn(m, w, C) = UsedIn(m, w, B)
  BY <1>2 DEF UsedIn
<1>4. S \in SUBSET (Nat \X Nat) /\ u \notin S /\ \A s \in S : s[1] <= u[1]
  BY <1>1, PlacesAreTyped DEF UsedIn
<1>5. Once(m, S \cup {u}) <=>
        Once(m, S) /\ (S = {} \/ (OnlyMeasured(m, S) /\ kind = "reset"))
  BY <1>1, <1>4, OnceMore
<1>6. /\ st.ok \in BOOLEAN /\ st.consumed \in SUBSET Nat /\ st.measured \in SUBSET Nat
  BY DEF States
<1>7. /\ next.ok = (st.ok /\ ~Flagged(st, kind, v))
      /\ next.consumed = st.consumed \cup {v}
      /\ kind = "measure" => next.measured = st.measured \cup {v}
      /\ kind = "reset" => next.measured = st.measured \ {v}
      /\ kind \notin {"measure", "reset"} => next.measured = st.measured
  BY DEF TakeOperand
<1>8. next \in States
  BY <1>1, <1>6 DEF TakeOperand, States, Flagged
<1> HIDE DEF next, S, C, v, kind, u
<1>9. S # {} <=> v \in st.consumed
  BY <1>1 DEF Tracked, S
<1>10. ASSUME st.ok
       PROVE  ~Flagged(st, kind, v) <=> S = {} \/ (OnlyMeasured(m, S) /\ kind = "reset")
  <2>1. v \in st.measured <=> OnlyMeasured(m, S)
    BY <1>1, <1>10 DEF Tracked, S
  <2>2. OnlyMeasured(m, S) => S # {}
    BY DEF OnlyMeasured
  <2> QED BY <1>9, <2>1, <2>2 DEF Flagged
<1>11. \A w \in Nat : w \in next.consumed <=> UsedIn(m, w, C) # {}
  <2> SUFFICES ASSUME NEW w \in Nat PROVE w \in next.consumed <=> UsedIn(m, w, C) # {}
    OBVIOUS
  <2>1. CASE w = v
    BY <1>3, <1>7, <2>1
  <2>2. CASE w # v
    BY <1>3, <1>7, <2>2 DEF Tracked
  <2> QED BY <2>1, <2>2
<1>12. ASSUME next.ok
       PROVE  st.ok /\ ~Flagged(st, kind, v)
  BY <1>6, <1>7, <1>12
<1>13. ASSUME st.ok, ~Flagged(st, kind, v)
       PROVE  next.ok
  BY <1>6, <1>7, <1>13
<1>14. next.ok => \A w \in Nat : Once(m, UsedIn(m, w, C))
  <2> SUFFICES ASSUME next.ok, NEW w \in Nat PROVE Once(m, UsedIn(m, w, C))
    OBVIOUS
  <2>1. st.ok /\ ~Flagged(st, kind, v)
    BY <1>12
  <2>2. Once(m, UsedIn(m, w, B))
    BY <2>1 DEF Tracked
  <2>3. CASE w = v
    BY <1>3, <1>5, <1>10, <2>1, <2>2, <2>3 DEF S
  <2>4. CASE w # v
    BY <1>3, <2>2, <2>4
  <2> QED BY <2>3, <2>4
<1>15. (\A w \in Nat : Once(m, UsedIn(m, w, C))) => next.ok
  <2> SUFFICES ASSUME \A w \in Nat : Once(m, UsedIn(m, w, C)) PROVE next.ok
    OBVIOUS
  <2>1. Once(m, S \cup {u})
    BY <1>1, <1>3
  <2>2. \A w \in Nat : Once(m, UsedIn(m, w, B))
    <3> SUFFICES ASSUME NEW w \in Nat PROVE Once(m, UsedIn(m, w, B))
      OBVIOUS
    <3>1. CASE w = v
      BY <1>5, <2>1, <3>1 DEF S
    <3>2. CASE w # v
      BY <1>3, <3>2
    <3> QED BY <3>1, <3>2
  <2>3. st.ok
    BY <2>2 DEF Tracked
  <2> QED BY <1>5, <1>10, <1>13, <2>1, <2>3
<1>16. next.ok => \A w \in Nat : w \in next.measured <=> OnlyMeasured(m, UsedIn(m, w, C))
  <2> SUFFICES ASSUME next.ok, NEW w \in Nat
               PROVE  w \in next.measured <=> OnlyMeasured(m, UsedIn(m, w, C))
    OBVIOUS
  <2>1. st.ok /\ ~Flagged(st, kind, v)
    BY <1>12
  <2>2. w \in st.measured <=> OnlyMeasured(m, UsedIn(m, w, B))
    BY <2>1 DEF Tracked
  <2>3. CASE w # v
    BY <1>3, <1>7, <2>2, <2>3
  <2>4. CASE w = v
    <3>1. S = {} \/ (OnlyMeasured(m, S) /\ kind = "reset")
      BY <1>10, <2>1
    <3>2. OnlyMeasured(m, S \cup {u}) => S \cup {u} = {u} /\ kind = "measure"
      <4> SUFFICES ASSUME NEW x \in S \cup {u}, S \cup {u} = {x}, m[x[1]].kind = "measure"
                   PROVE  S \cup {u} = {u} /\ kind = "measure"
        BY DEF OnlyMeasured
      <4>1. x = u
        OBVIOUS
      <4> QED BY <1>1, <4>1 DEF kind
    <3>3. CASE kind = "measure"
      <4>1. S \cup {u} = {u}
        BY <3>1, <3>3
      <4>2. OnlyMeasured(m, S \cup {u})
        BY <1>1, <3>3, <4>1 DEF OnlyMeasured, kind
      <4> QED BY <1>3, <1>7, <2>4, <3>3, <4>2
    <3>4. CASE kind = "reset"
      BY <1>3, <1>7, <2>4, <3>2, <3>4
    <3>5. CASE kind \notin {"measure", "reset"}
      <4>1. ~OnlyMeasured(m, S)
        BY <3>1, <3>5 DEF OnlyMeasured
      <4> QED BY <1>3, <1>7, <2>2, <2>4, <3>2, <3>5, <4>1 DEF S
    <3> QED BY <3>3, <3>4, <3>5
  <2> QED BY <2>3, <2>4
<1>17. Tracked(m, C, next)
  BY <1>11, <1>14, <1>15, <1>16 DEF Tracked
<1> QED BY <1>8, <1>17 DEF next, C, u, v, kind

Upto(m, k) == { u \in Places(m) : u[1] <= k }

LEMMA OperandsTrack ==
  ASSUME NEW m \in Seq(OpType), NEW k \in 1 .. Len(m), ConsumesQubits(m[k].kind),
         NEW st \in States, Tracked(m, Upto(m, k - 1), st)
  PROVE  LET next == TakeOperands(st, m[k])[Len(m[k].in)]
         IN  next \in States /\ Tracked(m, Upto(m, k), next)
<1> DEFINE n     == Len(m[k].in)
           kind  == m[k].kind
           taken(j) == [s \in States |-> TakeOperand(s, kind, m[k].in[j])]
           steps == [j \in 1 .. n |-> taken(j)]
           B(j)  == Upto(m, k - 1) \cup { u \in Places(m) : u[1] = k /\ u[2] <= j }
           sets  == [j \in 0 .. n |-> { s \in States : Tracked(m, B(j), s) }]
<1>1. n \in Nat /\ Len(m) \in Nat /\ k \in Nat
  BY PlacesAreTyped
<1>2. Len(steps) = n /\ \A j \in 1 .. n : steps[j] = taken(j)
  BY <1>1
<1>3. TakeOperands(st, m[k]) = Through(st, steps)
  BY DEF TakeOperands
<1> HIDE DEF steps
<1>4. B(0) = Upto(m, k - 1)
  BY PlacesAreTyped
<1>5. B(n) = Upto(m, k)
  BY <1>1, PlacesAreTyped DEF Upto
<1>6. st \in sets[0]
  BY <1>1, <1>4
<1>7. ASSUME NEW j \in 1 .. n, NEW s \in sets[j - 1]
      PROVE  steps[j][s] \in sets[j]
  <2>1. j - 1 \in 0 .. n /\ j \in 0 .. n
    BY <1>1
  <2>2. s \in States /\ Tracked(m, B(j - 1), s)
    BY <2>1
  <2>3. steps[j][s] = TakeOperand(s, kind, m[k].in[j])
    BY <1>2, <2>2
  <2>4. /\ B(j - 1) \in SUBSET Places(m) /\ <<k, j>> \notin B(j - 1)
        /\ \A b \in B(j - 1) : b[1] <= k
    BY <1>1, PlacesAreTyped DEF Upto
  <2>5. B(j) = B(j - 1) \cup {<<k, j>>}
    <3>1. <<k, j>> \in Places(m)
      BY PlacesAreTyped
    <3>2. \A u \in Places(m) : u[1] = k /\ u[2] = j => u = <<k, j>>
      BY PlacesAreTyped
    <3>3. \A u \in Places(m) : u[1] = k => (u[2] <= j <=> u[2] <= j - 1 \/ u[2] = j)
      BY PlacesAreTyped
    <3> QED BY <3>1, <3>2, <3>3
  <2> HIDE DEF B
  <2>6. /\ TakeOperand(s, kind, m[k].in[j]) \in States
        /\ Tracked(m, B(j), TakeOperand(s, kind, m[k].in[j]))
    BY <2>2, <2>4, <2>5, TakeTracks
  <2> QED BY <2>1, <2>3, <2>6
<1>8. \A j \in 0 .. n : Through(st, steps)[j] \in sets[j]
  <2> HIDE DEF sets, B
  <2> QED BY <1>1, <1>2, <1>6, <1>7, ThroughReaches
<1>9. n \in 0 .. n
  BY <1>1
<1> QED BY <1>3, <1>5, <1>8, <1>9

(* What an op makes was not used before it, so that freeing its results    *)
(* changes no flag.                                                        *)
LEMMA CheckTracks ==
  ASSUME NEW m, WellFormed(m), NEW k \in 1 .. Len(m),
         NEW st \in States, Tracked(m, Upto(m, k - 1), st)
  PROVE  CheckOp(st, m[k]) \in States /\ Tracked(m, Upto(m, k), CheckOp(st, m[k]))
<1> DEFINE op   == m[k]
           used == IF ConsumesQubits(op.kind) THEN TakeOperands(st, op)[Len(op.in)] ELSE st
           next == CheckOp(st, op)
<1>1. m \in Seq(OpType) /\ MadeOnce(m) /\ MadeBefore(m) /\ Len(m) \in Nat /\ k \in Nat
  BY PlacesAreTyped DEF WellFormed
<1>2. used \in States /\ Tracked(m, Upto(m, k), used)
  <2>1. CASE ConsumesQubits(op.kind)
    BY <1>1, <2>1, OperandsTrack
  <2>2. CASE ~ConsumesQubits(op.kind)
    <3>1. ASSUME NEW v \in Nat
          PROVE  UsedIn(m, v, Upto(m, k)) = UsedIn(m, v, Upto(m, k - 1))
      <4>1. \A u \in Uses(m, v) : u \in Places(m) /\ u[1] # k
        BY <2>2 DEF Uses
      <4>2. \A u \in Places(m) : u[1] \in Nat
        BY <1>1, PlacesAreTyped
      <4>3. \A u \in Uses(m, v) : u[1] <= k <=> u[1] <= k - 1
        BY <1>1, <4>1, <4>2
      <4> QED BY <4>1, <4>3 DEF UsedIn, Upto
    <3>2. used = st
      BY <2>2
    <3> QED BY <3>1, <3>2 DEF Tracked
  <2> QED BY <2>1, <2>2
<1>3. /\ next.ok = used.ok
      /\ next.consumed = used.consumed \ Range(op.out)
      /\ next.measured = used.measured \ Range(op.out)
  BY DEF CheckOp
<1>4. next \in States
  BY <1>2 DEF CheckOp, States
<1>5. ASSUME NEW v \in Range(op.out)
      PROVE  v \in Nat /\ UsedIn(m, v, Upto(m, k)) = {}
  <2>1. PICK l \in 1 .. Len(op.out) : v = op.out[l]
    <3>1. op.out \in Seq(Nat)
      BY <1>1, PlacesAreTyped DEF OpType
    <3> QED BY <3>1 DEF Range
  <2>2. ASSUME NEW u \in UsedIn(m, v, Upto(m, k)) PROVE FALSE
    <3>1. /\ u \in Places(m) /\ u[1] <= k /\ m[u[1]].in[u[2]] = v
      BY DEF UsedIn, Uses, Upto
    <3>2. u[1] \in 1 .. Len(m) /\ u[2] \in 1 .. Len(m[u[1]].in)
      BY <1>1, <3>1, PlacesAreTyped
    <3>3. PICK i \in 1 .. u[1] - 1 : v \in Range(m[i].out)
      BY <1>1, <3>1, <3>2 DEF MadeBefore
    <3>4. i \in 1 .. Len(m) /\ i # k
      BY <1>1, <3>1, <3>2
    <3>5. PICK h \in 1 .. Len(m[i].out) : v = m[i].out[h]
      <4>1. m[i].out \in Seq(Nat)
        BY <1>1, <3>4, PlacesAreTyped DEF OpType
      <4> QED BY <3>3, <4>1 DEF Range
    <3>6. MadeOnce(m) /\ k \in 1 .. Len(m)
      BY <1>1
    <3>7. \E j \in 1 .. Len(m[k].out) : v = m[k].out[j]
      BY <2>1
    <3> QED BY ONLY <3>4, <3>5, <3>6, <3>7, MadeOnceMeans
  <2>3. v \in Nat
    BY <1>1, <2>1, PlacesAreTyped
  <2> QED BY <2>2, <2>3
<1> HIDE DEF used, next
<1>6. \A v \in Nat : v \in next.consumed <=> v \in used.consumed
  BY <1>2, <1>3, <1>5 DEF Tracked
<1>7. ASSUME used.ok
      PROVE  \A v \in Nat : v \in next.measured <=> v \in used.measured
  <2>1. \A v \in Range(op.out) : v \notin used.measured
    BY <1>2, <1>5, <1>7 DEF Tracked, OnlyMeasured
  <2> QED BY <1>3, <2>1
<1>8. Tracked(m, Upto(m, k), next)
  <2>1. next.ok <=> used.ok
    BY <1>3
  <2> QED BY <1>2, <1>6, <1>7, <2>1 DEF Tracked
<1> QED BY <1>4, <1>8 DEF next

(* The type checker is exact.                                              *)
LEMMA TypeCheckIsLinearity ==
  ASSUME NEW m, WellFormed(m)
  PROVE  TypeChecks(m) <=> Linear(m)
<1> DEFINE n     == Len(m)
           checked(k) == [s \in States |-> CheckOp(s, m[k])]
           steps == [k \in 1 .. n |-> checked(k)]
           sets  == [k \in 0 .. n |-> { s \in States : Tracked(m, Upto(m, k), s) }]
           end   == Through(Unused, steps)[n]
<1>1. m \in Seq(OpType) /\ MadeBefore(m) /\ n \in Nat
  BY PlacesAreTyped DEF WellFormed
<1>2. Len(steps) = n /\ \A k \in 1 .. n : steps[k] = checked(k)
  BY <1>1
<1>3. TypeChecks(m) = end.ok
  BY DEF TypeChecks, Checked
<1> HIDE DEF steps
<1>4. Unused \in sets[0]
  <2>1. \A v \in Nat : UsedIn(m, v, Upto(m, 0)) = {}
    <3>1. Upto(m, 0) = {}
      BY <1>1, PlacesAreTyped DEF Upto
    <3> QED BY <3>1 DEF UsedIn
  <2>2. Unused \in States
    BY DEF Unused, States
  <2>3. Unused.ok /\ Unused.consumed = {} /\ Unused.measured = {}
    BY DEF Unused
  <2>4. Tracked(m, Upto(m, 0), Unused)
    BY <2>1, <2>3 DEF Tracked, Once, OnlyMeasured
  <2> QED BY <1>1, <2>2, <2>4
<1>5. ASSUME NEW k \in 1 .. n, NEW s \in sets[k - 1]
      PROVE  steps[k][s] \in sets[k]
  <2>1. k - 1 \in 0 .. n /\ k \in 0 .. n
    BY <1>1
  <2>2. s \in States /\ Tracked(m, Upto(m, k - 1), s)
    BY <2>1
  <2>3. steps[k][s] = CheckOp(s, m[k])
    BY <1>2, <2>2
  <2> QED BY <2>1, <2>2, <2>3, CheckTracks
<1>6. \A k \in 0 .. n : Through(Unused, steps)[k] \in sets[k]
  <2> HIDE DEF sets
  <2> QED BY <1>1, <1>2, <1>4, <1>5, ThroughReaches
<1>7. Tracked(m, Upto(m, n), end)
  <2>1. n \in 0 .. n
    BY <1>1
  <2> QED BY <1>6, <2>1
<1>8. \A v \in Nat : UsedIn(m, v, Upto(m, n)) = Uses(m, v)
  BY <1>1, PlacesAreTyped DEF UsedIn, Upto, Uses
<1>9. ASSUME NEW v \in Nat, v \notin ValuesOf(m)
      PROVE  Uses(m, v) = {}
  <2>1. ASSUME NEW u \in Uses(m, v) PROVE FALSE
    <3>1. u[1] \in 1 .. n /\ u[2] \in 1 .. Len(m[u[1]].in) /\ m[u[1]].in[u[2]] = v
      BY <1>1, PlacesAreTyped DEF Uses
    <3>2. PICK j \in 1 .. u[1] - 1 : v \in Range(m[j].out)
      BY <1>1, <3>1 DEF MadeBefore
    <3>3. j \in 1 .. n
      BY <1>1, <3>1
    <3> QED BY <1>9, <3>2, <3>3 DEF ValuesOf
  <2> QED BY <2>1
<1>10. \A v \in ValuesOf(m) : v \in Nat
  <2> SUFFICES ASSUME NEW v \in ValuesOf(m) PROVE v \in Nat
    OBVIOUS
  <2>1. PICK i \in 1 .. n : v \in Range(m[i].out)
    BY DEF ValuesOf
  <2>2. m[i].out \in Seq(Nat)
    BY <1>1, PlacesAreTyped DEF OpType
  <2> QED BY <2>1, <2>2 DEF Range
<1>11. Linear(m) <=> \A v \in ValuesOf(m) : Once(m, Uses(m, v))
  BY DEF Linear, Once
<1>12. Linear(m) <=> \A v \in Nat : Once(m, Uses(m, v))
  BY <1>9, <1>10, <1>11 DEF Once
<1>13. end.ok <=> \A v \in Nat : Once(m, Uses(m, v))
  <2> HIDE DEF end
  <2> QED BY <1>7, <1>8 DEF Tracked
<1> QED BY <1>3, <1>12, <1>13

-----------------------------------------------------------------------------
(* The optimizer.  Values made, values made by the ops that stay, and      *)
(* values taken by dead ops, up to op n.                                   *)
ValuesUpto(m, n) == UNION { Range(m[i].out) : i \in 1 .. n }

LiveUpto(m, dead, n) == UNION { Range(m[i].out) : i \in (1 .. n) \ dead }

TakenUpto(m, dead, n) == UNION { Range(m[i].in) : i \in (1 .. n) \cap dead }

GateOps(m) == { i \in 1 .. Len(m) : m[i].kind \in GateKinds }

(* Values are traced to values of ops that stay, made no later, and no two *)
(* values a dead op does not take to the same one.                         *)
TracedWell(m, dead, n, root) ==
  /\ root \in Roots(m)
  /\ \A v \in ValuesOf(m) : v \notin ValuesUpto(m, n) => root[v] = v
  /\ \A j \in 0 .. n : \A v \in ValuesUpto(m, j) : root[v] \in LiveUpto(m, dead, j)
  /\ \A v, w \in ValuesUpto(m, n) \ TakenUpto(m, dead, n) : root[v] = root[w] => v = w

LEMMA WellFormedMeans ==
  ASSUME NEW m, WellFormed(m)
  PROVE  /\ m \in Seq(OpType) /\ Len(m) \in Nat
         /\ ValuesOf(m) \in SUBSET Nat /\ ValuesOf(m) = ValuesUpto(m, Len(m))
         /\ \A i \in 1 .. Len(m) :
              /\ m[i] \in OpType /\ m[i].in \in Seq(Nat) /\ m[i].out \in Seq(Nat)
              /\ Len(m[i].in) \in Nat /\ Len(m[i].out) \in Nat
              /\ DOMAIN m[i].in = 1 .. Len(m[i].in) /\ DOMAIN m[i].out = 1 .. Len(m[i].out)
              /\ Range(m[i].in) = { m[i].in[k] : k \in 1 .. Len(m[i].in) }
              /\ Range(m[i].out) = { m[i].out[k] : k \in 1 .. Len(m[i].out) }
              /\ \A k \in 1 .. Len(m[i].in) : m[i].in[k] \in ValuesUpto(m, i - 1)
              /\ \A k \in 1 .. Len(m[i].out) : m[i].out[k] \in ValuesUpto(m, i)
              /\ ValuesUpto(m, i - 1) \subseteq ValuesOf(m)
              /\ ValuesUpto(m, i) = ValuesUpto(m, i - 1) \cup Range(m[i].out)
              /\ ValuesUpto(m, i - 1) \cap Range(m[i].out) = {}
<1>1. /\ m \in Seq(OpType) /\ Len(m) \in Nat /\ MadeOnce(m) /\ MadeBefore(m)
  BY PlacesAreTyped DEF WellFormed
<1>2. ASSUME NEW i \in 1 .. Len(m)
      PROVE  /\ m[i] \in OpType /\ m[i].in \in Seq(Nat) /\ m[i].out \in Seq(Nat)
             /\ Len(m[i].in) \in Nat /\ Len(m[i].out) \in Nat
             /\ DOMAIN m[i].in = 1 .. Len(m[i].in) /\ DOMAIN m[i].out = 1 .. Len(m[i].out)
             /\ Range(m[i].in) = { m[i].in[k] : k \in 1 .. Len(m[i].in) }
             /\ Range(m[i].out) = { m[i].out[k] : k \in 1 .. Len(m[i].out) }
             /\ Range(m[i].out) \in SUBSET Nat
  <2>1. m[i] \in OpType
    BY <1>1, ElementOfSeq
  <2>2. m[i].in \in Seq(Nat) /\ m[i].out \in Seq(Nat)
    BY <2>1 DEF OpType
  <2> QED BY <2>1, <2>2, LenProperties, ElementOfSeq DEF Range
<1>3. ASSUME NEW i \in 1 .. Len(m)
      PROVE  /\ \A k \in 1 .. Len(m[i].in) : m[i].in[k] \in ValuesUpto(m, i - 1)
             /\ \A k \in 1 .. Len(m[i].out) : m[i].out[k] \in ValuesUpto(m, i)
             /\ ValuesUpto(m, i - 1) \subseteq ValuesOf(m)
             /\ ValuesUpto(m, i) = ValuesUpto(m, i - 1) \cup Range(m[i].out)
             /\ ValuesUpto(m, i - 1) \cap Range(m[i].out) = {}
  <2>1. 1 .. i = (1 .. i - 1) \cup {i} /\ 1 .. i - 1 \subseteq 1 .. Len(m) /\ i \notin 1 .. i - 1
    BY <1>1
  <2>2. \A k \in 1 .. Len(m[i].in) : m[i].in[k] \in ValuesUpto(m, i - 1)
    BY <1>1 DEF MadeBefore, ValuesUpto
  <2>3. ValuesUpto(m, i - 1) \subseteq ValuesOf(m)
    BY <2>1 DEF ValuesUpto, ValuesOf
  <2>4. ValuesUpto(m, i) = ValuesUpto(m, i - 1) \cup Range(m[i].out)
    BY <2>1 DEF ValuesUpto
  <2>5. ASSUME NEW v \in ValuesUpto(m, i - 1), v \in Range(m[i].out) PROVE FALSE
    <3>1. PICK j \in 1 .. i - 1 : v \in Range(m[j].out)
      BY DEF ValuesUpto
    <3>2. j \in 1 .. Len(m) /\ j # i
      BY <2>1
    <3>3. /\ \E k \in 1 .. Len(m[j].out) : v = m[j].out[k]
          /\ \E l \in 1 .. Len(m[i].out) : v = m[i].out[l]
      BY <1>2, <2>5, <3>1, <3>2
    <3>4. PICK k \in 1 .. Len(m[j].out), l \in 1 .. Len(m[i].out) : m[j].out[k] = m[i].out[l]
      BY <3>3
    <3>5. MadeOnce(m) /\ i \in 1 .. Len(m)
      BY <1>1
    <3> QED BY ONLY <3>2, <3>4, <3>5, MadeOnceMeans
  <2> QED BY <1>2, <2>2, <2>3, <2>4, <2>5
<1>4. ValuesOf(m) \in SUBSET Nat /\ ValuesOf(m) = ValuesUpto(m, Len(m))
  BY <1>2 DEF ValuesOf, ValuesUpto
<1> QED BY <1>1, <1>2, <1>3, <1>4

LEMMA TakenIsInRange ==
  ASSUME NEW m, WellFormed(m), NEW i \in 1 .. Len(m)
  PROVE  /\ \A k \in 1 .. Len(m[i].in) : m[i].in[k] \in Range(m[i].in)
         /\ \A k \in 1 .. Len(m[i].out) : m[i].out[k] \in Range(m[i].out)
<1>1. /\ DOMAIN m[i].in = 1 .. Len(m[i].in)
      /\ DOMAIN m[i].out = 1 .. Len(m[i].out)
  BY WellFormedMeans
<1> QED BY <1>1 DEF Range

LEMMA TakenByIndex ==
  ASSUME NEW m, WellFormed(m), NEW i \in 1 .. Len(m), NEW v \in Range(m[i].in)
  PROVE  \E k \in 1 .. Len(m[i].in) : v = m[i].in[k]
<1>1. DOMAIN m[i].in = 1 .. Len(m[i].in)
  BY WellFormedMeans
<1> QED BY <1>1 DEF Range

LEMMA TakenByDead ==
  ASSUME NEW m, WellFormed(m), NEW dead \in SUBSET GateOps(m), NEW n \in 0 .. Len(m),
         NEW x \in TakenUpto(m, dead, n)
  PROVE  \E j \in (1 .. n) \cap dead :
           /\ j \in 1 .. Len(m) /\ ConsumesQubits(m[j].kind)
           /\ \E l \in 1 .. Len(m[j].in) : x = m[j].in[l]
<1>1. PICK j \in (1 .. n) \cap dead : x \in Range(m[j].in)
  BY DEF TakenUpto
<1>2. j \in 1 .. Len(m) /\ ConsumesQubits(m[j].kind)
  BY DEF GateOps, ConsumesQubits
<1>3. \E l \in 1 .. Len(m[j].in) : x = m[j].in[l]
  BY <1>1, <1>2, TakenByIndex
<1> QED BY <1>2, <1>3

(* What a gate takes, nothing else takes.                                  *)
LEMMA GateTakesAlone ==
  ASSUME NEW m, WellFormed(m), Linear(m),
         NEW i \in GateOps(m), NEW k \in 1 .. Len(m[i].in),
         NEW j \in 1 .. Len(m), NEW l \in 1 .. Len(m[j].in),
         ConsumesQubits(m[j].kind), m[i].in[k] = m[j].in[l]
  PROVE  i = j /\ k = l
<1> DEFINE v == m[i].in[k]
<1>1. /\ i \in 1 .. Len(m) /\ m[i].kind \in GateKinds
      /\ m[i].kind # "measure" /\ m[i].kind # "reset" /\ ConsumesQubits(m[i].kind)
  BY DEF GateOps, GateKinds, OneQubitGates, TwoQubitGates, ConsumesQubits
<1>2. v \in ValuesOf(m)
  BY <1>1, WellFormedMeans
<1>3. <<i, k>> \in Uses(m, v) /\ <<j, l>> \in Uses(m, v)
  BY <1>1, PlacesAreTyped DEF Uses, WellFormed
<1>4. i <= j \/ j <= i
  <2>1. i \in Nat /\ j \in Nat
    BY <1>1, WellFormedMeans
  <2> QED BY <2>1
<1>5. <<i, k>> = <<j, l>>
  <2> SUFFICES ASSUME <<i, k>> # <<j, l>> PROVE FALSE
    OBVIOUS
  <2>1. <<i, k>>[1] = i /\ <<j, l>>[1] = j
    OBVIOUS
  <2> QED BY <1>1, <1>2, <1>3, <1>4, <2>1 DEF Linear
<1> QED BY <1>5

LEMMA TraceKeeps ==
  ASSUME NEW m, WellFormed(m), Linear(m), NEW dead \in SUBSET GateOps(m),
         NEW i \in 1 .. Len(m), NEW root, TracedWell(m, dead, i - 1, root)
  PROVE  TracedWell(m, dead, i, TraceStep(m, dead, i)[root])
<1> DEFINE op   == m[i]
           next == TraceStep(m, dead, i)[root]
           pos(v) == CHOOSE k \in DOMAIN op.out : op.out[k] = v
           made == Range(op.out)
<1>1. /\ Len(m) \in Nat /\ i \in Nat /\ i \in 0 .. i /\ i - 1 \in 0 .. i - 1
      /\ \A j \in 0 .. i : j = i \/ j \in 0 .. i - 1
      /\ MadeOnce(m) /\ GatesThread(m) /\ root \in Roots(m)
  BY WellFormedMeans DEF WellFormed, TracedWell
<1>2. /\ ValuesUpto(m, i - 1) \subseteq ValuesOf(m)
      /\ ValuesUpto(m, i) = ValuesUpto(m, i - 1) \cup made
      /\ ValuesUpto(m, i - 1) \cap made = {}
      /\ \A k \in 1 .. Len(op.in) : op.in[k] \in ValuesUpto(m, i - 1)
      /\ made = { op.out[k] : k \in 1 .. Len(op.out) }
      /\ made \subseteq ValuesOf(m)
  <2>1. made \subseteq ValuesOf(m)
    BY DEF ValuesOf
  <2> QED BY <2>1, WellFormedMeans
<1>3. ASSUME NEW j \in 0 .. i - 1
      PROVE  ValuesUpto(m, j) \subseteq ValuesUpto(m, i - 1)
  <2>1. 1 .. j \subseteq 1 .. i - 1
    BY <1>1
  <2> QED BY <2>1 DEF ValuesUpto
<1>4. LiveUpto(m, dead, i - 1) \subseteq LiveUpto(m, dead, i)
  <2>1. 1 .. i - 1 \subseteq 1 .. i
    BY <1>1
  <2> QED BY <2>1 DEF LiveUpto
<1>5. CASE i \in dead
  <2>1. next = TracedThrough(root, op)
    BY <1>1, <1>5 DEF TraceStep
  <2>2. /\ op.kind \in GateKinds /\ Len(op.in) = Len(op.out) /\ i \in GateOps(m)
        /\ ConsumesQubits(op.kind)
    BY <1>1, <1>5 DEF GateOps, GatesThread, ConsumesQubits
  <2>3. ASSUME NEW v \in made
        PROVE  /\ pos(v) \in 1 .. Len(op.in) /\ op.out[pos(v)] = v
               /\ next[v] = root[op.in[pos(v)]]
    <3>1. DOMAIN op.out = 1 .. Len(op.out)
      BY WellFormedMeans
    <3>2. pos(v) \in 1 .. Len(op.out) /\ op.out[pos(v)] = v
      BY <1>2, <3>1
    <3>3. v \in DOMAIN root
      BY <1>1, <1>2 DEF Roots
    <3> QED BY <2>1, <2>2, <3>2, <3>3 DEF TracedThrough
  <2>4. ASSUME NEW v \in ValuesOf(m), v \notin made
        PROVE  next[v] = root[v]
    BY <1>1, <2>1, <2>4 DEF TracedThrough, Roots
  <2> DEFINE origin(v) == IF v \in made THEN op.in[pos(v)] ELSE v
  <2>5. ASSUME NEW v \in ValuesOf(m)
        PROVE  next[v] = root[origin(v)]
    BY <2>3, <2>4
  <2>6. next \in Roots(m)
    <3>1. DOMAIN root = ValuesOf(m)
      BY <1>1 DEF Roots
    <3>2. DOMAIN next = ValuesOf(m) /\ next = [v \in ValuesOf(m) |-> next[v]]
      BY <2>1, <3>1 DEF TracedThrough
    <3>3. ASSUME NEW v \in ValuesOf(m) PROVE next[v] \in ValuesOf(m)
      <4>1. origin(v) \in ValuesOf(m)
        BY <1>2, <2>3
      <4> HIDE DEF origin, next
      <4> QED BY <1>1, <2>5, <4>1 DEF Roots
    <3> HIDE DEF next
    <3> QED BY <3>2, <3>3 DEF Roots
  <2> HIDE DEF next, pos, made
  <2>7. ASSUME NEW v \in ValuesOf(m), v \notin ValuesUpto(m, i)
        PROVE  next[v] = v
    BY <1>2, <2>4, <2>7 DEF TracedWell
  <2>8. ASSUME NEW j \in 0 .. i, NEW v \in ValuesUpto(m, j)
        PROVE  next[v] \in LiveUpto(m, dead, j)
    <3>1. CASE j \in 0 .. i - 1
      <4>1. v \in ValuesOf(m) /\ v \notin made
        BY <1>2, <1>3, <2>8, <3>1
      <4> QED BY <2>4, <2>8, <3>1, <4>1 DEF TracedWell
    <3>2. CASE j = i
      <4>1. v \in ValuesOf(m) /\ origin(v) \in ValuesUpto(m, i - 1)
        BY <1>2, <2>3, <2>8, <3>2
      <4>2. root[origin(v)] \in LiveUpto(m, dead, i - 1)
        BY <1>1, <4>1 DEF TracedWell
      <4> QED BY <1>4, <2>5, <3>2, <4>1, <4>2
    <3> QED BY <1>1, <3>1, <3>2
  <2>9. ASSUME NEW v \in ValuesUpto(m, i) \ TakenUpto(m, dead, i),
               NEW w \in ValuesUpto(m, i) \ TakenUpto(m, dead, i), next[v] = next[w]
        PROVE  v = w
    <3>1. /\ \A k \in 1 .. Len(op.in) : op.in[k] \in TakenUpto(m, dead, i)
          /\ TakenUpto(m, dead, i - 1) \subseteq TakenUpto(m, dead, i)
      <4>1. \A k \in 1 .. Len(op.in) : op.in[k] \in Range(op.in)
        BY TakenIsInRange
      <4>2. i \in (1 .. i) \cap dead /\ 1 .. i - 1 \subseteq 1 .. i
        BY <1>1, <1>5
      <4> QED BY <4>1, <4>2 DEF TakenUpto
    <3>2. ASSUME NEW k \in 1 .. Len(op.in)
          PROVE  op.in[k] \notin TakenUpto(m, dead, i - 1)
      <4> SUFFICES ASSUME op.in[k] \in TakenUpto(m, dead, i - 1) PROVE FALSE
        OBVIOUS
      <4>1. i - 1 \in 0 .. Len(m)
        BY <1>1
      <4>2. PICK j \in (1 .. i - 1) \cap dead :
              /\ j \in 1 .. Len(m) /\ ConsumesQubits(m[j].kind)
              /\ \E l \in 1 .. Len(m[j].in) : op.in[k] = m[j].in[l]
        BY <4>1, TakenByDead
      <4>3. j # i
        BY <1>1
      <4> QED BY <2>2, <4>2, <4>3, GateTakesAlone
    <3>3. ASSUME NEW x \in ValuesUpto(m, i) \ TakenUpto(m, dead, i)
          PROVE  origin(x) \in ValuesUpto(m, i - 1) \ TakenUpto(m, dead, i - 1)
      BY <1>2, <2>3, <3>1, <3>2
    <3>4. v \in ValuesOf(m) /\ w \in ValuesOf(m)
      BY <1>2
    <3>5. origin(v) = origin(w)
      <4> HIDE DEF origin
      <4>1. root[origin(v)] = root[origin(w)]
        BY <2>5, <2>9, <3>4
      <4> QED BY <3>3, <4>1 DEF TracedWell
    <3>6. CASE v \in made /\ w \in made
      <4>1. op.in[pos(v)] = op.in[pos(w)]
        BY <3>5, <3>6
      <4>2. pos(v) = pos(w)
        BY <2>2, <2>3, <3>6, <4>1, GateTakesAlone
      <4> QED BY <2>3, <3>6, <4>2
    <3>7. CASE v \in made /\ w \notin made
      BY <2>3, <3>1, <3>5, <3>7
    <3>8. CASE v \notin made /\ w \in made
      BY <2>3, <3>1, <3>5, <3>8
    <3>9. CASE v \notin made /\ w \notin made
      BY <3>5, <3>9
    <3> QED BY <3>6, <3>7, <3>8, <3>9
  <2>10. TracedWell(m, dead, i, next)
    BY <2>6, <2>7, <2>8, <2>9 DEF TracedWell
  <2> QED BY <2>10 DEF next
<1>6. CASE i \notin dead
  <2>1. next = root
    BY <1>1, <1>6 DEF TraceStep
  <2> HIDE DEF next, made
  <2>2. TakenUpto(m, dead, i) = TakenUpto(m, dead, i - 1)
    <3>1. (1 .. i) \cap dead = (1 .. i - 1) \cap dead
      BY <1>1, <1>6
    <3> QED BY <3>1 DEF TakenUpto
  <2>3. \A v \in made : root[v] = v
    BY <1>2 DEF TracedWell
  <2>4. made \subseteq LiveUpto(m, dead, i)
    <3>1. i \in (1 .. i) \ dead
      BY <1>1, <1>6
    <3> QED BY <3>1 DEF LiveUpto, made
  <2>5. \A v \in ValuesUpto(m, i - 1) :
           root[v] \in LiveUpto(m, dead, i - 1) /\ root[v] \in ValuesUpto(m, i - 1)
    <3>1. LiveUpto(m, dead, i - 1) \subseteq ValuesUpto(m, i - 1)
      BY DEF LiveUpto, ValuesUpto
    <3> QED BY <1>1, <3>1 DEF TracedWell
  <2>6. ASSUME NEW j \in 0 .. i, NEW v \in ValuesUpto(m, j)
        PROVE  root[v] \in LiveUpto(m, dead, j)
    <3>1. CASE j \in 0 .. i - 1
      BY <2>6, <3>1 DEF TracedWell
    <3>2. CASE j = i
      BY <1>2, <1>4, <2>3, <2>4, <2>5, <2>6, <3>2
    <3> QED BY <1>1, <3>1, <3>2
  <2>7. ASSUME NEW v \in ValuesUpto(m, i) \ TakenUpto(m, dead, i),
               NEW w \in ValuesUpto(m, i) \ TakenUpto(m, dead, i), root[v] = root[w]
        PROVE  v = w
    <3>1. CASE v \in made /\ w \in made
      BY <2>3, <2>7, <3>1
    <3>2. CASE v \in made /\ w \notin made
      BY <1>2, <2>3, <2>5, <2>7, <3>2
    <3>3. CASE v \notin made /\ w \in made
      BY <1>2, <2>3, <2>5, <2>7, <3>3
    <3>4. CASE v \notin made /\ w \notin made
      BY <1>2, <2>2, <2>7, <3>4 DEF TracedWell
    <3> QED BY <3>1, <3>2, <3>3, <3>4
  <2>8. \A v \in ValuesOf(m) : v \notin ValuesUpto(m, i) => root[v] = v
    BY <1>2 DEF TracedWell
  <2>9. TracedWell(m, dead, i, root)
    BY <1>1, <2>6, <2>7, <2>8 DEF TracedWell
  <2> QED BY <2>1, <2>9 DEF next
<1> QED BY <1>5, <1>6

LEMMA TracedIsWell ==
  ASSUME NEW m, WellFormed(m), Linear(m), NEW dead \in SUBSET GateOps(m)
  PROVE  TracedWell(m, dead, Len(m), Traced(m, dead)[Len(m)])
<1> DEFINE n     == Len(m)
           steps == [i \in 1 .. n |-> TraceStep(m, dead, i)]
           sets  == [i \in 0 .. n |-> { root \in Roots(m) : TracedWell(m, dead, i, root) }]
<1>1. /\ n \in Nat /\ Len(steps) = n
      /\ \A i \in 1 .. n : steps[i] = TraceStep(m, dead, i)
  BY WellFormedMeans
<1>2. Traced(m, dead) = Through(Itself(m), steps)
  BY DEF Traced
<1> HIDE DEF steps
<1>3. Itself(m) \in sets[0]
  <2>1. Itself(m) \in Roots(m) /\ \A v \in ValuesOf(m) : Itself(m)[v] = v
    BY DEF Itself, Roots
  <2>2. ValuesUpto(m, 0) = {}
    BY DEF ValuesUpto
  <2>3. TracedWell(m, dead, 0, Itself(m))
    BY <2>1, <2>2 DEF TracedWell
  <2> QED BY <1>1, <2>1, <2>3
<1>4. ASSUME NEW i \in 1 .. n, NEW root \in sets[i - 1]
      PROVE  steps[i][root] \in sets[i]
  <2>1. i - 1 \in 0 .. n /\ i \in 0 .. n
    BY <1>1
  <2>2. TracedWell(m, dead, i - 1, root)
    BY <2>1
  <2>3. TracedWell(m, dead, i, steps[i][root])
    BY <1>1, <2>2, TraceKeeps
  <2> QED BY <2>1, <2>3 DEF TracedWell
<1>5. \A i \in 0 .. n : Through(Itself(m), steps)[i] \in sets[i]
  <2> HIDE DEF sets
  <2> QED BY <1>1, <1>3, <1>4, ThroughReaches
<1>6. n \in 0 .. n
  BY <1>1
<1> QED BY <1>2, <1>5, <1>6

(* The ops that stay, in their order.                                      *)
LiveOps(m, dead) == Kept(Indices(m), (1 .. Len(m)) \ dead)

LEMMA LiveOpsEnumerate ==
  ASSUME NEW m, Len(m) \in Nat, NEW dead
  PROVE  LET live == LiveOps(m, dead)
         IN  /\ live \in Seq(Nat) /\ Len(live) \in Nat
             /\ \A p \in 1 .. Len(live) : live[p] \in 1 .. Len(m) /\ live[p] \notin dead
             /\ \A p, q \in 1 .. Len(live) : p < q <=> live[p] < live[q]
             /\ \A p, q \in 1 .. Len(live) : live[p] = live[q] => p = q
             /\ \A i \in 1 .. Len(m) : i \notin dead => \E p \in 1 .. Len(live) : live[p] = i
<1> DEFINE S    == (1 .. Len(m)) \ dead
           live == LiveOps(m, dead)
<1>1. /\ live \in Seq(S)
      /\ \A i, j \in 1 .. Len(live) : i < j => live[i] < live[j]
      /\ \A x \in S : \E i \in 1 .. Len(live) : live[i] = x
  <2>1. Len(m) \in Nat /\ S \in SUBSET (1 .. Len(m))
    OBVIOUS
  <2>2. live = Kept([i \in 1 .. Len(m) |-> i], S)
    BY DEF LiveOps, Indices
  <2> HIDE DEF live, S
  <2> QED BY ONLY <2>1, <2>2, KeptCounts
<1> HIDE DEF live
<1>2. S \subseteq Nat
  OBVIOUS
<1>3. live \in Seq(Nat) /\ Len(live) \in Nat
  <2> HIDE DEF S
  <2> QED BY <1>1, <1>2, SeqMonotonic, LenProperties
<1>4. \A p \in 1 .. Len(live) : live[p] \in S
  <2> HIDE DEF S
  <2> QED BY <1>1, ElementOfSeq
<1>5. ASSUME NEW p \in 1 .. Len(live), NEW q \in 1 .. Len(live)
      PROVE  /\ p < q <=> live[p] < live[q]
             /\ live[p] = live[q] => p = q
  <2>1. live[p] \in Nat /\ live[q] \in Nat /\ p \in Nat /\ q \in Nat
    BY <1>2, <1>4
  <2>2. (p < q => live[p] < live[q]) /\ (q < p => live[q] < live[p])
    BY <1>1
  <2> QED BY <2>1, <2>2
<1> QED BY <1>1, <1>3, <1>4, <1>5 DEF live

(* Each op that stays is copied, on the values its operands are traced to. *)
LEMMA CopiedOps ==
  ASSUME NEW m, WellFormed(m), NEW dead, NEW angle, NEW root
  PROVE  LET live == LiveOps(m, dead)
             out  == Copied(m, dead, angle, root)
         IN  /\ Len(out) = Len(live) /\ DOMAIN out = 1 .. Len(live)
             /\ \A p \in 1 .. Len(live) :
                  out[p] = Op(m[live[p]].kind,
                              [k \in 1 .. Len(m[live[p]].in) |-> root[m[live[p]].in[k]]],
                              m[live[p]].out, angle[live[p]], m[live[p]].name, m[live[p]].qs)
             /\ out = [p \in 1 .. Len(live) |-> out[p]]
<1>1. Len(LiveOps(m, dead)) \in Nat
  BY WellFormedMeans, LiveOpsEnumerate
<1> QED BY <1>1 DEF Copied, LiveOps

LEMMA RootsOf ==
  ASSUME NEW takes, Len(takes) \in Nat, NEW root
  PROVE  LET roots == [k \in 1 .. Len(takes) |-> root[takes[k]]]
         IN  /\ Len(roots) = Len(takes)
             /\ \A k \in 1 .. Len(takes) : roots[k] = root[takes[k]]
OBVIOUS

LEMMA OpFields ==
  ASSUME NEW kind, NEW takes, NEW makes, NEW n, NEW name, NEW qs
  PROVE  LET op == Op(kind, takes, makes, n, name, qs)
         IN  /\ op.kind = kind /\ op.in = takes /\ op.out = makes
             /\ op.n = n /\ op.name = name /\ op.qs = qs
BY DEF Op

(* A copy made with well traced operands is a module like the one copied.  *)
LEMMA CopiedWellFormed ==
  ASSUME NEW m, WellFormed(m), NEW dead \in SUBSET GateOps(m),
         NEW angle \in [1 .. Len(m) -> Int], NEW root, TracedWell(m, dead, Len(m), root)
  PROVE  WellFormed(Copied(m, dead, angle, root))
<1> DEFINE live == LiveOps(m, dead)
           out  == Copied(m, dead, angle, root)
           traced(p) == [k \in 1 .. Len(m[live[p]].in) |-> root[m[live[p]].in[k]]]
<1>1. /\ m \in Seq(OpType) /\ Len(m) \in Nat /\ MadeOnce(m) /\ GatesThread(m)
      /\ ValuesOf(m) \in SUBSET Nat
  BY WellFormedMeans DEF WellFormed
<1>2. /\ Len(live) \in Nat
      /\ \A p \in 1 .. Len(live) : live[p] \in 1 .. Len(m) /\ live[p] \notin dead
      /\ \A p, q \in 1 .. Len(live) : p < q <=> live[p] < live[q]
      /\ \A p, q \in 1 .. Len(live) : live[p] = live[q] => p = q
      /\ \A i \in 1 .. Len(m) : i \notin dead => \E p \in 1 .. Len(live) : live[p] = i
  BY <1>1, LiveOpsEnumerate
<1>3. /\ Len(out) = Len(live) /\ DOMAIN out = 1 .. Len(live)
      /\ \A p \in 1 .. Len(live) :
           out[p] = Op(m[live[p]].kind, traced(p), m[live[p]].out, angle[live[p]],
                       m[live[p]].name, m[live[p]].qs)
      /\ out = [p \in 1 .. Len(live) |-> out[p]]
  BY CopiedOps
<1> HIDE DEF live, out
<1>4. ASSUME NEW p \in 1 .. Len(live)
      PROVE  /\ live[p] \in 1 .. Len(m) /\ live[p] \in Nat
             /\ m[live[p]] \in OpType /\ Len(m[live[p]].in) \in Nat
             /\ Len(m[live[p]].out) \in Nat
             /\ out[p].kind = m[live[p]].kind /\ out[p].in = traced(p)
             /\ out[p].out = m[live[p]].out
             /\ Len(out[p].in) = Len(m[live[p]].in)
             /\ \A k \in 1 .. Len(m[live[p]].in) : out[p].in[k] = root[m[live[p]].in[k]]
  <2>1. live[p] \in 1 .. Len(m)
    BY <1>2
  <2>2. m[live[p]] \in OpType /\ Len(m[live[p]].in) \in Nat /\ Len(m[live[p]].out) \in Nat
    BY <2>1, WellFormedMeans
  <2>3. out[p] = Op(m[live[p]].kind, traced(p), m[live[p]].out, angle[live[p]],
                    m[live[p]].name, m[live[p]].qs)
    BY <1>3
  <2> DEFINE taken == traced(p)
  <2> HIDE DEF taken
  <2>4. out[p].kind = m[live[p]].kind /\ out[p].in = taken /\ out[p].out = m[live[p]].out
    BY ONLY <2>3 DEF Op, taken
  <2>5. out[p].in = [k \in 1 .. Len(m[live[p]].in) |-> root[m[live[p]].in[k]]]
    BY <2>4 DEF taken
  <2>6. /\ Len(out[p].in) = Len(m[live[p]].in)
        /\ \A k \in 1 .. Len(m[live[p]].in) : out[p].in[k] = root[m[live[p]].in[k]]
    BY ONLY <2>2, <2>5, RootsOf
  <2>7. live[p] \in Nat
    BY <1>1, <2>1
  <2>8. out[p].in = traced(p)
    BY <2>4 DEF taken
  <2> HIDE DEF traced
  <2> QED BY ONLY <2>1, <2>2, <2>4, <2>6, <2>7, <2>8
<1>5. ASSUME NEW p \in 1 .. Len(live), NEW k \in 1 .. Len(m[live[p]].in)
      PROVE  /\ root[m[live[p]].in[k]] \in Nat
             /\ \E q \in 1 .. p - 1 : root[m[live[p]].in[k]] \in Range(out[q].out)
  <2> DEFINE v == m[live[p]].in[k]
             i == live[p]
  <2>1. i \in 1 .. Len(m) /\ i - 1 \in 0 .. Len(m) /\ i \in Nat /\ p \in Nat
    BY <1>1, <1>2, <1>4
  <2>2. v \in ValuesUpto(m, i - 1) /\ v \in ValuesOf(m)
    BY <2>1, WellFormedMeans
  <2>3. root[v] \in LiveUpto(m, dead, i - 1) /\ root[v] \in ValuesOf(m)
    BY <2>1, <2>2 DEF TracedWell, Roots
  <2>4. PICK j \in (1 .. i - 1) \ dead : root[v] \in Range(m[j].out)
    BY <2>3 DEF LiveUpto
  <2>5. j \in 1 .. Len(m) /\ j \notin dead /\ j < i
    BY <1>1, <2>1
  <2>6. PICK q \in 1 .. Len(live) : live[q] = j
    BY <1>2, <2>5
  <2>7. q < p
    BY <1>2, <2>5, <2>6
  <2>8. q \in 1 .. p - 1
    BY <2>1, <2>7
  <2>9. out[q].out = m[j].out
    BY <1>4, <2>6
  <2> QED BY <1>1, <2>3, <2>4, <2>8, <2>9
<1>6. ASSUME NEW p \in 1 .. Len(live)
      PROVE  out[p] \in OpType
  <2>1. traced(p) \in Seq(Nat)
    BY <1>4, <1>5
  <2>2. angle[live[p]] \in Int
    BY <1>4
  <2>3. out[p] = Op(m[live[p]].kind, traced(p), m[live[p]].out, angle[live[p]],
                    m[live[p]].name, m[live[p]].qs)
    BY <1>3
  <2>4. m[live[p]] \in OpType
    BY <1>4
  <2> HIDE DEF traced
  <2> QED BY <2>1, <2>2, <2>3, <2>4 DEF OpType, Op
<1>7. out \in Seq(OpType)
  BY <1>2, <1>3, <1>6
<1>8. MadeOnce(out)
  <2>1. \A p \in 1 .. Len(live) : live[p] \in 1 .. Len(m) /\ out[p].out = m[live[p]].out
    BY <1>4
  <2>2. MadeOnce(m) /\ Len(out) = Len(live)
    BY <1>1, <1>3
  <2>3. \A p, q \in 1 .. Len(live) : live[p] = live[q] => p = q
    BY <1>2
  <2>4. MakesWhat(m, live, out)
    BY ONLY <2>1, <2>2, <2>3 DEF MakesWhat
  <2> QED BY ONLY <2>2, <2>4, CopiesMakeOnce
<1>9. MadeBefore(out)
  <2> SUFFICES ASSUME NEW p \in 1 .. Len(live), NEW k \in 1 .. Len(out[p].in)
               PROVE  \E q \in 1 .. p - 1 : out[p].in[k] \in Range(out[q].out)
    BY <1>3 DEF MadeBefore
  <2>1. /\ k \in 1 .. Len(m[live[p]].in)
        /\ out[p].in[k] = root[m[live[p]].in[k]]
    BY <1>4
  <2> QED BY <1>5, <2>1
<1>10. GatesThread(out)
  <2> SUFFICES ASSUME NEW p \in 1 .. Len(live), out[p].kind \in GateKinds
               PROVE  Len(out[p].in) = Len(out[p].out) /\ Len(out[p].in) > 0
    BY <1>3 DEF GatesThread
  <2>1. /\ live[p] \in 1 .. Len(m) /\ m[live[p]].kind \in GateKinds
        /\ out[p].out = m[live[p]].out /\ Len(out[p].in) = Len(m[live[p]].in)
    BY <1>4
  <2> QED BY <1>1, <2>1 DEF GatesThread
<1> QED BY <1>7, <1>8, <1>9, <1>10 DEF WellFormed, out

(* A use in the copy is a use of a value no dead op takes.                 *)
CopiesUse(m, dead, angle, root, v, u) ==
  LET live == LiveOps(m, dead)
      out  == Copied(m, dead, angle, root)
      w    == m[live[u[1]]].in[u[2]]
  IN  /\ u[1] \in 1 .. Len(live) /\ u = <<u[1], u[2]>> /\ root[w] = v
      /\ u[1] \in Nat /\ live[u[1]] \in Nat
      /\ w \in ValuesUpto(m, Len(m)) \ TakenUpto(m, dead, Len(m))
      /\ <<live[u[1]], u[2]>> \in Uses(m, w)
      /\ out[u[1]].kind = m[live[u[1]]].kind

LEMMA CopiedUse ==
  ASSUME NEW m, WellFormed(m), Linear(m), NEW dead \in SUBSET GateOps(m),
         NEW angle \in [1 .. Len(m) -> Int], NEW root, TracedWell(m, dead, Len(m), root),
         NEW v, NEW u \in Uses(Copied(m, dead, angle, root), v)
  PROVE  CopiesUse(m, dead, angle, root, v, u)
<1> DEFINE live == LiveOps(m, dead)
           out  == Copied(m, dead, angle, root)
           w    == m[live[u[1]]].in[u[2]]
           i    == live[u[1]]
<1>1. m \in Seq(OpType) /\ Len(m) \in Nat /\ ValuesOf(m) = ValuesUpto(m, Len(m))
  BY WellFormedMeans
<1>2. /\ Len(live) \in Nat
      /\ \A p \in 1 .. Len(live) : live[p] \in 1 .. Len(m) /\ live[p] \notin dead
  BY <1>1, LiveOpsEnumerate
<1>3. out \in Seq(OpType)
  BY CopiedWellFormed DEF WellFormed
<1>4. /\ Len(out) = Len(live)
      /\ \A p \in 1 .. Len(live) :
           out[p] = Op(m[live[p]].kind,
                       [k \in 1 .. Len(m[live[p]].in) |-> root[m[live[p]].in[k]]],
                       m[live[p]].out, angle[live[p]], m[live[p]].name, m[live[p]].qs)
  BY CopiedOps
<1> HIDE DEF live, out
<1>5. /\ u \in Places(out) /\ ConsumesQubits(out[u[1]].kind) /\ out[u[1]].in[u[2]] = v
  BY DEF Uses, out
<1>6. /\ u[1] \in 1 .. Len(live) /\ u[2] \in 1 .. Len(out[u[1]].in) /\ u = <<u[1], u[2]>>
  BY <1>3, <1>4, <1>5, PlacesAreTyped
<1>7. i \in 1 .. Len(m) /\ i \notin dead /\ i \in Nat /\ u[1] \in Nat
  BY <1>1, <1>2, <1>6
<1>8. Len(m[i].in) \in Nat
  BY <1>7, WellFormedMeans
<1>9. /\ out[u[1]].kind = m[i].kind /\ u[2] \in 1 .. Len(m[i].in) /\ root[w] = v
  <2> DEFINE traced == [k \in 1 .. Len(m[live[u[1]]].in) |-> root[m[live[u[1]]].in[k]]]
  <2>3. out[u[1]] = Op(m[i].kind, traced, m[i].out, angle[i], m[i].name, m[i].qs)
    BY <1>4, <1>6
  <2> HIDE DEF traced, i
  <2>4. out[u[1]].kind = m[i].kind /\ out[u[1]].in = traced
    BY ONLY <2>3 DEF Op
  <2>1. /\ out[u[1]].kind = m[i].kind
        /\ out[u[1]].in = [k \in 1 .. Len(m[i].in) |-> root[m[i].in[k]]]
    BY ONLY <2>4 DEF traced, i
  <2>2. /\ Len(out[u[1]].in) = Len(m[i].in)
        /\ \A k \in 1 .. Len(m[i].in) : out[u[1]].in[k] = root[m[i].in[k]]
    BY ONLY <1>8, <2>1, RootsOf
  <2>5. u[2] \in 1 .. Len(m[i].in)
    BY ONLY <1>6, <2>2
  <2>6. out[u[1]].in[u[2]] = root[m[i].in[u[2]]]
    BY ONLY <2>2, <2>5
  <2> QED BY <1>5, <2>1, <2>5, <2>6 DEF i
<1>10. w \in ValuesUpto(m, Len(m))
  <2>1. w \in ValuesUpto(m, i - 1) /\ ValuesUpto(m, i - 1) \subseteq ValuesOf(m)
    BY <1>7, <1>9, WellFormedMeans
  <2> QED BY <1>1, <2>1
<1>11. w \notin TakenUpto(m, dead, Len(m))
  <2> HIDE DEF w, i
  <2> SUFFICES ASSUME w \in TakenUpto(m, dead, Len(m)) PROVE FALSE
    OBVIOUS
  <2>1. Len(m) \in 0 .. Len(m)
    BY <1>1
  <2>2. PICK j \in (1 .. Len(m)) \cap dead :
          /\ j \in 1 .. Len(m) /\ ConsumesQubits(m[j].kind)
          /\ \E l \in 1 .. Len(m[j].in) : w = m[j].in[l]
    BY <2>1, TakenByDead
  <2>3. PICK l \in 1 .. Len(m[j].in) : w = m[j].in[l]
    BY <2>2
  <2>4. j \in GateOps(m) /\ ConsumesQubits(m[i].kind)
    BY <1>5, <1>9
  <2>5. u[2] \in 1 .. Len(m[i].in) /\ m[i].in[u[2]] = m[j].in[l]
    BY <1>9, <2>3 DEF w, i
  <2>6. i = j
    BY <1>7, <2>2, <2>4, <2>5, GateTakesAlone
  <2> QED BY <1>7, <2>2, <2>6
<1>12. <<i, u[2]>> \in Uses(m, w)
  <2>1. <<i, u[2]>> \in Places(m)
    BY <1>1, <1>7, <1>9, PlacesAreTyped
  <2> QED BY <1>5, <1>9, <2>1 DEF Uses
<1> QED BY <1>6, <1>7, <1>9, <1>10, <1>11, <1>12 DEF live, out, CopiesUse

LEMMA CopiedLinear ==
  ASSUME NEW m, WellFormed(m), Linear(m), NEW dead \in SUBSET GateOps(m),
         NEW angle \in [1 .. Len(m) -> Int], NEW root, TracedWell(m, dead, Len(m), root)
  PROVE  Linear(Copied(m, dead, angle, root))
<1> DEFINE live == LiveOps(m, dead)
           out  == Copied(m, dead, angle, root)
           old(u) == m[live[u[1]]].in[u[2]]
           at(u)  == <<live[u[1]], u[2]>>
           last == Len(m)
<1> SUFFICES ASSUME NEW v \in ValuesOf(out), NEW s \in Uses(out, v), NEW t \in Uses(out, v),
                    s # t, s[1] <= t[1]
             PROVE  /\ out[s[1]].kind = "measure" /\ out[t[1]].kind = "reset"
                    /\ Uses(out, v) = {s, t}
  BY DEF Linear
<1>1. Len(m) \in Nat /\ ValuesOf(m) = ValuesUpto(m, last)
  BY WellFormedMeans
<1>2. /\ \A p, q \in 1 .. Len(live) : p < q <=> live[p] < live[q]
      /\ \A p, q \in 1 .. Len(live) : live[p] = live[q] => p = q
  BY <1>1, LiveOpsEnumerate
<1>3. ASSUME NEW u \in Uses(out, v)
      PROVE  /\ u[1] \in 1 .. Len(live) /\ u = <<u[1], u[2]>> /\ root[old(u)] = v
             /\ u[1] \in Nat /\ live[u[1]] \in Nat
             /\ old(u) \in ValuesUpto(m, last) \ TakenUpto(m, dead, last)
             /\ at(u) \in Uses(m, old(u))
             /\ out[u[1]].kind = m[live[u[1]]].kind
  <2>1. CopiesUse(m, dead, angle, root, v, u)
    BY CopiedUse
  <2> QED BY ONLY <2>1 DEF CopiesUse
<1> HIDE DEF live, out, old
<1>4. \A u \in Uses(out, v) : old(u) = old(s)
  <2> SUFFICES ASSUME NEW u \in Uses(out, v) PROVE old(u) = old(s)
    OBVIOUS
  <2> DEFINE x == old(u)
             y == old(s)
  <2>1. /\ root[x] = v /\ x \in ValuesUpto(m, last) \ TakenUpto(m, dead, last)
        /\ root[y] = v /\ y \in ValuesUpto(m, last) \ TakenUpto(m, dead, last)
    BY <1>3
  <2>2. \A a, b \in ValuesUpto(m, last) \ TakenUpto(m, dead, last) : root[a] = root[b] => a = b
    BY ONLY TracedWell(m, dead, Len(m), root) DEF TracedWell, last
  <2> HIDE DEF x, y
  <2>3. x = y
    BY ONLY <2>1, <2>2
  <2> QED BY <2>3 DEF x, y
<1>5. \A a, b \in Uses(out, v) : at(a) = at(b) => a = b
  <2> SUFFICES ASSUME NEW a \in Uses(out, v), NEW b \in Uses(out, v), at(a) = at(b)
               PROVE  a = b
    OBVIOUS
  <2>1. live[a[1]] = live[b[1]] /\ a[2] = b[2]
    OBVIOUS
  <2>2. a[1] = b[1]
    BY <1>2, <1>3, <2>1
  <2> QED BY <1>3, <2>1, <2>2
<1>6. live[s[1]] <= live[t[1]]
  <2>1. /\ s[1] \in 1 .. Len(live) /\ s[1] \in Nat /\ live[s[1]] \in Nat
        /\ t[1] \in 1 .. Len(live) /\ t[1] \in Nat /\ live[t[1]] \in Nat
    BY <1>3
  <2>2. t[1] < s[1] <=> live[t[1]] < live[s[1]]
    BY <1>2, <2>1
  <2> QED BY <2>1, <2>2
<1>7. /\ at(s)[1] = live[s[1]] /\ at(t)[1] = live[t[1]]
      /\ at(s) # at(t) /\ at(s) \in Uses(m, old(s)) /\ at(t) \in Uses(m, old(s))
      /\ old(s) \in ValuesOf(m)
  BY <1>1, <1>3, <1>4, <1>5
<1>8. /\ m[live[s[1]]].kind = "measure" /\ m[live[t[1]]].kind = "reset"
      /\ Uses(m, old(s)) = {at(s), at(t)}
  BY <1>6, <1>7 DEF Linear
<1>9. ASSUME NEW u \in Uses(out, v)
      PROVE  u \in {s, t}
  <2>1. at(u) \in {at(s), at(t)}
    BY <1>3, <1>4, <1>8
  <2> QED BY <1>5, <2>1
<1> QED BY <1>3, <1>8, <1>9

LEMMA CompactKeeps ==
  ASSUME NEW m, WellFormed(m), Linear(m), NEW dead \in SUBSET GateOps(m),
         NEW angle \in [1 .. Len(m) -> Int]
  PROVE  WellFormed(Compact(m, dead, angle)) /\ Linear(Compact(m, dead, angle))
<1>1. TracedWell(m, dead, Len(m), Traced(m, dead)[Len(m)])
  BY TracedIsWell
<1> QED BY <1>1, CopiedWellFormed, CopiedLinear DEF Compact

(* Only gates are ever marked dead.                                        *)
LEMMA MadeIsTyped ==
  ASSUME NEW m, NEW prev \in [ValuesOf(m) -> 0 .. Len(m)], NEW i \in 0 .. Len(m), NEW op
  PROVE  Made(prev, op, i) \in [ValuesOf(m) -> 0 .. Len(m)]
BY DEF Made

LEMMA OperandsAreMade ==
  ASSUME NEW m, WellFormed(m), NEW i \in GateOps(m),
         NEW prev \in [ValuesOf(m) -> 0 .. Len(m)]
  PROVE  prev[m[i].in[1]] \in 0 .. Len(m)
<1>1. /\ i \in 1 .. Len(m) /\ Len(m[i].in) \in Nat /\ Len(m[i].in) > 0
  BY WellFormedMeans DEF GateOps, WellFormed, GatesThread
<1>2. 1 \in 1 .. Len(m[i].in)
  BY <1>1
<1>3. m[i].in[1] \in ValuesUpto(m, i - 1) /\ ValuesUpto(m, i - 1) \subseteq ValuesOf(m)
  BY <1>1, <1>2, WellFormedMeans
<1> QED BY <1>3

LEMMA CancelStepKeeps ==
  ASSUME NEW m, WellFormed(m), NEW i \in 1 .. Len(m),
         NEW st \in CancelStates(m), st.dead \subseteq GateOps(m)
  PROVE  LET next == CancelStep(m, i)[st]
         IN  next \in CancelStates(m) /\ next.dead \subseteq GateOps(m)
<1> DEFINE p    == st.prev[m[i].in[1]]
           next == CancelStep(m, i)[st]
<1> SUFFICES next \in CancelStates(m) /\ next.dead \subseteq GateOps(m)
  OBVIOUS
<1>1. /\ st.prev \in [ValuesOf(m) -> 0 .. Len(m)] /\ Len(m) \in Nat /\ i \in 0 .. Len(m)
      /\ st.dead \in SUBSET (1 .. Len(m))
  BY WellFormedMeans DEF CancelStates
<1>2. next = IF m[i].kind \in GateKinds /\ Cancels(m, st, i, p)
             THEN [dead |-> st.dead \cup {i, p}, prev |-> st.prev]
             ELSE [dead |-> st.dead, prev |-> Made(st.prev, m[i], i)]
  BY DEF CancelStep
<1> HIDE DEF next
<1>3. CASE m[i].kind \in GateKinds /\ Cancels(m, st, i, p)
  <2>1. i \in GateOps(m)
    BY <1>3 DEF GateOps
  <2>2. p \in 0 .. Len(m) /\ p # 0
    BY <1>1, <1>3, <2>1, OperandsAreMade DEF Cancels, NoOp
  <2> HIDE DEF p
  <2>3. m[p].kind \in GateKinds
    <3>1. InversePair(m[p].kind, m[i].kind)
      BY <1>3 DEF Cancels
    <3>2. \A k, l : InversePair(k, l) => k \in GateKinds
      BY DEF InversePair, SelfInverse, GateKinds, OneQubitGates, TwoQubitGates
    <3> QED BY <3>1, <3>2
  <2>4. p \in GateOps(m)
    BY <1>1, <2>2, <2>3 DEF GateOps
  <2>5. next = [dead |-> st.dead \cup {i, p}, prev |-> st.prev]
    BY <1>2, <1>3
  <2>6. st.dead \cup {i, p} \subseteq GateOps(m) /\ GateOps(m) \subseteq 1 .. Len(m)
    BY <2>1, <2>4 DEF GateOps
  <2> QED BY <1>1, <2>5, <2>6 DEF CancelStates
<1>4. CASE ~(m[i].kind \in GateKinds /\ Cancels(m, st, i, p))
  <2>1. next = [dead |-> st.dead, prev |-> Made(st.prev, m[i], i)]
    BY <1>2, <1>4
  <2>2. Made(st.prev, m[i], i) \in [ValuesOf(m) -> 0 .. Len(m)]
    BY <1>1, MadeIsTyped
  <2> QED BY <1>1, <2>1, <2>2 DEF CancelStates
<1> QED BY <1>3, <1>4

LEMMA CancelledAreGates ==
  ASSUME NEW m, WellFormed(m)
  PROVE  Cancelled(m).dead \in SUBSET GateOps(m)
<1> DEFINE n     == Len(m)
           start == [dead |-> {}, prev |-> NothingMade(m)]
           steps == [i \in 1 .. n |-> CancelStep(m, i)]
           S     == { st \in CancelStates(m) : st.dead \subseteq GateOps(m) }
<1>1. /\ n \in Nat /\ Len(steps) = n /\ n \in 0 .. n
      /\ \A i \in 1 .. n : steps[i] = CancelStep(m, i)
  BY WellFormedMeans
<1>2. Cancelled(m) = Through(start, steps)[n]
  BY DEF Cancelled
<1>3. start \in S
  <2>1. 0 \in 0 .. n
    BY <1>1
  <2> QED BY <2>1 DEF CancelStates, NothingMade, NoOp
<1> HIDE DEF steps, start
<1>4. \A i \in 1 .. n : \A st \in S : steps[i][st] \in S
  BY <1>1, CancelStepKeeps
<1>5. Through(start, steps)[n] \in S
  <2> HIDE DEF S, n
  <2> QED BY <1>1, <1>3, <1>4, ThroughKeeps
<1> QED BY <1>2, <1>5

LEMMA WrappedIsInt ==
  ASSUME NEW x \in Int
  PROVE  Wrapped(x) \in Int
<1> DEFINE r == IF x >= 0 THEN x % Turn ELSE -((-x) % Turn)
<1>1. (x % Turn) \in Int /\ ((-x) % Turn) \in Int /\ Turn \in Int /\ (Turn \div 2) \in Int
  BY TurnAssumption
<1>2. r \in Int
  BY <1>1
<1>3. Wrapped(x) \in {r - Turn, r + Turn, r}
  BY DEF Wrapped
<1> HIDE DEF r
<1> QED BY <1>1, <1>2, <1>3

LEMMA MergeStepKeeps ==
  ASSUME NEW m, WellFormed(m), NEW i \in 1 .. Len(m),
         NEW st \in MergeStates(m), st.dead \subseteq GateOps(m)
  PROVE  LET next == MergeStep(m, i)[st]
         IN  next \in MergeStates(m) /\ next.dead \subseteq GateOps(m)
<1> DEFINE p    == st.prev[m[i].in[1]]
           sum  == Wrapped(st.angle[p] + m[i].n)
           next == MergeStep(m, i)[st]
<1> SUFFICES next \in MergeStates(m) /\ next.dead \subseteq GateOps(m)
  OBVIOUS
<1>1. /\ st.prev \in [ValuesOf(m) -> 0 .. Len(m)] /\ Len(m) \in Nat /\ i \in 0 .. Len(m)
      /\ st.dead \in SUBSET (1 .. Len(m)) /\ st.angle \in [1 .. Len(m) -> Int]
      /\ GateOps(m) \subseteq 1 .. Len(m) /\ m[i].n \in Int
  <2>1. m[i] \in OpType /\ Len(m) \in Nat
    BY WellFormedMeans
  <2>2. m[i].n \in Int
    BY <2>1 DEF OpType
  <2> QED BY <2>1, <2>2 DEF MergeStates, GateOps
<1>2. next = IF m[i].kind \in Rotations /\ Merges(m, st, i, p)
             THEN IF sum = 0
                  THEN [dead |-> st.dead \cup {p, i}, prev |-> st.prev, angle |-> st.angle]
                  ELSE [dead |-> st.dead \cup {i}, prev |-> Made(st.prev, m[i], p),
                        angle |-> [st.angle EXCEPT ![p] = sum]]
             ELSE [dead |-> st.dead, prev |-> Made(st.prev, m[i], i), angle |-> st.angle]
  BY DEF MergeStep
<1> HIDE DEF next
<1>3. CASE m[i].kind \in Rotations /\ Merges(m, st, i, p)
  <2>1. /\ i \in GateOps(m) /\ p # 0 /\ m[p].kind \in GateKinds
    BY <1>3 DEF GateOps, Rotations, GateKinds, OneQubitGates, Merges, NoOp
  <2>2. p \in 1 .. Len(m) /\ p \in 0 .. Len(m)
    BY <1>1, <2>1, OperandsAreMade
  <2>3. p \in GateOps(m)
    BY <2>1, <2>2 DEF GateOps
  <2>4. sum \in Int
    <3>1. st.angle[p] \in Int
      BY <1>1, <2>2
    <3>2. st.angle[p] + m[i].n \in Int
      BY <1>1, <3>1
    <3> QED BY <3>2, WrappedIsInt
  <2>5. Made(st.prev, m[i], p) \in [ValuesOf(m) -> 0 .. Len(m)]
    BY <1>1, <2>2, MadeIsTyped
  <2>6. [st.angle EXCEPT ![p] = sum] \in [1 .. Len(m) -> Int]
    BY <1>1, <2>4
  <2>7. /\ st.dead \cup {p, i} \subseteq GateOps(m) /\ st.dead \cup {p, i} \subseteq 1 .. Len(m)
        /\ st.dead \cup {i} \subseteq GateOps(m) /\ st.dead \cup {i} \subseteq 1 .. Len(m)
    BY <1>1, <2>1, <2>3
  <2> HIDE DEF p, sum
  <2>8. CASE sum = 0
    <3>1. next = [dead |-> st.dead \cup {p, i}, prev |-> st.prev, angle |-> st.angle]
      BY <1>2, <1>3, <2>8
    <3> QED BY <1>1, <2>7, <3>1 DEF MergeStates
  <2>9. CASE sum # 0
    <3>1. next = [dead |-> st.dead \cup {i}, prev |-> Made(st.prev, m[i], p),
                  angle |-> [st.angle EXCEPT ![p] = sum]]
      BY <1>2, <1>3, <2>9
    <3> QED BY <2>5, <2>6, <2>7, <3>1 DEF MergeStates
  <2> QED BY <2>8, <2>9
<1>4. CASE ~(m[i].kind \in Rotations /\ Merges(m, st, i, p))
  <2>1. next = [dead |-> st.dead, prev |-> Made(st.prev, m[i], i), angle |-> st.angle]
    BY <1>2, <1>4
  <2>2. Made(st.prev, m[i], i) \in [ValuesOf(m) -> 0 .. Len(m)]
    BY <1>1, MadeIsTyped
  <2> QED BY <1>1, <2>1, <2>2 DEF MergeStates
<1> QED BY <1>3, <1>4

LEMMA AnglesAreTyped ==
  ASSUME NEW m, WellFormed(m)
  PROVE  Angles(m) \in [1 .. Len(m) -> Int]
<1>1. \A i \in 1 .. Len(m) : m[i].n \in Int
  BY WellFormedMeans DEF OpType
<1> QED BY <1>1 DEF Angles

LEMMA MergedAreGates ==
  ASSUME NEW m, WellFormed(m)
  PROVE  /\ Merged(m).dead \in SUBSET GateOps(m)
         /\ Merged(m).angle \in [1 .. Len(m) -> Int]
<1> DEFINE n     == Len(m)
           start == [dead |-> {}, prev |-> NothingMade(m), angle |-> Angles(m)]
           steps == [i \in 1 .. n |-> MergeStep(m, i)]
           S     == { st \in MergeStates(m) : st.dead \subseteq GateOps(m) }
<1>1. /\ n \in Nat /\ Len(steps) = n /\ n \in 0 .. n
      /\ \A i \in 1 .. n : steps[i] = MergeStep(m, i)
  BY WellFormedMeans
<1>2. Merged(m) = Through(start, steps)[n]
  BY DEF Merged
<1>3. start \in S
  <2>1. 0 \in 0 .. n
    BY <1>1
  <2> QED BY <2>1, AnglesAreTyped DEF MergeStates, NothingMade, NoOp
<1> HIDE DEF steps, start
<1>4. \A i \in 1 .. n : \A st \in S : steps[i][st] \in S
  BY <1>1, MergeStepKeeps
<1>5. Through(start, steps)[n] \in S
  <2> HIDE DEF S, n
  <2> QED BY <1>1, <1>3, <1>4, ThroughKeeps
<1>6. Merged(m) \in S
  BY <1>2, <1>5
<1> QED BY <1>6 DEF MergeStates

(* A pass of the optimizer makes a linear module of a linear one.          *)
LEMMA PassKeepsLinear ==
  ASSUME NEW m, WellFormed(m), Linear(m), NEW pass
  PROVE  WellFormed(PassOf(pass, m)) /\ Linear(PassOf(pass, m))
<1>1. CASE pass = "cancel"
  <2>1. PassOf(pass, m) = Compact(m, Cancelled(m).dead, Angles(m))
    BY <1>1 DEF PassOf, CancelInversePairs
  <2> QED BY <2>1, AnglesAreTyped, CancelledAreGates, CompactKeeps
<1>2. CASE pass # "cancel"
  <2>1. PassOf(pass, m) = Compact(m, Merged(m).dead, Merged(m).angle)
    BY <1>2 DEF PassOf, MergeRotations
  <2> QED BY <2>1, MergedAreGates, CompactKeeps
<1> QED BY <1>1, <1>2

-----------------------------------------------------------------------------
(* Modules grow by one op at a time, whose results have the next numbers.  *)
LEMMA HasHighest ==
  ASSUME NEW n \in Nat, NEW S \in SUBSET (1 .. n), S # {}
  PROVE  \E h \in S : \A x \in S : x <= h
<1> DEFINE D == { n - x : x \in S }
<1>1. D \in SUBSET Nat /\ D # {}
  <2>1. ASSUME NEW x \in S PROVE n - x \in Nat
    <3>1. x \in 1 .. n
      OBVIOUS
    <3> QED BY <3>1
  <2>2. PICK x \in S : TRUE
    OBVIOUS
  <2>3. n - x \in D
    BY <2>2
  <2> QED BY <2>1, <2>3
<1>2. PICK d \in D : \A e \in D : d <= e
  BY <1>1, NatSetHasLowest
<1>3. PICK h \in S : d = n - h
  OBVIOUS
<1>4. ASSUME NEW x \in S PROVE x <= h
  <2>1. n - h <= n - x /\ x \in Nat /\ h \in Nat
    BY <1>2, <1>3
  <2> QED BY <2>1
<1> QED BY <1>4

LEMMA FrontIsShorter ==
  ASSUME NEW S, NEW s \in Seq(S), s # << >>
  PROVE  /\ Front(s) \in Seq(S) /\ Len(Front(s)) = Len(s) - 1 /\ Len(s) \in Nat
         /\ \A k \in 1 .. Len(s) - 1 : Front(s)[k] = s[k]
         /\ Len(s) \in 1 .. Len(s) /\ Last(s) = s[Len(s)] /\ Last(s) \in S
<1>1. Len(s) \in Nat /\ Len(s) \in 1 .. Len(s) /\ \A k \in 1 .. Len(s) : s[k] \in S
  BY EmptySeq, ElementOfSeq
<1>2. \A k \in 1 .. Len(s) - 1 : s[k] \in S
  BY <1>1
<1>3. /\ SubSeq(s, 1, Len(s) - 1) \in Seq(S)
      /\ Len(SubSeq(s, 1, Len(s) - 1)) = IF 1 <= Len(s) - 1 THEN (Len(s) - 1) - 1 + 1 ELSE 0
      /\ \A k \in 1 .. (Len(s) - 1) - 1 + 1 : SubSeq(s, 1, Len(s) - 1)[k] = s[1 + k - 1]
  BY <1>1, <1>2, SubSeqProperties
<1> HIDE DEF Front
<1>4. Front(s) = SubSeq(s, 1, Len(s) - 1) /\ Last(s) = s[Len(s)]
  BY DEF Front, Last
<1>5. \A k \in 1 .. Len(s) - 1 : Front(s)[k] = s[k]
  BY <1>1, <1>3, <1>4
<1>6. Len(s) # 0
  BY EmptySeq
<1>7. Len(Front(s)) = Len(s) - 1
  <2>1. Len(Front(s)) = IF 1 <= Len(s) - 1 THEN (Len(s) - 1) - 1 + 1 ELSE 0
    BY <1>3, <1>4
  <2> HIDE DEF Front, Last
  <2>2. \A a, b \in Int : a > 0 /\ (b = IF 1 <= a - 1 THEN (a - 1) - 1 + 1 ELSE 0) => b = a - 1
    OBVIOUS
  <2>3. Len(s) \in Int /\ Len(s) > 0 /\ Len(Front(s)) \in Int
    BY <1>1, <1>6, <2>1
  <2> QED BY <2>1, <2>2, <2>3
<1>8. Last(s) \in S
  BY <1>1, <1>4
<1> QED BY <1>1, <1>3, <1>4, <1>5, <1>7, <1>8

LEMMA CountUpto ==
  ASSUME NEW n \in Nat
  PROVE  Cardinality(1 .. n) = n
<1>1. Cardinality(1 .. n) = IF 1 > n THEN 0 ELSE n - 1 + 1
  BY FS_Interval
<1> QED BY <1>1

LEMMA NumberedUpto ==
  ASSUME NEW m, NEW n \in Nat, ValuesOf(m) = 1 .. n
  PROVE  Numbered(m)
<1>1. NumValues(m) = n
  BY CountUpto DEF NumValues
<1> QED BY <1>1 DEF Numbered

LEMMA AppendNumbers ==
  ASSUME NEW m \in Seq(OpType), Numbered(m), NEW op \in OpType,
         \A j \in 1 .. Len(op.out) : op.out[j] = NumValues(m) + j
  PROVE  LET next == Append(m, op)
         IN  /\ next \in Seq(OpType) /\ Numbered(next)
             /\ Len(next) = Len(m) + 1 /\ next[Len(m) + 1] = op
             /\ \A i \in 1 .. Len(m) : next[i] = m[i]
             /\ ValuesOf(next) = ValuesOf(m) \cup Range(op.out)
             /\ Range(op.out) = { op.out[j] : j \in 1 .. Len(op.out) }
<1> DEFINE next == Append(m, op)
           N    == NumValues(m)
           c    == Len(op.out)
<1>1. /\ next \in Seq(OpType) /\ Len(next) = Len(m) + 1 /\ next[Len(m) + 1] = op
      /\ \A i \in 1 .. Len(m) : next[i] = m[i]
  BY AppendProperties
<1>2. Len(m) \in Nat /\ op.out \in Seq(Nat) /\ c \in Nat
  BY LenProperties DEF OpType
<1>3. N \in Nat /\ ValuesOf(m) = 1 .. N
  BY DEF Numbered
<1> HIDE DEF next, N
<1>4. ValuesOf(next) = ValuesOf(m) \cup Range(op.out)
  <2>1. 1 .. Len(next) = (1 .. Len(m)) \cup {Len(m) + 1}
    BY <1>1, <1>2
  <2> QED BY <1>1, <2>1 DEF ValuesOf
<1>5. Range(op.out) = { op.out[j] : j \in 1 .. c }
  BY <1>2 DEF Range
<1>6. Range(op.out) = N + 1 .. N + c
  <2>1. ASSUME NEW j \in 1 .. c PROVE op.out[j] \in N + 1 .. N + c
    <3>1. op.out[j] = N + j
      BY DEF N
    <3> HIDE DEF c
    <3> QED BY ONLY <1>2, <1>3, <3>1, j \in 1 .. c
  <2>2. ASSUME NEW v \in N + 1 .. N + c PROVE \E j \in 1 .. c : op.out[j] = v
    <3>1. v - N \in 1 .. c /\ N + (v - N) = v
      BY <1>2, <1>3
    <3> QED BY <3>1 DEF N
  <2> HIDE DEF c
  <2> QED BY <1>5, <2>1, <2>2
<1>7. ValuesOf(next) = 1 .. N + c
  BY <1>2, <1>3, <1>4, <1>6
<1>8. NumValues(next) = N + c
  <2>1. N + c \in Nat
    BY <1>2, <1>3
  <2>2. Cardinality(1 .. N + c) = N + c
    BY <2>1, CountUpto
  <2> QED BY <1>7, <2>2 DEF NumValues
<1>9. Numbered(next)
  BY <1>2, <1>3, <1>7, <1>8 DEF Numbered
<1> QED BY <1>1, <1>4, <1>5, <1>9 DEF next

LEMMA AppendKeeps ==
  ASSUME NEW m, WellFormed(m), Numbered(m), NEW op \in OpType,
         \A j \in 1 .. Len(op.out) : op.out[j] = NumValues(m) + j,
         \A k \in 1 .. Len(op.in) : op.in[k] \in ValuesOf(m),
         op.kind \in GateKinds => Len(op.in) = Len(op.out) /\ Len(op.in) > 0
  PROVE  WellFormed(Append(m, op))
<1> DEFINE next == Append(m, op)
           n    == Len(m)
<1>1. m \in Seq(OpType) /\ n \in Nat /\ MadeOnce(m) /\ MadeBefore(m) /\ GatesThread(m)
  BY WellFormedMeans DEF WellFormed
<1>2. /\ next \in Seq(OpType) /\ Len(next) = n + 1 /\ next[n + 1] = op
      /\ \A i \in 1 .. n : next[i] = m[i]
  BY <1>1, AppendNumbers
<1>3. /\ op.out \in Seq(Nat) /\ Len(op.out) \in Nat
      /\ NumValues(m) \in Nat /\ ValuesOf(m) = 1 .. NumValues(m)
  BY LenProperties DEF OpType, Numbered
<1> HIDE DEF next, n
<1>4. \A i \in 1 .. n + 1 : i \in 1 .. n \/ i = n + 1
  BY <1>1
<1>5. ASSUME NEW i \in 1 .. n, NEW k \in 1 .. Len(m[i].out)
      PROVE  m[i].out[k] \in 1 .. NumValues(m)
  <2>1. i \in 1 .. Len(m)
    BY DEF n
  <2>2. m[i].out[k] \in Range(m[i].out)
    BY <2>1, TakenIsInRange
  <2> QED BY <1>3, <2>1, <2>2 DEF ValuesOf
<1>6. MadeOnce(next)
  <2> SUFFICES ASSUME NEW i \in 1 .. n + 1, NEW j \in 1 .. n + 1,
                      NEW k \in 1 .. Len(next[i].out), NEW l \in 1 .. Len(next[j].out),
                      next[i].out[k] = next[j].out[l]
               PROVE  i = j /\ k = l
    BY <1>2 DEF MadeOnce
  <2>1. CASE i \in 1 .. n /\ j \in 1 .. n
    <3>1. /\ i \in 1 .. Len(m) /\ j \in 1 .. Len(m)
          /\ k \in 1 .. Len(m[i].out) /\ l \in 1 .. Len(m[j].out)
          /\ m[i].out[k] = m[j].out[l]
      BY <1>2, <2>1 DEF n
    <3> QED BY <1>1, <3>1, MadeOnceMeans
  <2>2. CASE i \in 1 .. n /\ j = n + 1
    <3>1. m[i].out[k] \in 1 .. NumValues(m) /\ m[i].out[k] = NumValues(m) + l
      BY <1>2, <1>5, <2>2
    <3>2. l \in Nat /\ l > 0
      BY <1>2, <1>3, <2>2
    <3> QED BY <1>3, <3>1, <3>2
  <2>3. CASE i = n + 1 /\ j \in 1 .. n
    <3>1. m[j].out[l] \in 1 .. NumValues(m) /\ m[j].out[l] = NumValues(m) + k
      BY <1>2, <1>5, <2>3
    <3>2. k \in Nat /\ k > 0
      BY <1>2, <1>3, <2>3
    <3> QED BY <1>3, <3>1, <3>2
  <2>4. CASE i = n + 1 /\ j = n + 1
    <3>1. /\ NumValues(m) + k = NumValues(m) + l /\ k \in Nat /\ l \in Nat
      BY <1>2, <1>3, <2>4
    <3> QED BY <1>3, <2>4, <3>1
  <2> QED BY <1>4, <2>1, <2>2, <2>3, <2>4
<1>7. MadeBefore(next)
  <2> SUFFICES ASSUME NEW i \in 1 .. n + 1, NEW k \in 1 .. Len(next[i].in)
               PROVE  \E j \in 1 .. i - 1 : next[i].in[k] \in Range(next[j].out)
    BY <1>2 DEF MadeBefore
  <2>1. CASE i \in 1 .. n
    <3>1. PICK j \in 1 .. i - 1 : m[i].in[k] \in Range(m[j].out)
      BY <1>1, <1>2, <2>1 DEF MadeBefore, n
    <3>2. j \in 1 .. n
      BY <1>1, <2>1
    <3> QED BY <1>2, <2>1, <3>1, <3>2
  <2>2. CASE i = n + 1
    <3>1. next[i].in[k] \in ValuesOf(m)
      BY <1>2, <2>2
    <3>2. PICK j \in 1 .. n : next[i].in[k] \in Range(m[j].out)
      BY <3>1 DEF ValuesOf, n
    <3>3. j \in 1 .. i - 1
      BY <1>1, <2>2
    <3> QED BY <1>2, <3>2, <3>3
  <2> QED BY <1>4, <2>1, <2>2
<1>8. GatesThread(next)
  <2> SUFFICES ASSUME NEW i \in 1 .. n + 1, next[i].kind \in GateKinds
               PROVE  Len(next[i].in) = Len(next[i].out) /\ Len(next[i].in) > 0
    BY <1>2 DEF GatesThread
  <2>1. CASE i \in 1 .. n
    BY <1>1, <1>2, <2>1 DEF GatesThread, n
  <2>2. CASE i = n + 1
    BY <1>2, <2>2
  <2> QED BY <1>4, <2>1, <2>2
<1> QED BY <1>2, <1>6, <1>7, <1>8 DEF WellFormed, next

LEMMA FreshAreNext ==
  ASSUME NEW m, Numbered(m), NEW c \in Nat
  PROVE  LET out == FreshValues(m, c)
         IN  /\ out \in Seq(Nat) /\ Len(out) = c /\ DOMAIN out = 1 .. c
             /\ \A j \in 1 .. Len(out) : out[j] = NumValues(m) + j
BY DEF FreshValues, Numbered

LEMMA DefOfIsADef ==
  ASSUME NEW m \in Seq(OpType), NEW name
  PROVE  /\ DefOf(m, name) \in 0 .. Len(m)
         /\ DefOf(m, name) # 0 => m[DefOf(m, name)].kind = "def"
<1> DEFINE defs == { i \in 1 .. Len(m) : m[i].kind = "def" /\ m[i].name = name }
<1>1. Len(m) \in Nat /\ defs \in SUBSET (1 .. Len(m))
  BY LenProperties
<1>2. CASE defs = {}
  BY <1>1, <1>2 DEF DefOf
<1>3. CASE defs # {}
  <2>1. PICK h \in defs : \A x \in defs : x <= h
    BY <1>1, <1>3, HasHighest
  <2>2. DefOf(m, name) = CHOOSE i \in defs : \A j \in defs : j <= i
    BY <1>3 DEF DefOf
  <2>3. DefOf(m, name) \in defs
    BY <2>1, <2>2
  <2> QED BY <2>3
<1> QED BY <1>2, <1>3

LEMMA MatchOfIsAPlace ==
  ASSUME NEW m \in Seq(OpType), NEW i \in Nat
  PROVE  MatchOf(m, i) \in Nat /\ MatchOf(m, i) > 0
<1> DEFINE ends == { j \in i + 1 .. Len(m) :
                       /\ Depth(m, m[i].kind, i, j) = 0
                       /\ \A k \in i + 1 .. j - 1 : Depth(m, m[i].kind, i, k) > 0 }
<1>1. Len(m) \in Nat /\ \A j \in ends : j \in Nat /\ j > 0
  BY LenProperties
<1>2. MatchOf(m, i) = IF ends = {} THEN Len(m) + 1 ELSE CHOOSE j \in ends : TRUE
  BY DEF MatchOf
<1> HIDE DEF ends
<1> QED BY <1>1, <1>2

-----------------------------------------------------------------------------
(* The parser.                                                             *)
ParserInv ==
  /\ source \in Seq(Statements)
  /\ WellFormed(ops) /\ Numbered(ops)
  /\ slot \in [Names -> ValuesOf(ops) \cup {Unbound}]
  /\ open \in Seq(1 .. Len(ops))

LEMMA OpIsTyped ==
  ASSUME NEW kind \in OpKinds, NEW takes \in Seq(Nat), NEW makes \in Seq(Nat), NEW n \in Int,
         NEW name \in FunctionNames, NEW qs \in Seq(Names)
  PROVE  Op(kind, takes, makes, n, name, qs) \in OpType
BY DEF Op, OpType

LEMMA StatementsAreTyped ==
  ASSUME NEW s \in Statements
  PROVE  /\ s.qs \in Seq(Names) /\ Len(s.qs) \in Nat /\ DOMAIN s.qs = 1 .. Len(s.qs)
         /\ \A k \in 1 .. Len(s.qs) : s.qs[k] \in Names
         /\ s.n \in Int /\ s.name \in FunctionNames /\ Results(s) \in Nat
         /\ s.kind \in GateKinds => Len(s.qs) = Results(s) /\ Len(s.qs) > 0
<1>1. s.qs \in Seq(Names) /\ s.n \in Int /\ (s.kind \in GateKinds => Len(s.qs) = Results(s))
  BY StatementsAssumption
<1>2. Len(s.qs) \in Nat /\ DOMAIN s.qs = 1 .. Len(s.qs) /\ \A k \in 1 .. Len(s.qs) : s.qs[k] \in Names
  BY <1>1, LenProperties, ElementOfSeq
<1>3. Results(s) \in Nat /\ (s.kind \in GateKinds => Results(s) > 0)
  <2>1. CASE s.kind \in OneQubitGates
    BY <2>1 DEF Results, OneQubitGates, TwoQubitGates
  <2>2. CASE s.kind \in TwoQubitGates
    BY <2>2 DEF Results, OneQubitGates, TwoQubitGates
  <2>3. CASE s.kind \notin GateKinds
    BY <1>2, <2>3 DEF Results, GateKinds
  <2> QED BY <2>1, <2>2, <2>3 DEF GateKinds
<1> QED BY <1>1, <1>2, <1>3 DEF FunctionNames

LastAt(names, makes, x) ==
  CHOOSE k \in DOMAIN names \cap DOMAIN makes :
    names[k] = x /\ \A l \in DOMAIN names \cap DOMAIN makes : l > k => names[l] # x

LEMMA BoundToTheLast ==
  ASSUME NEW names, NEW makes, NEW x, Len(names) \in Nat,
         DOMAIN names = 1 .. Len(names),
         \E k \in DOMAIN names \cap DOMAIN makes : names[k] = x
  PROVE  LastAt(names, makes, x) \in DOMAIN makes
<1> DEFINE S == { k \in DOMAIN names \cap DOMAIN makes : names[k] = x }
<1>1. S \in SUBSET (1 .. Len(names)) /\ S # {}
  OBVIOUS
<1>2. PICK h \in S : \A y \in S : y <= h
  BY <1>1, HasHighest
<1>3. \A l \in DOMAIN names \cap DOMAIN makes : l > h => names[l] # x
  <2> SUFFICES ASSUME NEW l \in DOMAIN names \cap DOMAIN makes, l > h, names[l] = x
               PROVE  FALSE
    OBVIOUS
  <2>1. l \in S /\ l <= h /\ l \in Nat /\ h \in Nat
    BY <1>1, <1>2
  <2> QED BY <2>1
<1>4. h \in DOMAIN names \cap DOMAIN makes /\ names[h] = x
  OBVIOUS
<1> QED BY <1>3, <1>4 DEF LastAt

LEMMA ReboundIsTyped ==
  ASSUME NEW V, slot \in [Names -> V \cup {Unbound}],
         NEW names \in Seq(Names), NEW makes \in Seq(Nat), Range(makes) \subseteq V
  PROVE  Rebound(names, makes) \in [Names -> V \cup {Unbound}]
<1>1. Len(names) \in Nat /\ DOMAIN names = 1 .. Len(names)
  BY LenProperties
<1> DEFINE to(x) == IF \E k \in DOMAIN names \cap DOMAIN makes : names[k] = x
                    THEN makes[LastAt(names, makes, x)] ELSE slot[x]
<1>2. ASSUME NEW x \in Names, \E k \in DOMAIN names \cap DOMAIN makes : names[k] = x
      PROVE  makes[LastAt(names, makes, x)] \in V
  <2>1. LastAt(names, makes, x) \in DOMAIN makes
    BY <1>1, <1>2, BoundToTheLast
  <2> QED BY <2>1 DEF Range
<1>3. Rebound(names, makes) = [x \in Names |-> to(x)]
  BY DEF Rebound, LastAt
<1>4. \A x \in Names : to(x) \in V \cup {Unbound}
  BY <1>2
<1> HIDE DEF to
<1> QED BY <1>3, <1>4

(* What is known of a module, another one has if it takes and makes the    *)
(* same values in the same ops.                                            *)
LEMMA AlikeModules ==
  ASSUME NEW m, WellFormed(m), Numbered(m), NEW p \in Seq(OpType), Len(p) = Len(m),
         \A i \in 1 .. Len(m) : /\ p[i].kind = m[i].kind
                                /\ p[i].in = m[i].in /\ p[i].out = m[i].out
  PROVE  WellFormed(p) /\ Numbered(p) /\ ValuesOf(p) = ValuesOf(m)
<1>1. Len(m) \in Nat /\ \A i \in 1 .. Len(m) : 1 .. i - 1 \subseteq 1 .. Len(m)
  BY WellFormedMeans
<1>2. ValuesOf(p) = ValuesOf(m)
  BY DEF ValuesOf
<1>3. Numbered(p)
  BY <1>2 DEF Numbered, NumValues
<1>4. MadeOnce(p)
  <2> SUFFICES ASSUME NEW i \in 1 .. Len(m), NEW j \in 1 .. Len(m),
                      NEW k \in 1 .. Len(p[i].out), NEW l \in 1 .. Len(p[j].out),
                      p[i].out[k] = p[j].out[l]
               PROVE  i = j /\ k = l
    BY DEF MadeOnce
  <2>1. /\ k \in 1 .. Len(m[i].out) /\ l \in 1 .. Len(m[j].out)
        /\ m[i].out[k] = m[j].out[l] /\ MadeOnce(m)
    BY DEF WellFormed
  <2> QED BY <2>1, MadeOnceMeans
<1>5. MadeBefore(p)
  <2> SUFFICES ASSUME NEW i \in 1 .. Len(m), NEW k \in 1 .. Len(p[i].in)
               PROVE  \E j \in 1 .. i - 1 : p[i].in[k] \in Range(p[j].out)
    BY DEF MadeBefore
  <2>1. PICK j \in 1 .. i - 1 : m[i].in[k] \in Range(m[j].out)
    BY DEF WellFormed, MadeBefore
  <2>2. j \in 1 .. Len(m)
    BY <1>1
  <2> QED BY <2>1, <2>2
<1>6. GatesThread(p)
  BY DEF WellFormed, GatesThread
<1> QED BY <1>2, <1>3, <1>4, <1>5, <1>6 DEF WellFormed

LEMMA ThenCountKeeps ==
  ASSUME ParserInv, open # << >>
  PROVE  LET p == WithThenCount
         IN  WellFormed(p) /\ Numbered(p) /\ Len(p) = Len(ops) /\ ValuesOf(p) = ValuesOf(ops)
<1> DEFINE h    == Last(open)
           more == Counted(ops[h], Len(ops) - h)
           p    == [ops EXCEPT ![h] = more]
<1>1. WellFormed(ops) /\ Numbered(ops) /\ ops \in Seq(OpType) /\ Len(ops) \in Nat
  BY WellFormedMeans DEF ParserInv
<1>2. h \in 1 .. Len(ops)
  BY FrontIsShorter DEF ParserInv
<1>3. CASE ops[Last(open)].n # -1
  BY <1>1, <1>3 DEF WithThenCount
<1>4. CASE ops[Last(open)].n = -1
  <2>1. WithThenCount = p
    BY <1>4 DEF WithThenCount
  <2> HIDE DEF h
  <2>2. /\ more.kind = ops[h].kind /\ more.in = ops[h].in /\ more.out = ops[h].out
        /\ more \in OpType
    <3>1. ops[h] \in OpType /\ Len(ops) - h \in Int
      BY <1>1, <1>2, ElementOfSeq
    <3>2. /\ ops[h].kind \in OpKinds /\ ops[h].in \in Seq(Nat) /\ ops[h].out \in Seq(Nat)
          /\ ops[h].name \in FunctionNames /\ ops[h].qs \in Seq(Names)
      BY <3>1 DEF OpType
    <3>3. more = Op(ops[h].kind, ops[h].in, ops[h].out, Len(ops) - h, ops[h].name, ops[h].qs)
      BY DEF Counted
    <3> QED BY <3>1, <3>2, <3>3, OpFields, OpIsTyped
  <2> HIDE DEF more
  <2>3. /\ p \in Seq(OpType) /\ Len(p) = Len(ops)
        /\ \A i \in 1 .. Len(ops) : p[i] = IF i = h THEN more ELSE ops[i]
    BY <1>1, <1>2, <2>2, ExceptSeq
  <2> HIDE DEF p
  <2>4. \A i \in 1 .. Len(ops) : /\ p[i].kind = ops[i].kind
                                 /\ p[i].in = ops[i].in /\ p[i].out = ops[i].out
    BY <2>2, <2>3
  <2>5. WellFormed(p) /\ Numbered(p) /\ ValuesOf(p) = ValuesOf(ops)
    BY <1>1, <2>3, <2>4, AlikeModules
  <2> QED BY <2>1, <2>3, <2>5
<1> QED BY <1>3, <1>4

(* Reading one statement, as far as the invariant goes.                    *)
LEMMA ReadingKeeps ==
  ASSUME source \in Seq(Statements), NEW s \in Statements,
         NEW p, WellFormed(p), Numbered(p), NEW op \in OpType,
         \A j \in 1 .. Len(op.out) : op.out[j] = NumValues(p) + j,
         \A k \in 1 .. Len(op.in) : op.in[k] \in ValuesOf(p),
         op.kind \in GateKinds => Len(op.in) = Len(op.out) /\ Len(op.in) > 0,
         ops' = Append(p, op), source' = Append(source, s),
         slot' \in [Names -> (ValuesOf(p) \cup Range(op.out)) \cup {Unbound}],
         open' \in Seq(1 .. Len(p) + 1)
  PROVE  ParserInv'
<1>1. p \in Seq(OpType)
  BY DEF WellFormed
<1>2. /\ Numbered(ops') /\ Len(ops') = Len(p) + 1
      /\ ValuesOf(ops') = ValuesOf(p) \cup Range(op.out)
  BY <1>1, AppendNumbers
<1>3. WellFormed(ops')
  BY AppendKeeps
<1>4. source' \in Seq(Statements)
  BY AppendProperties
<1> QED BY <1>2, <1>3, <1>4 DEF ParserInv

(* The values a statement takes are those its names are bound to.          *)
LEMMA ValuesAreMade ==
  ASSUME ParserInv, NEW s \in Statements, Bound(s.qs)
  PROVE  /\ Values(s.qs) \in Seq(Nat) /\ Len(Values(s.qs)) = Len(s.qs)
         /\ \A k \in 1 .. Len(Values(s.qs)) : Values(s.qs)[k] \in ValuesOf(ops)
<1>1. Len(s.qs) \in Nat /\ \A k \in 1 .. Len(s.qs) : s.qs[k] \in Names
  BY StatementsAreTyped
<1>2. ValuesOf(ops) \subseteq Nat
  BY DEF ParserInv, Numbered
<1>3. \A k \in 1 .. Len(s.qs) : slot[s.qs[k]] \in ValuesOf(ops)
  BY <1>1 DEF ParserInv, Bound
<1> QED BY <1>1, <1>2, <1>3 DEF Values

LEMMA QuantumStmtKeeps ==
  ASSUME ParserInv, NEW s \in Statements, QuantumStmt(s)
  PROVE  ParserInv'
<1> DEFINE out == FreshValues(ops, Results(s))
           op  == Op(s.kind, Values(s.qs), out, s.n, "", << >>)
<1>1. /\ s.kind \in GateKinds \cup FenceKinds /\ Bound(s.qs)
      /\ ops' = Append(ops, op) /\ slot' = Rebound(s.qs, out)
      /\ source' = Append(source, s) /\ open' = open
  BY DEF QuantumStmt
<1>2. /\ s.qs \in Seq(Names) /\ s.n \in Int /\ Results(s) \in Nat
      /\ s.kind \in GateKinds => Len(s.qs) = Results(s) /\ Len(s.qs) > 0
  BY StatementsAreTyped
<1>3. /\ source \in Seq(Statements) /\ WellFormed(ops) /\ Numbered(ops)
      /\ slot \in [Names -> ValuesOf(ops) \cup {Unbound}] /\ open \in Seq(1 .. Len(ops))
      /\ Len(ops) \in Nat
  BY WellFormedMeans DEF ParserInv
<1>4. /\ out \in Seq(Nat) /\ Len(out) = Results(s)
      /\ \A j \in 1 .. Len(out) : out[j] = NumValues(ops) + j
  BY <1>2, <1>3, FreshAreNext
<1>5. /\ Values(s.qs) \in Seq(Nat) /\ Len(Values(s.qs)) = Len(s.qs)
      /\ \A k \in 1 .. Len(Values(s.qs)) : Values(s.qs)[k] \in ValuesOf(ops)
  BY <1>1, ValuesAreMade
<1> HIDE DEF out
<1>6. op.kind = s.kind /\ op.in = Values(s.qs) /\ op.out = out
  BY DEF Op
<1>7. op \in OpType
  <2>1. s.kind \in OpKinds /\ "" \in FunctionNames /\ << >> \in Seq(Names)
    BY <1>1, EmptySeq DEF OpKinds, SpinorKinds, FunctionNames
  <2> QED BY <1>2, <1>4, <1>5, <2>1, OpIsTyped
<1>8. slot' \in [Names -> (ValuesOf(ops) \cup Range(out)) \cup {Unbound}]
  <2>1. slot \in [Names -> (ValuesOf(ops) \cup Range(out)) \cup {Unbound}]
    BY <1>3
  <2> QED BY <1>1, <1>2, <1>4, <2>1, ReboundIsTyped
<1>9. open' \in Seq(1 .. Len(ops) + 1)
  <2>1. 1 .. Len(ops) \subseteq 1 .. Len(ops) + 1
    BY <1>3
  <2> QED BY <1>1, <1>3, <2>1, SeqMonotonic
<1> HIDE DEF op
<1> QED BY <1>1, <1>2, <1>3, <1>4, <1>5, <1>6, <1>7, <1>8, <1>9, ReadingKeeps

(* A call makes as many values as the function has parameters.             *)
LEMMA CallStmtKeeps ==
  ASSUME ParserInv, NEW s \in Statements, CallStmt(s)
  PROVE  ParserInv'
<1> DEFINE d     == DefOf(ops, s.name)
           known == d # 0 /\ d \notin { open[k] : k \in 1 .. Len(open) }
           c     == IF known THEN Len(ops[d].out) ELSE 0
           out   == FreshValues(ops, c)
           op    == Op("call", Values(s.qs), out, 0, s.name, << >>)
<1>1. /\ Bound(s.qs) /\ ops' = Append(ops, op) /\ slot' = Rebound(s.qs, out)
      /\ source' = Append(source, s) /\ open' = open
  BY DEF CallStmt
<1>2. s.qs \in Seq(Names) /\ s.name \in FunctionNames
  BY StatementsAreTyped
<1>3. /\ source \in Seq(Statements) /\ WellFormed(ops) /\ Numbered(ops)
      /\ slot \in [Names -> ValuesOf(ops) \cup {Unbound}] /\ open \in Seq(1 .. Len(ops))
      /\ Len(ops) \in Nat /\ ops \in Seq(OpType)
  BY WellFormedMeans DEF ParserInv
<1>4. c \in Nat
  <2>1. d \in 0 .. Len(ops)
    BY <1>3, DefOfIsADef
  <2> HIDE DEF d
  <2>2. CASE d # 0
    <3>1. d \in 1 .. Len(ops)
      BY <1>3, <2>1, <2>2
    <3>2. Len(ops[d].out) \in Nat
      BY <1>3, <3>1, WellFormedMeans
    <3> QED BY <3>2
  <2>3. CASE d = 0
    BY <2>3
  <2> QED BY <2>2, <2>3
<1> HIDE DEF c
<1>5. /\ out \in Seq(Nat)
      /\ \A j \in 1 .. Len(out) : out[j] = NumValues(ops) + j
  BY <1>3, <1>4, FreshAreNext
<1>6. /\ Values(s.qs) \in Seq(Nat)
      /\ \A k \in 1 .. Len(Values(s.qs)) : Values(s.qs)[k] \in ValuesOf(ops)
  BY <1>1, ValuesAreMade
<1> HIDE DEF out
<1>7. op.kind = "call" /\ op.in = Values(s.qs) /\ op.out = out
  BY OpFields
<1>8. op \in OpType
  <2>1. "call" \in OpKinds /\ << >> \in Seq(Names)
    BY EmptySeq DEF OpKinds
  <2> QED BY <1>2, <1>5, <1>6, <2>1 DEF Op, OpType
<1>9. slot' \in [Names -> (ValuesOf(ops) \cup Range(out)) \cup {Unbound}]
  <2>1. slot \in [Names -> (ValuesOf(ops) \cup Range(out)) \cup {Unbound}]
    BY <1>3
  <2> QED BY <1>1, <1>2, <1>5, <2>1, ReboundIsTyped
<1>10. open' \in Seq(1 .. Len(ops) + 1)
  <2>1. 1 .. Len(ops) \subseteq 1 .. Len(ops) + 1
    BY <1>3
  <2> QED BY <1>1, <1>3, <2>1, SeqMonotonic
<1>11. "call" \notin GateKinds
  BY DEF GateKinds, OneQubitGates, TwoQubitGates
<1> HIDE DEF op
<1> QED BY <1>1, <1>3, <1>5, <1>6, <1>7, <1>8, <1>9, <1>10, <1>11, ReadingKeeps

(* Opening a block, and closing one.                                       *)
LEMMA OpenedKeeps ==
  ASSUME ParserInv, NEW s \in Statements, s.kind \in {"if", "for", "def"},
         NEW n \in Int, NEW out \in Seq(Nat),
         \A j \in 1 .. Len(out) : out[j] = NumValues(ops) + j,
         Opened(s, n, out),
         slot' \in [Names -> (ValuesOf(ops) \cup Range(out)) \cup {Unbound}]
  PROVE  ParserInv'
<1> DEFINE op == Op(s.kind, << >>, out, n, s.name, s.qs)
<1>1. /\ ops' = Append(ops, op) /\ open' = Append(open, Len(ops) + 1)
      /\ source' = Append(source, s)
  BY DEF Opened
<1>2. s.qs \in Seq(Names) /\ s.name \in FunctionNames
  BY StatementsAreTyped
<1>3. /\ source \in Seq(Statements) /\ WellFormed(ops) /\ Numbered(ops)
      /\ open \in Seq(1 .. Len(ops)) /\ Len(ops) \in Nat
  BY WellFormedMeans DEF ParserInv
<1>4. op.kind = s.kind /\ op.in = << >> /\ op.out = out
  BY OpFields
<1>5. op \in OpType
  <2>1. s.kind \in OpKinds /\ << >> \in Seq(Nat)
    BY EmptySeq DEF OpKinds, MarkerKinds
  <2> QED BY <1>2, <2>1, OpIsTyped
<1>6. s.kind \notin GateKinds /\ Len(<< >>) = 0
  BY EmptySeq DEF GateKinds, OneQubitGates, TwoQubitGates
<1>7. open' \in Seq(1 .. Len(ops) + 1)
  <2>1. 1 .. Len(ops) \subseteq 1 .. Len(ops) + 1 /\ Len(ops) + 1 \in 1 .. Len(ops) + 1
    BY <1>3
  <2>2. open \in Seq(1 .. Len(ops) + 1)
    BY <1>3, <2>1, SeqMonotonic
  <2> QED BY <1>1, <2>1, <2>2, AppendProperties
<1> HIDE DEF op
<1>8. \A k \in 1 .. Len(op.in) : op.in[k] \in ValuesOf(ops)
  BY <1>4, <1>6
<1> QED BY <1>1, <1>3, <1>4, <1>5, <1>6, <1>7, <1>8, ReadingKeeps

LEMMA ClosedKeeps ==
  ASSUME ParserInv, NEW s \in Statements, s.kind \in {"endif", "endfor", "enddef"},
         open # << >>, NEW p, WellFormed(p), Numbered(p),
         Len(p) = Len(ops), ValuesOf(p) = ValuesOf(ops), Closed(s, p),
         slot' \in [Names -> ValuesOf(ops) \cup {Unbound}]
  PROVE  ParserInv'
<1> DEFINE op == Op(s.kind, << >>, << >>, 0, "", << >>)
<1>1. /\ ops' = Append(p, op) /\ open' = Front(open)
      /\ source' = Append(source, s)
  BY DEF Closed
<1>2. /\ source \in Seq(Statements) /\ open \in Seq(1 .. Len(ops)) /\ Len(ops) \in Nat
  BY WellFormedMeans DEF ParserInv
<1>3. op.kind = s.kind /\ op.in = << >> /\ op.out = << >>
  BY DEF Op
<1>4. op \in OpType
  <2>1. /\ s.kind \in OpKinds /\ << >> \in Seq(Nat) /\ "" \in FunctionNames
        /\ << >> \in Seq(Names)
    BY EmptySeq DEF OpKinds, MarkerKinds, FunctionNames
  <2>2. ASSUME NEW none \in Seq(Nat), none \in Seq(Names),
               NEW n \in Int, NEW name \in FunctionNames
        PROVE  Op(s.kind, none, none, n, name, none) \in OpType
    BY <2>1, <2>2, OpIsTyped
  <2>3. 0 \in Int
    OBVIOUS
  <2> QED BY <2>1, <2>2, <2>3
<1>5. s.kind \notin GateKinds /\ Len(<< >>) = 0 /\ Range(<< >>) = {}
  BY EmptySeq DEF GateKinds, OneQubitGates, TwoQubitGates, Range
<1>6. open' \in Seq(1 .. Len(p) + 1)
  <2>1. 1 .. Len(ops) \subseteq 1 .. Len(ops) + 1
    BY <1>2
  <2>2. open \in Seq(1 .. Len(ops) + 1)
    BY <1>2, <2>1, SeqMonotonic
  <2>3. Front(open) \in Seq(1 .. Len(ops) + 1)
    BY <2>2, FrontIsShorter
  <2> QED BY <1>1, <2>3
<1> HIDE DEF op
<1>7. /\ \A k \in 1 .. Len(op.in) : op.in[k] \in ValuesOf(p)
      /\ \A j \in 1 .. Len(op.out) : op.out[j] = NumValues(p) + j
  BY <1>3, <1>5
<1>8. slot' \in [Names -> (ValuesOf(p) \cup Range(op.out)) \cup {Unbound}]
  BY <1>3, <1>5
<1> QED BY <1>1, <1>2, <1>3, <1>4, <1>5, <1>6, <1>7, <1>8, ReadingKeeps

LEMMA InnermostIsOpen ==
  ASSUME Innermost # "none"
  PROVE  open # << >>
BY DEF Innermost

(* One step of the parser.                                                 *)
LEMMA ParserKeeps ==
  ASSUME ParserInv, NEW s \in Statements, ReadStatement(s)
  PROVE  ParserInv'
<1>1. /\ source \in Seq(Statements) /\ WellFormed(ops) /\ Numbered(ops)
      /\ slot \in [Names -> ValuesOf(ops) \cup {Unbound}] /\ open \in Seq(1 .. Len(ops))
  BY DEF ParserInv
<1>2. s.n \in Int /\ s.qs \in Seq(Names) /\ Results(s) \in Nat
  BY StatementsAreTyped
<1>3. << >> \in Seq(Nat) /\ Len(<< >>) = 0 /\ -1 \in Int
  BY EmptySeq
<1>4. slot \in [Names -> (ValuesOf(ops) \cup Range(<< >>)) \cup {Unbound}]
  BY <1>1
<1>5. CASE QuantumStmt(s)
  BY <1>5, QuantumStmtKeeps
<1>6. CASE CallStmt(s)
  BY <1>6, CallStmtKeeps
<1>7. CASE IfStmt(s)
  <2>1. s.kind = "if" /\ Opened(s, -1, << >>) /\ slot' = slot
    BY <1>7 DEF IfStmt
  <2>2. \A j \in 1 .. Len(<< >>) : << >>[j] = NumValues(ops) + j
    BY <1>3
  <2> QED BY <1>3, <1>4, <2>1, <2>2, OpenedKeeps
<1>8. CASE ElseIf(s)
  <2>1. open # << >>
    BY <1>8, InnermostIsOpen DEF ElseIf
  <2>2. /\ ops' = WithThenCount /\ source' = Append(source, s)
        /\ slot' = slot /\ open' = open
    BY <1>8 DEF ElseIf
  <2>3. /\ WellFormed(ops') /\ Numbered(ops') /\ Len(ops') = Len(ops)
        /\ ValuesOf(ops') = ValuesOf(ops)
    BY <2>1, <2>2, ThenCountKeeps
  <2>4. source' \in Seq(Statements)
    BY <1>1, <2>2, AppendProperties
  <2> QED BY <1>1, <2>2, <2>3, <2>4 DEF ParserInv
<1>9. CASE EndIf(s)
  <2>1. s.kind = "endif" /\ Closed(s, WithThenCount) /\ slot' = slot /\ open # << >>
    BY <1>9, InnermostIsOpen DEF EndIf
  <2>2. /\ WellFormed(WithThenCount) /\ Numbered(WithThenCount)
        /\ Len(WithThenCount) = Len(ops) /\ ValuesOf(WithThenCount) = ValuesOf(ops)
    BY <2>1, ThenCountKeeps
  <2> QED BY <1>1, <2>1, <2>2, ClosedKeeps
<1>10. CASE ForStmt(s)
  <2>1. s.kind = "for" /\ Opened(s, s.n, << >>) /\ slot' = slot
    BY <1>10 DEF ForStmt
  <2>2. \A j \in 1 .. Len(<< >>) : << >>[j] = NumValues(ops) + j
    BY <1>3
  <2> QED BY <1>2, <1>3, <1>4, <2>1, <2>2, OpenedKeeps
<1>11. ASSUME s.kind \in {"endfor", "enddef"}, Closed(s, ops)
       PROVE  open # << >>
  <2>1. Innermost = CHOOSE k \in {"if", "for", "def"} : Closing(k) = s.kind
    BY <1>11 DEF Closed
  <2>2. \E k \in {"if", "for", "def"} : Closing(k) = s.kind
    BY <1>11 DEF Closing
  <2>3. Innermost \in {"if", "for", "def"}
    BY <2>1, <2>2
  <2> QED BY <2>3, InnermostIsOpen
<1>12. CASE EndFor(s)
  <2>1. s.kind = "endfor" /\ Closed(s, ops) /\ slot' = slot
    BY <1>12 DEF EndFor
  <2> QED BY <1>1, <1>11, <2>1, ClosedKeeps
<1>13. CASE DefStmt(s)
  <2> DEFINE out == FreshValues(ops, Results(s))
  <2>1. s.kind = "def" /\ Opened(s, s.n, out) /\ slot' = Rebound(s.qs, out)
    BY <1>13 DEF DefStmt
  <2>2. /\ out \in Seq(Nat)
        /\ \A j \in 1 .. Len(out) : out[j] = NumValues(ops) + j
    BY <1>1, <1>2, FreshAreNext
  <2> HIDE DEF out
  <2>3. slot \in [Names -> (ValuesOf(ops) \cup Range(out)) \cup {Unbound}]
    BY <1>1
  <2>4. slot' \in [Names -> (ValuesOf(ops) \cup Range(out)) \cup {Unbound}]
    BY <1>2, <2>1, <2>2, <2>3, ReboundIsTyped
  <2> QED BY <1>2, <2>1, <2>2, <2>4, OpenedKeeps
<1>14. CASE EndDef(s)
  <2>1. /\ s.kind = "enddef" /\ Closed(s, ops)
        /\ slot' = [x \in Names |-> IF x \in Params THEN Unbound ELSE slot[x]]
    BY <1>14 DEF EndDef
  <2>2. slot' \in [Names -> ValuesOf(ops) \cup {Unbound}]
    BY <1>1, <2>1
  <2> QED BY <1>1, <1>11, <2>1, <2>2, ClosedKeeps
<1> QED BY <1>5, <1>6, <1>7, <1>8, <1>9, <1>10, <1>12, <1>13, <1>14 DEF ReadStatement

-----------------------------------------------------------------------------
(* The lowering.  Frames are typed, and a call frame remembers a call of a *)
(* function there is, and a value for each of its parameters; made are the *)
(* values of the Spinor module.                                            *)
FrameType == [kind : {"range", "loop", "call"}, at : Nat \ {0}, hi : Int,
              left : Int, saved : Seq(Nat)]

Resumable(m, made, f) ==
  LET d == DefOf(m, m[f.left].name)
  IN  /\ f.left \in 1 .. Len(m) /\ d # 0
      /\ Len(f.saved) = Len(m[d].out)
      /\ Range(f.saved) \subseteq made \cup {Unmapped}

FramesOf(m, made) ==
  { fs \in Seq(FrameType) :
      \A k \in 1 .. Len(fs) : fs[k].kind = "call" => Resumable(m, made, fs[k]) }

LowererInv ==
  /\ emitted \in Seq(OpType) /\ Numbered(emitted)
  /\ vmap \in [DOMAIN vmap -> ValuesOf(emitted) \cup {Unmapped}]
  /\ frames \in FramesOf(module, ValuesOf(emitted))
  /\ phase = "lower" => DOMAIN vmap = ValuesOf(module)
  /\ phase # "lower" => frames = << >>

LEMMA FrameIsTyped ==
  ASSUME NEW kind \in {"range", "loop", "call"}, NEW at \in Nat \ {0}, NEW hi \in Int,
         NEW left \in Int, NEW saved \in Seq(Nat)
  PROVE  /\ Frame(kind, at, hi, left, saved) \in FrameType
         /\ Frame(kind, at, hi, left, saved).kind = kind
         /\ Frame(kind, at, hi, left, saved).left = left
         /\ Frame(kind, at, hi, left, saved).saved = saved
BY DEF Frame, FrameType

LEMMA NoFrames ==
  ASSUME NEW m, NEW made
  PROVE  << >> \in FramesOf(m, made)
BY EmptySeq DEF FramesOf

LEMMA FramesLess ==
  ASSUME NEW m, NEW made, NEW fs \in FramesOf(m, made), fs # << >>
  PROVE  /\ Front(fs) \in FramesOf(m, made) /\ Last(fs) \in FrameType
         /\ Last(fs).kind = "call" => Resumable(m, made, Last(fs))
<1>1. /\ fs \in Seq(FrameType)
      /\ \A k \in 1 .. Len(fs) : fs[k].kind = "call" => Resumable(m, made, fs[k])
  BY DEF FramesOf
<1>2. /\ Front(fs) \in Seq(FrameType) /\ Len(Front(fs)) = Len(fs) - 1 /\ Len(fs) \in Nat
      /\ \A k \in 1 .. Len(fs) - 1 : Front(fs)[k] = fs[k]
      /\ Len(fs) \in 1 .. Len(fs) /\ Last(fs) = fs[Len(fs)] /\ Last(fs) \in FrameType
  BY <1>1, FrontIsShorter
<1> HIDE DEF Front, Last
<1>3. ASSUME NEW k \in 1 .. Len(Front(fs)), Front(fs)[k].kind = "call"
      PROVE  Resumable(m, made, Front(fs)[k])
  <2>1. k \in 1 .. Len(fs) /\ Front(fs)[k] = fs[k]
    BY <1>2
  <2> QED BY <1>1, <1>3, <2>1
<1> QED BY <1>1, <1>2, <1>3 DEF FramesOf

LEMMA FramesMore ==
  ASSUME NEW m, NEW made, NEW fs \in FramesOf(m, made), NEW f \in FrameType,
         f.kind = "call" => Resumable(m, made, f)
  PROVE  Append(fs, f) \in FramesOf(m, made)
<1> DEFINE next == Append(fs, f)
<1>1. /\ fs \in Seq(FrameType) /\ Len(fs) \in Nat
      /\ \A k \in 1 .. Len(fs) : fs[k].kind = "call" => Resumable(m, made, fs[k])
  BY LenProperties DEF FramesOf
<1>2. /\ next \in Seq(FrameType) /\ Len(next) = Len(fs) + 1 /\ next[Len(fs) + 1] = f
      /\ \A k \in 1 .. Len(fs) : next[k] = fs[k]
  BY <1>1, AppendProperties
<1> HIDE DEF next
<1>3. ASSUME NEW k \in 1 .. Len(next), next[k].kind = "call"
      PROVE  Resumable(m, made, next[k])
  <2>1. CASE k \in 1 .. Len(fs)
    BY <1>1, <1>2, <1>3, <2>1
  <2>2. CASE k = Len(fs) + 1
    BY <1>2, <1>3, <2>2
  <2> QED BY <1>1, <1>2, <2>1, <2>2
<1> QED BY <1>2, <1>3 DEF FramesOf, next

LEMMA FramesWiden ==
  ASSUME NEW m, NEW made, NEW more, made \subseteq more
  PROVE  FramesOf(m, made) \subseteq FramesOf(m, more)
BY DEF FramesOf, Resumable

LEMMA MovedToKeeps ==
  ASSUME LowererInv, frames # << >>, NEW j \in Nat \ {0}
  PROVE  MovedTo(j) \in FramesOf(module, ValuesOf(emitted))
<1> DEFINE made  == ValuesOf(emitted)
           moved == Frame(Top.kind, j, Top.hi, Top.left, Top.saved)
<1>1. /\ Front(frames) \in FramesOf(module, made) /\ Top \in FrameType
      /\ Top.kind = "call" => Resumable(module, made, Top)
  BY FramesLess DEF LowererInv, Top
<1>2. /\ Top.kind \in {"range", "loop", "call"} /\ Top.hi \in Int /\ Top.left \in Int
      /\ Top.saved \in Seq(Nat)
  BY <1>1 DEF FrameType
<1>3. /\ moved \in FrameType /\ moved.kind = Top.kind
      /\ moved.left = Top.left /\ moved.saved = Top.saved
  BY <1>2, FrameIsTyped
<1> HIDE DEF moved
<1>4. moved.kind = "call" => Resumable(module, made, moved)
  BY <1>1, <1>3 DEF Resumable
<1>5. Append(Front(frames), moved) \in FramesOf(module, made)
  BY <1>1, <1>3, <1>4, FramesMore
<1> QED BY <1>5 DEF MovedTo, moved

LEMMA RangeFrameKeeps ==
  ASSUME NEW m, NEW made, NEW fs \in FramesOf(m, made), NEW lo \in Nat \ {0}, NEW hi \in Int
  PROVE  Append(fs, RangeFrame(lo, hi)) \in FramesOf(m, made)
<1>1. 0 \in Int /\ << >> \in Seq(Nat) /\ "range" \in {"range", "loop", "call"}
  BY EmptySeq
<1>2. RangeFrame(lo, hi) \in FrameType /\ RangeFrame(lo, hi).kind = "range"
  <2>1. ASSUME NEW n \in Int, NEW none \in Seq(Nat)
        PROVE  /\ Frame("range", lo, hi, n, none) \in FrameType
               /\ Frame("range", lo, hi, n, none).kind = "range"
    BY FrameIsTyped
  <2> QED BY <1>1, <2>1 DEF RangeFrame
<1> QED BY <1>2, FramesMore

(* What vmap holds of some values.                                         *)
LEMMA MappedIsMade ==
  ASSUME LowererInv, phase = "lower",
         NEW takes \in Seq(Nat), \A k \in 1 .. Len(takes) : takes[k] \in ValuesOf(module)
  PROVE  /\ Mapped(takes) \in Seq(Nat) /\ Mapped(takes) \in Seq(ValuesOf(emitted) \cup {Unmapped})
         /\ Len(Mapped(takes)) = Len(takes)
         /\ Range(Mapped(takes)) \subseteq ValuesOf(emitted) \cup {Unmapped}
<1>1. Len(takes) \in Nat /\ DOMAIN takes = 1 .. Len(takes)
  BY LenProperties
<1>2. ValuesOf(emitted) \cup {Unmapped} \subseteq Nat
  BY DEF LowererInv, Numbered, Unmapped
<1>3. \A k \in 1 .. Len(takes) : vmap[takes[k]] \in ValuesOf(emitted) \cup {Unmapped}
  BY DEF LowererInv
<1>4. Mapped(takes) = [k \in 1 .. Len(takes) |-> vmap[takes[k]]]
  BY <1>1 DEF Mapped
<1> QED BY <1>1, <1>2, <1>3, <1>4 DEF Range

PlaceOf(values, to, v) == CHOOSE k \in DOMAIN values \cap DOMAIN to : values[k] = v

LEMMA BindingIsTyped ==
  ASSUME NEW D, NEW V, NEW W, vmap \in [D -> V], V \subseteq W,
         NEW values, NEW to, Range(to) \subseteq W
  PROVE  Binding(values, to) \in [D -> W]
<1> DEFINE bound(v) == IF \E k \in DOMAIN values \cap DOMAIN to : values[k] = v
                       THEN to[PlaceOf(values, to, v)] ELSE vmap[v]
<1>1. Binding(values, to) = [v \in D |-> bound(v)]
  BY DEF Binding, PlaceOf
<1>2. ASSUME NEW v \in D, \E k \in DOMAIN values \cap DOMAIN to : values[k] = v
      PROVE  to[PlaceOf(values, to, v)] \in W
  <2>1. PlaceOf(values, to, v) \in DOMAIN to
    BY <1>2 DEF PlaceOf
  <2> QED BY <2>1 DEF Range
<1>3. \A v \in D : bound(v) \in W
  BY <1>2
<1> HIDE DEF bound
<1> QED BY <1>1, <1>3

(* A step of the lowering, as far as the invariant goes.                   *)
LEMMA LoweringIsKept ==
  ASSUME phase = "lower", phase' = phase, module' = module,
         emitted' \in Seq(OpType), Numbered(emitted'),
         vmap' \in [ValuesOf(module) -> ValuesOf(emitted') \cup {Unmapped}],
         frames' \in FramesOf(module, ValuesOf(emitted'))
  PROVE  LowererInv'
<1>1. DOMAIN vmap' = ValuesOf(module)
  OBVIOUS
<1> QED BY <1>1 DEF LowererInv

LEMMA OnlyFramesMove ==
  ASSUME LowererInv, phase = "lower", phase' = phase, module' = module,
         emitted' = emitted, vmap' = vmap,
         frames' \in FramesOf(module, ValuesOf(emitted))
  PROVE  LowererInv'
BY LoweringIsKept DEF LowererInv

LEMMA EmitSpinorOpKeeps ==
  ASSUME LowererInv, WellFormed(module), phase = "lower", phase' = phase,
         module' = module, EmitSpinorOp
  PROVE  LowererInv'
<1> DEFINE src  == module[Top.at]
           out  == FreshValues(emitted, Results(src))
           op   == Op(src.kind, Mapped(src.in), out, src.n, "", src.qs)
           made == ValuesOf(emitted)
<1>1. /\ frames # << >> /\ Top.at \in 1 .. Len(module) /\ src.kind \in SpinorKinds
      /\ emitted' = Append(emitted, op) /\ vmap' = Binding(src.out, out)
      /\ frames' = MovedTo(Top.at + 1)
  BY DEF EmitSpinorOp, At
<1>2. /\ src \in OpType /\ src.in \in Seq(Nat)
      /\ \A k \in 1 .. Len(src.in) : src.in[k] \in ValuesOf(module)
  BY <1>1, WellFormedMeans
<1> HIDE DEF src
<1>3. src.n \in Int /\ src.qs \in Seq(Names) /\ Len(src.qs) \in Nat
  BY <1>2, LenProperties DEF OpType
<1>4. Results(src) \in Nat
  BY <1>3 DEF Results
<1>5. /\ emitted \in Seq(OpType) /\ Numbered(emitted)
      /\ vmap \in [ValuesOf(module) -> made \cup {Unmapped}]
      /\ frames \in FramesOf(module, made)
  BY DEF LowererInv
<1>6. /\ out \in Seq(Nat)
      /\ \A j \in 1 .. Len(out) : out[j] = NumValues(emitted) + j
  BY <1>4, <1>5, FreshAreNext
<1> HIDE DEF out
<1>7. Mapped(src.in) \in Seq(Nat)
  BY <1>2, MappedIsMade
<1>8. op \in OpType /\ op.out = out
  <2>1. src.kind \in OpKinds /\ "" \in FunctionNames
    BY <1>1 DEF OpKinds, FunctionNames
  <2>2. op \in OpType
    BY <1>3, <1>6, <1>7, <2>1, OpIsTyped
  <2>3. op.out = out
    BY DEF Op
  <2> QED BY <2>2, <2>3
<1> HIDE DEF op
<1>9. /\ emitted' \in Seq(OpType) /\ Numbered(emitted')
      /\ ValuesOf(emitted') = made \cup Range(out)
  <2>1. /\ emitted \in Seq(OpType) /\ Numbered(emitted) /\ op \in OpType
        /\ \A j \in 1 .. Len(op.out) : op.out[j] = NumValues(emitted) + j
    BY <1>5, <1>6, <1>8
  <2>2. /\ Append(emitted, op) \in Seq(OpType) /\ Numbered(Append(emitted, op))
        /\ ValuesOf(Append(emitted, op)) = ValuesOf(emitted) \cup Range(op.out)
    BY ONLY <2>1, AppendNumbers
  <2> QED BY <1>1, <1>8, <2>2
<1> HIDE DEF made
<1>10. vmap' \in [ValuesOf(module) -> ValuesOf(emitted') \cup {Unmapped}]
  BY <1>1, <1>5, <1>9, BindingIsTyped
<1>11. frames' \in FramesOf(module, ValuesOf(emitted'))
  <2>1. Top.at + 1 \in Nat \ {0}
    BY <1>1
  <2>2. frames' \in FramesOf(module, made)
    BY <1>1, <2>1, MovedToKeeps DEF made
  <2> QED BY <1>9, <2>2, FramesWiden
<1> QED BY <1>9, <1>10, <1>11, LoweringIsKept

LEMMA EnterCallKeeps ==
  ASSUME LowererInv, WellFormed(module), phase = "lower", phase' = phase,
         module' = module, EnterCall
  PROVE  LowererInv'
<1> DEFINE call      == module[Top.at]
           d         == DefOf(module, call.name)
           params    == module[d].out
           recursive == call.name \in CallStack
           next      == Top.at + IF recursive THEN 2 ELSE 1
           frame     == Frame("call", d + 1, MatchOf(module, d), Top.at, Mapped(params))
           made      == ValuesOf(emitted)
<1>1. /\ frames # << >> /\ Top.at \in 1 .. Len(module) /\ d # 0
      /\ vmap' = Binding(params, Mapped(call.in))
      /\ frames' = Append(MovedTo(next), frame) /\ emitted' = emitted
  BY DEF EnterCall, At
<1>2. module \in Seq(OpType) /\ Len(module) \in Nat
  BY WellFormedMeans
<1>3. d \in 1 .. Len(module)
  <2>1. d \in 0 .. Len(module)
    BY <1>2, DefOfIsADef
  <2> HIDE DEF d
  <2> QED BY <1>1, <1>2, <2>1
<1>4. /\ call.in \in Seq(Nat)
      /\ \A k \in 1 .. Len(call.in) : call.in[k] \in ValuesOf(module)
  BY <1>1, WellFormedMeans
<1>5. /\ params \in Seq(Nat)
      /\ \A k \in 1 .. Len(params) : params[k] \in ValuesOf(module)
  <2> HIDE DEF d
  <2>1. module[d].out \in Seq(Nat) /\ \A k \in 1 .. Len(module[d].out) : module[d].out[k] \in Range(module[d].out)
    BY <1>3, WellFormedMeans, TakenIsInRange
  <2>2. Range(module[d].out) \subseteq ValuesOf(module)
    BY <1>3 DEF ValuesOf
  <2> QED BY <2>1, <2>2
<1>6. /\ Mapped(params) \in Seq(Nat) /\ Len(Mapped(params)) = Len(params)
      /\ Range(Mapped(params)) \subseteq made \cup {Unmapped}
  BY <1>5, MappedIsMade
<1>7. Range(Mapped(call.in)) \subseteq made \cup {Unmapped}
  BY <1>4, MappedIsMade
<1>8. /\ emitted \in Seq(OpType) /\ Numbered(emitted)
      /\ vmap \in [ValuesOf(module) -> made \cup {Unmapped}]
  BY DEF LowererInv
<1>9. vmap' \in [ValuesOf(module) -> made \cup {Unmapped}]
  <2> HIDE DEF made, params, call
  <2> QED BY <1>1, <1>7, <1>8, BindingIsTyped
<1>10. MovedTo(next) \in FramesOf(module, made)
  <2>1. next \in Nat \ {0}
    BY <1>1
  <2> QED BY <1>1, <2>1, MovedToKeeps
<1>11. /\ frame \in FrameType /\ frame.left = Top.at /\ frame.saved = Mapped(params)
  <2>1. d + 1 \in Nat \ {0} /\ d \in Nat /\ Top.at \in Int
    BY <1>1, <1>3
  <2>2. MatchOf(module, d) \in Int
    BY <1>2, <2>1, MatchOfIsAPlace
  <2> HIDE DEF d, params
  <2> QED BY <1>6, <2>1, <2>2, FrameIsTyped
<1> HIDE DEF frame
<1>12. Resumable(module, made, frame)
  <2>1. DefOf(module, module[frame.left].name) = d
    BY <1>11
  <2> HIDE DEF d
  <2> QED BY <1>1, <1>6, <1>11, <2>1 DEF Resumable
<1>13. frames' \in FramesOf(module, made)
  BY <1>1, <1>10, <1>11, <1>12, FramesMore
<1> HIDE DEF made
<1>14. ValuesOf(emitted') = made
  BY <1>1 DEF made
<1> QED BY <1>1, <1>8, <1>9, <1>13, <1>14, LoweringIsKept

LEMMA LeaveCallKeeps ==
  ASSUME LowererInv, WellFormed(module), phase = "lower", phase' = phase,
         module' = module, LeaveCall
  PROVE  LowererInv'
<1> DEFINE call     == module[Top.left]
           d        == DefOf(module, call.name)
           params   == module[d].out
           returned == Kept(Mapped(params), Nat \ {Unmapped})
           made     == ValuesOf(emitted)
           old(v)   == Top.saved[CHOOSE k \in DOMAIN params : params[k] = v]
           was(v)   == IF v \in Range(params) THEN old(v) ELSE Binding(call.out, returned)[v]
<1>1. /\ frames # << >> /\ Top.kind = "call"
      /\ vmap' = [v \in DOMAIN vmap |-> was(v)]
      /\ frames' = Front(frames) /\ emitted' = emitted
  BY DEF LeaveCall
<1>2. /\ Top \in FrameType /\ Resumable(module, made, Top)
      /\ Front(frames) \in FramesOf(module, made)
  BY <1>1, FramesLess DEF LowererInv, Top
<1>3. /\ Len(Top.saved) = Len(params) /\ Range(Top.saved) \subseteq made \cup {Unmapped}
      /\ d # 0 /\ Top.saved \in Seq(Nat)
  BY <1>2 DEF Resumable, FrameType
<1>4. module \in Seq(OpType) /\ Len(module) \in Nat
  BY WellFormedMeans
<1>5. d \in 1 .. Len(module)
  <2>1. d \in 0 .. Len(module)
    BY <1>4, DefOfIsADef
  <2> HIDE DEF d
  <2> QED BY <1>3, <1>4, <2>1
<1>6. /\ params \in Seq(Nat) /\ DOMAIN params = 1 .. Len(params)
      /\ \A k \in 1 .. Len(params) : params[k] \in ValuesOf(module)
  <2> HIDE DEF d
  <2>1. /\ module[d].out \in Seq(Nat) /\ DOMAIN module[d].out = 1 .. Len(module[d].out)
        /\ \A k \in 1 .. Len(module[d].out) : module[d].out[k] \in Range(module[d].out)
    BY <1>5, WellFormedMeans, TakenIsInRange
  <2>2. Range(module[d].out) \subseteq ValuesOf(module)
    BY <1>5 DEF ValuesOf
  <2> QED BY <2>1, <2>2
<1> HIDE DEF params
<1>7. /\ emitted \in Seq(OpType) /\ Numbered(emitted)
      /\ vmap \in [ValuesOf(module) -> made \cup {Unmapped}]
  BY DEF LowererInv
<1> HIDE DEF made
<1>8. Range(returned) \subseteq made \cup {Unmapped}
  <2>1. /\ Mapped(params) \in Seq(made \cup {Unmapped})
        /\ Range(Mapped(params)) \subseteq made \cup {Unmapped}
    BY <1>6, MappedIsMade DEF made
  <2>2. /\ returned \in Seq(Nat \ {Unmapped})
        /\ \A k \in 1 .. Len(returned) :
             \E i \in 1 .. Len(Mapped(params)) : returned[k] = Mapped(params)[i]
    <3> DEFINE s == Mapped(params)
               S == Nat \ {Unmapped}
               V == made \cup {Unmapped}
    <3>1. s \in Seq(V)
      BY <2>1
    <3> HIDE DEF s, S, V
    <3>2. /\ Kept(s, S) \in Seq(S)
          /\ \A k \in 1 .. Len(Kept(s, S)) : \E i \in 1 .. Len(s) : Kept(s, S)[k] = s[i]
      BY <3>1, KeptIsPart
    <3> QED BY <3>2 DEF s, S
  <2>3. DOMAIN returned = 1 .. Len(returned)
    BY <2>2, LenProperties
  <2>4. \A i \in 1 .. Len(Mapped(params)) : Mapped(params)[i] \in made \cup {Unmapped}
    BY <2>1, ElementOfSeq
  <2> HIDE DEF returned
  <2> QED BY <2>2, <2>3, <2>4 DEF Range
<1> HIDE DEF returned
<1>9. Binding(call.out, returned) \in [ValuesOf(module) -> made \cup {Unmapped}]
  <2> HIDE DEF call
  <2> QED BY <1>7, <1>8, BindingIsTyped
<1>10. ASSUME NEW v \in Range(params)
       PROVE  old(v) \in made \cup {Unmapped}
  <2>1. \E k \in DOMAIN params : params[k] = v
    BY DEF Range
  <2> DEFINE k == CHOOSE k \in DOMAIN params : params[k] = v
  <2>2. k \in DOMAIN params
    BY <2>1
  <2>3. DOMAIN Top.saved = 1 .. Len(Top.saved)
    BY <1>3, LenProperties
  <2> HIDE DEF k
  <2>4. Top.saved[k] \in made \cup {Unmapped}
    BY <1>3, <1>6, <2>2, <2>3 DEF Range
  <2> QED BY <2>4 DEF k
<1>11. \A v \in ValuesOf(module) : was(v) \in made \cup {Unmapped}
  <2> HIDE DEF old
  <2> QED BY <1>9, <1>10
<1>12. vmap' \in [ValuesOf(module) -> made \cup {Unmapped}]
  <2> HIDE DEF was
  <2> QED BY <1>1, <1>7, <1>11
<1>13. frames' \in FramesOf(module, made)
  BY <1>1, <1>2
<1>14. ValuesOf(emitted') = made
  BY <1>1 DEF made
<1> QED BY <1>1, <1>7, <1>12, <1>13, <1>14, LoweringIsKept

(* The steps that only move on, at an op of the module.                    *)
LEMMA MarkersKeep ==
  ASSUME LowererInv, WellFormed(module), phase = "lower", phase' = phase, module' = module,
         SkipDef \/ SkipMarker \/ UnknownCall \/ EnterFor \/ EnterIf
  PROVE  LowererInv'
<1> DEFINE made == ValuesOf(emitted)
<1>1. /\ frames # << >> /\ Top.at \in 1 .. Len(module) /\ module \in Seq(OpType)
      /\ emitted' = emitted /\ vmap' = vmap /\ Len(module) \in Nat
  BY WellFormedMeans DEF SkipDef, SkipMarker, UnknownCall, EnterFor, EnterIf, At
<1>2. /\ Top.at \in Nat \ {0} /\ Top.at + 1 \in Nat \ {0} /\ Top.at \in Nat
  BY <1>1
<1>3. module[Top.at].n \in Int
  <2>1. module[Top.at] \in OpType
    BY <1>1, ElementOfSeq
  <2> QED BY <2>1 DEF OpType
<1>4. ASSUME NEW i \in Nat
      PROVE  MatchOf(module, i) \in Int /\ MatchOf(module, i) + 1 \in Nat \ {0}
  <2>1. MatchOf(module, i) \in Nat
    BY <1>1, MatchOfIsAPlace
  <2> QED BY <2>1
<1>5. CASE SkipDef
  <2> DEFINE d == DefOf(module, module[Top.at].name)
  <2>1. frames' = MovedTo(MatchOf(module, d) + 1)
    BY <1>5 DEF SkipDef
  <2>2. d \in 0 .. Len(module)
    BY <1>1, DefOfIsADef
  <2> HIDE DEF d
  <2>3. d \in Nat
    BY <1>1, <2>2
  <2>4. frames' \in FramesOf(module, made)
    BY <1>1, <1>4, <2>1, <2>3, MovedToKeeps
  <2> QED BY <1>1, <2>4, OnlyFramesMove
<1>6. CASE SkipMarker \/ UnknownCall
  <2>1. frames' = MovedTo(Top.at + 1)
    BY <1>6 DEF SkipMarker, UnknownCall
  <2>2. frames' \in FramesOf(module, made)
    BY <1>1, <1>2, <2>1, MovedToKeeps
  <2> QED BY <1>1, <2>2, OnlyFramesMove
<1>7. MovedTo(MatchOf(module, Top.at) + 1) \in FramesOf(module, made)
  BY <1>1, <1>2, <1>4, MovedToKeeps
<1>8. CASE EnterFor
  <2> DEFINE end   == MatchOf(module, Top.at)
             frame == Frame("loop", Top.at + 1, end, module[Top.at].n, << >>)
  <2>1. frames' = Append(MovedTo(end + 1), frame)
    BY <1>8 DEF EnterFor
  <2>2. end \in Int /\ << >> \in Seq(Nat)
    BY <1>2, <1>4, EmptySeq
  <2>3. frame \in FrameType /\ frame.kind = "loop"
    <3> HIDE DEF end
    <3>1. ASSUME NEW none \in Seq(Nat)
          PROVE  /\ Frame("loop", Top.at + 1, end, module[Top.at].n, none) \in FrameType
                 /\ Frame("loop", Top.at + 1, end, module[Top.at].n, none).kind = "loop"
      BY <1>2, <1>3, <2>2, FrameIsTyped
    <3> QED BY <2>2, <3>1
  <2> HIDE DEF frame
  <2>4. frames' \in FramesOf(module, made)
    BY <1>7, <2>1, <2>3, FramesMore
  <2> QED BY <1>1, <2>4, OnlyFramesMove
<1>9. CASE EnterIf
  <2>1. frames' = Append(MovedTo(MatchOf(module, Top.at) + 1),
                         RangeFrame(Top.at + 1, Top.at + 1 + module[Top.at].n))
    BY <1>9 DEF EnterIf, ThenBody
  <2>2. Top.at + 1 + module[Top.at].n \in Int
    BY <1>2, <1>3
  <2>3. frames' \in FramesOf(module, made)
    BY <1>2, <1>7, <2>1, <2>2, RangeFrameKeeps
  <2> QED BY <1>1, <2>3, OnlyFramesMove
<1> QED BY <1>5, <1>6, <1>8, <1>9

(* The steps between the ops.                                              *)
LEMMA ReturnsKeep ==
  ASSUME LowererInv, phase = "lower", phase' = phase, module' = module,
         CallBody \/ Iterate \/ LeaveFor \/ LeaveRange
  PROVE  LowererInv'
<1> DEFINE made == ValuesOf(emitted)
<1>1. /\ frames # << >> /\ emitted' = emitted /\ vmap' = vmap
  BY DEF CallBody, Iterate, LeaveFor, LeaveRange
<1>2. Front(frames) \in FramesOf(module, made) /\ Top \in FrameType
  BY <1>1, FramesLess DEF LowererInv, Top
<1>3. /\ Top.at \in Nat \ {0} /\ Top.hi \in Int /\ Top.left \in Int /\ Top.saved \in Seq(Nat)
  BY <1>2 DEF FrameType
<1>4. CASE CallBody
  <2>1. frames' = Append(MovedTo(Top.at + 1), RangeFrame(Top.at, Top.at + 1))
    BY <1>4 DEF CallBody
  <2>2. Top.at + 1 \in Nat \ {0} /\ Top.at + 1 \in Int
    BY <1>3
  <2>3. MovedTo(Top.at + 1) \in FramesOf(module, made)
    BY <1>1, <2>2, MovedToKeeps
  <2>4. frames' \in FramesOf(module, made)
    BY <1>3, <2>1, <2>2, <2>3, RangeFrameKeeps
  <2> QED BY <1>1, <2>4, OnlyFramesMove
<1>5. CASE Iterate
  <2> DEFINE frame == Frame("loop", Top.at, Top.hi, Top.left - 1, Top.saved)
  <2>1. frames' = Append(Append(Front(frames), frame), RangeFrame(Top.at, Top.hi))
    BY <1>5 DEF Iterate
  <2>2. Top.left - 1 \in Int
    BY <1>3
  <2>3. frame \in FrameType /\ frame.kind = "loop"
    BY <1>3, <2>2, FrameIsTyped
  <2> HIDE DEF frame
  <2>4. Append(Front(frames), frame) \in FramesOf(module, made)
    BY <1>2, <2>3, FramesMore
  <2>5. frames' \in FramesOf(module, made)
    BY <1>3, <2>1, <2>4, RangeFrameKeeps
  <2> QED BY <1>1, <2>5, OnlyFramesMove
<1>6. CASE LeaveFor \/ LeaveRange
  <2>1. frames' = Front(frames) \/ frames' = << >>
    BY <1>6 DEF LeaveFor, LeaveRange
  <2>2. frames' \in FramesOf(module, made)
    BY <1>2, <2>1, NoFrames
  <2> QED BY <1>1, <2>2, OnlyFramesMove
<1> QED BY <1>4, <1>5, <1>6

(* One step of the lowering.                                               *)
LEMMA LowererKeeps ==
  ASSUME LowererInv, WellFormed(module), phase = "lower", phase' = phase,
         module' = module, LoweringStep
  PROVE  LowererInv'
BY EmitSpinorOpKeeps, EnterCallKeeps, LeaveCallKeeps, MarkersKeep, ReturnsKeep
   DEF LoweringStep

-----------------------------------------------------------------------------
(* The pipeline.  The inductive invariant: besides the types, the module   *)
(* the parser builds is in single assignment form and its values are       *)
(* numbered without a gap, and what the optimizer works on is linear.      *)
OptimizerInv ==
  /\ phase \in {"parse", "optimize", "lower", "ok", "rejected"}
  /\ passes \in 0 .. Len(Passes)
  /\ WellFormed(module)
  /\ phase \in {"optimize", "lower", "ok"} => Linear(module)
  /\ phase # "parse" => (phase # "rejected" <=> Linear(ops))

Inv == ParserInv /\ OptimizerInv /\ LowererInv

LEMMA NothingIsWellFormed ==
  /\ WellFormed(<< >>) /\ << >> \in Seq(OpType) /\ Numbered(<< >>)
<1>1. << >> \in Seq(OpType) /\ Len(<< >>) = 0
  BY EmptySeq
<1>2. ValuesOf(<< >>) = {}
  BY <1>1 DEF ValuesOf
<1>3. Numbered(<< >>)
  <2>1. ValuesOf(<< >>) = 1 .. 0 /\ 0 \in Nat
    BY <1>2
  <2> QED BY <2>1, NumberedUpto
<1>4. WellFormed(<< >>)
  BY <1>1 DEF WellFormed, MadeOnce, MadeBefore, GatesThread
<1> QED BY <1>1, <1>3, <1>4

(* The declaration of the register.                                        *)
LEMMA InitParserInv ==
  ASSUME Init
  PROVE  ParserInv
<1> DEFINE n == Len(Register)
           alloc(k) == Op("alloc", << >>, <<k>>, 0, "", <<Register[k]>>)
<1>1. /\ n \in Nat /\ DOMAIN Register = 1 .. n
      /\ \A k \in 1 .. n : Register[k] \in Wires /\ Register[k] \in Names
  <2>1. Register \in Seq(Range(Register))
    BY NamesAssumption
  <2> QED BY <2>1, LenProperties, ElementOfSeq DEF Wires, Names
<1>2. /\ ops = [k \in 1 .. n |-> alloc(k)]
      /\ source = << >> /\ open = << >>
      /\ slot = [x \in Names |->
                   IF x \in Wires THEN CHOOSE k \in 1 .. Len(Register) : Register[k] = x
                   ELSE Unbound]
  BY DEF Init
<1> HIDE DEF n, alloc
<1>3. Len(ops) = n /\ DOMAIN ops = 1 .. n
  BY <1>1, <1>2
<1>4. ASSUME NEW k \in 1 .. n
      PROVE  /\ ops[k] = alloc(k)
             /\ ops[k].kind = "alloc" /\ ops[k].in = << >> /\ ops[k].out = <<k>>
             /\ Len(ops[k].in) = 0 /\ Len(ops[k].out) = 1
             /\ ops[k].out[1] = k /\ Range(ops[k].out) = {k}
  <2>1. ops[k] = alloc(k)
    BY <1>2
  <2>2. ops[k].kind = "alloc" /\ ops[k].in = << >> /\ ops[k].out = <<k>>
    <3> DEFINE none == << >>
               one  == <<k>>
               qs   == <<Register[k]>>
    <3>1. alloc(k) = Op("alloc", none, one, 0, "", qs)
      BY DEF alloc
    <3> HIDE DEF none, one, qs
    <3> DEFINE op == Op("alloc", none, one, 0, "", qs)
    <3>2. op.kind = "alloc" /\ op.in = none /\ op.out = one
      BY DEF Op
    <3> HIDE DEF op
    <3>3. ops[k] = op
      BY <2>1, <3>1 DEF op
    <3>4. ops[k].kind = "alloc" /\ ops[k].in = none /\ ops[k].out = one
      BY <3>2, <3>3
    <3> QED BY <3>4 DEF none, one
  <2>3. Len(<< >>) = 0 /\ Len(<<k>>) = 1 /\ <<k>>[1] = k /\ Range(<<k>>) = {k}
    BY EmptySeq DEF Range
  <2> QED BY <2>1, <2>2, <2>3
<1>5. ASSUME NEW k \in 1 .. n PROVE ops[k] \in OpType
  <2>1. /\ "alloc" \in OpKinds /\ << >> \in Seq(Nat) /\ <<k>> \in Seq(Nat)
        /\ "" \in FunctionNames /\ <<Register[k]>> \in Seq(Names)
    BY <1>1, EmptySeq DEF OpKinds, SpinorKinds, FunctionNames
  <2>2. ASSUME NEW zero \in Int, NEW kind \in OpKinds, NEW name \in FunctionNames,
               NEW none \in Seq(Nat)
        PROVE  Op(kind, none, <<k>>, zero, name, <<Register[k]>>) \in OpType
    BY <2>1, OpIsTyped
  <2>3. 0 \in Int
    OBVIOUS
  <2>4. alloc(k) \in OpType
    BY <2>1, <2>2, <2>3 DEF alloc
  <2> QED BY <1>4, <2>4
<1>6. ops \in Seq(OpType)
  <2>1. ops = [k \in 1 .. n |-> ops[k]]
    BY <1>2
  <2> QED BY <1>1, <1>5, <2>1
<1>7. ValuesOf(ops) = 1 .. n
  <2>1. ASSUME NEW v \in ValuesOf(ops) PROVE v \in 1 .. n
    <3>1. PICK k \in 1 .. n : v \in Range(ops[k].out)
      BY <1>3 DEF ValuesOf
    <3> QED BY <1>4, <3>1
  <2>2. ASSUME NEW v \in 1 .. n PROVE v \in ValuesOf(ops)
    <3>1. v \in Range(ops[v].out)
      BY <1>4
    <3> QED BY <1>3, <3>1 DEF ValuesOf
  <2> QED BY <2>1, <2>2
<1>8. Numbered(ops)
  BY <1>1, <1>7, NumberedUpto
<1>9. WellFormed(ops)
  <2>1. MadeOnce(ops)
    BY <1>3, <1>4 DEF MadeOnce
  <2>2. MadeBefore(ops)
    BY <1>3, <1>4 DEF MadeBefore
  <2>3. GatesThread(ops)
    BY <1>3, <1>4 DEF GatesThread, GateKinds, OneQubitGates, TwoQubitGates
  <2> QED BY <1>6, <2>1, <2>2, <2>3 DEF WellFormed
<1>10. slot \in [Names -> ValuesOf(ops) \cup {Unbound}]
  <2>1. ASSUME NEW x \in Wires
        PROVE  (CHOOSE k \in 1 .. Len(Register) : Register[k] = x) \in 1 .. Len(Register)
    <3>1. \E k \in 1 .. Len(Register) : Register[k] = x
      BY <1>1 DEF Wires, Range, n
    <3> QED BY <3>1
  <2> QED BY <1>2, <1>7, <2>1 DEF n
<1>11. source \in Seq(Statements) /\ open \in Seq(1 .. Len(ops))
  BY <1>2, EmptySeq
<1> QED BY <1>8, <1>9, <1>10, <1>11 DEF ParserInv

LEMMA InitInv ==
  PipelineInit => Inv
<1> SUFFICES ASSUME PipelineInit PROVE Inv
  OBVIOUS
<1>1. /\ Init /\ phase = "parse" /\ passes = 0 /\ module = << >> /\ frames = << >>
      /\ vmap = << >> /\ emitted = << >>
  BY DEF PipelineInit
<1>2. ParserInv
  BY <1>1, InitParserInv
<1>3. OptimizerInv
  <2>1. 0 \in 0 .. Len(Passes)
    BY DEF Passes
  <2> QED BY <1>1, <2>1, NothingIsWellFormed DEF OptimizerInv
<1>4. LowererInv
  <2>1. << >> \in [DOMAIN << >> -> ValuesOf(emitted) \cup {Unmapped}]
    OBVIOUS
  <2> QED BY <1>1, <2>1, NothingIsWellFormed, NoFrames DEF LowererInv
<1> QED BY <1>2, <1>3, <1>4 DEF Inv

LEMMA ParserStays ==
  ASSUME ParserInv, UNCHANGED parserVars
  PROVE  ParserInv'
BY DEF ParserInv, parserVars

(* Outside the lowering there are no frames, whatever the module.          *)
LEMMA LowererStays ==
  ASSUME LowererInv, UNCHANGED loweringVars, frames = << >>, phase' # "lower"
  PROVE  LowererInv'
<1>1. frames' = << >> /\ vmap' = vmap /\ emitted' = emitted
  BY DEF loweringVars
<1> QED BY <1>1, NoFrames DEF LowererInv

LEMMA ReadKeeps ==
  ASSUME Inv, Read
  PROVE  Inv'
<1>1. /\ phase = "parse" /\ phase' = phase /\ passes' = passes /\ module' = module
      /\ UNCHANGED loweringVars
      /\ \E s \in Statements : ReadStatement(s)
  BY DEF Read
<1>2. ParserInv'
  BY <1>1, ParserKeeps DEF Inv
<1>3. OptimizerInv'
  BY <1>1 DEF Inv, OptimizerInv
<1>4. LowererInv'
  BY <1>1, LowererStays DEF Inv, LowererInv
<1> QED BY <1>2, <1>3, <1>4 DEF Inv

LEMMA TypeCheckKeeps ==
  ASSUME Inv, TypeCheck
  PROVE  Inv'
<1>1. /\ phase = "parse" /\ phase' = IF TypeChecks(ops) THEN "optimize" ELSE "rejected"
      /\ module' = ops /\ ops' = ops /\ passes' = passes
      /\ UNCHANGED parserVars /\ UNCHANGED loweringVars
  BY DEF TypeCheck, parserVars
<1>2. ParserInv'
  BY <1>1, ParserStays DEF Inv
<1>3. WellFormed(ops) /\ (TypeChecks(ops) <=> Linear(ops))
  BY TypeCheckIsLinearity DEF Inv, ParserInv
<1>4. OptimizerInv'
  BY <1>1, <1>3 DEF Inv, OptimizerInv
<1>5. LowererInv'
  BY <1>1, LowererStays DEF Inv, LowererInv
<1> QED BY <1>2, <1>4, <1>5 DEF Inv

LEMMA OptimizeKeeps ==
  ASSUME Inv, Optimize
  PROVE  Inv'
<1>1. /\ phase = "optimize" /\ phase' = phase /\ passes < Len(Passes)
      /\ passes' = passes + 1 /\ module' = PassOf(Passes[passes + 1], module)
      /\ ops' = ops /\ UNCHANGED parserVars /\ UNCHANGED loweringVars
  BY DEF Optimize, parserVars
<1>2. ParserInv'
  BY <1>1, ParserStays DEF Inv
<1>3. WellFormed(module') /\ Linear(module')
  BY <1>1, PassKeepsLinear DEF Inv, OptimizerInv
<1>4. passes' \in 0 .. Len(Passes)
  <2>1. Len(Passes) = 8
    BY DEF Passes
  <2> QED BY <1>1, <2>1 DEF Inv, OptimizerInv
<1>5. OptimizerInv'
  BY <1>1, <1>3, <1>4 DEF Inv, OptimizerInv
<1>6. LowererInv'
  BY <1>1, LowererStays DEF Inv, LowererInv
<1> QED BY <1>2, <1>5, <1>6 DEF Inv

LEMMA LowerKeeps ==
  ASSUME Inv, Lower
  PROVE  Inv'
<1>1. /\ phase = "optimize" /\ phase' = "lower" /\ passes' = passes /\ module' = module
      /\ ops' = ops /\ UNCHANGED parserVars
      /\ frames' = <<RangeFrame(1, Len(module) + 1)>>
      /\ vmap' = [v \in ValuesOf(module) |-> Unmapped] /\ emitted' = << >>
  BY DEF Lower, Lowering, parserVars
<1>2. ParserInv'
  BY <1>1, ParserStays DEF Inv
<1>3. OptimizerInv'
  BY <1>1 DEF Inv, OptimizerInv
<1>4. Len(module) \in Nat
  BY WellFormedMeans DEF Inv, OptimizerInv
<1>5. frames' \in FramesOf(module', ValuesOf(emitted'))
  <2>1. RangeFrame(1, Len(module) + 1) \in FrameType
    <3>1. Len(module) + 1 \in Int
      BY <1>4
    <3>2. ASSUME NEW hi \in Int, NEW lo \in Nat \ {0}, NEW n \in Int, NEW none \in Seq(Nat)
          PROVE  Frame("range", lo, hi, n, none) \in FrameType
      BY FrameIsTyped
    <3>3. 1 \in Nat \ {0} /\ 0 \in Int /\ << >> \in Seq(Nat)
      BY EmptySeq
    <3> QED BY <3>1, <3>2, <3>3 DEF RangeFrame
  <2>2. RangeFrame(1, Len(module) + 1).kind = "range"
    BY DEF RangeFrame, Frame
  <2> HIDE DEF RangeFrame
  <2> DEFINE f == RangeFrame(1, Len(module) + 1)
  <2> HIDE DEF f
  <2>3. f \in FrameType /\ f.kind # "call"
    BY <2>1, <2>2 DEF f
  <2>4. <<f>> \in FramesOf(module', ValuesOf(emitted'))
    <3>1. <<f>> \in Seq(FrameType) /\ Len(<<f>>) = 1 /\ <<f>>[1] = f
      BY <2>3
    <3> QED BY <2>3, <3>1 DEF FramesOf
  <2> QED BY <1>1, <2>4 DEF f
<1>6. LowererInv'
  <2>1. emitted' \in Seq(OpType) /\ Numbered(emitted')
    BY <1>1, NothingIsWellFormed
  <2>2. DOMAIN vmap' = ValuesOf(module')
    BY <1>1
  <2>3. vmap' \in [DOMAIN vmap' -> ValuesOf(emitted') \cup {Unmapped}]
    BY <1>1
  <2> QED BY <1>1, <1>5, <2>1, <2>2, <2>3 DEF LowererInv
<1> QED BY <1>2, <1>3, <1>6 DEF Inv

LEMMA LowerStepKeeps ==
  ASSUME Inv, LowerStep
  PROVE  Inv'
<1>1. /\ phase = "lower" /\ phase' = phase /\ passes' = passes /\ module' = module
      /\ ops' = ops /\ UNCHANGED parserVars /\ LoweringStep
  BY DEF LowerStep, parserVars
<1>2. ParserInv'
  BY <1>1, ParserStays DEF Inv
<1>3. OptimizerInv'
  BY <1>1 DEF Inv, OptimizerInv
<1>4. LowererInv'
  BY <1>1, LowererKeeps DEF Inv, OptimizerInv
<1> QED BY <1>2, <1>3, <1>4 DEF Inv

LEMMA ReturnKeeps ==
  ASSUME Inv, Return
  PROVE  Inv'
<1>1. /\ phase = "lower" /\ phase' = "ok" /\ passes' = passes /\ module' = module
      /\ ops' = ops /\ UNCHANGED parserVars /\ UNCHANGED loweringVars /\ frames = << >>
  BY DEF Return, parserVars
<1>2. ParserInv'
  BY <1>1, ParserStays DEF Inv
<1>3. OptimizerInv'
  BY <1>1 DEF Inv, OptimizerInv
<1>4. LowererInv'
  BY <1>1, LowererStays DEF Inv
<1> QED BY <1>2, <1>3, <1>4 DEF Inv

LEMMA StutterKeeps ==
  ASSUME Inv, UNCHANGED vars
  PROVE  Inv'
BY DEF Inv, ParserInv, OptimizerInv, LowererInv, vars, parserVars, loweringVars

LEMMA StepInv ==
  Inv /\ [Next]_vars => Inv'
BY ReadKeeps, TypeCheckKeeps, OptimizeKeeps, LowerKeeps, LowerStepKeeps, ReturnKeeps,
   StutterKeeps DEF Next

(* Through the whole pipeline: modules are in single assignment form, the  *)
(* values of those being built are numbered without a gap, what has passed *)
(* the type check stays linear, and every block the lowering has entered   *)
(* leaves it a value map it can go on with.                                *)
THEOREM PhononInvariant == Spec => []Inv
<1> QED BY InitInv, StepInv, PTL DEF Spec

(* Every value an op of a module names is a value of that module, and      *)
(* every register and every value of the Spinor module a Phonon value      *)
(* stands for is one there is, in every phase of the pipeline.             *)
THEOREM PhononTypeCorrect == Spec => []TypeOK
<1>1. Inv => TypeOK
  <2> SUFFICES ASSUME Inv PROVE TypeOK
    OBVIOUS
  <2>1. ASSUME NEW m, WellFormed(m), NEW i \in 1 .. Len(m)
        PROVE  /\ m[i].kind \in OpKinds
               /\ Range(m[i].in) \subseteq ValuesOf(m) /\ Range(m[i].out) \subseteq ValuesOf(m)
    <3>1. m[i] \in OpType
      BY <2>1, WellFormedMeans
    <3>2. Range(m[i].in) \subseteq ValuesOf(m)
      <4> SUFFICES ASSUME NEW v \in Range(m[i].in) PROVE v \in ValuesOf(m)
        OBVIOUS
      <4>1. PICK k \in 1 .. Len(m[i].in) : v = m[i].in[k]
        BY <2>1, TakenByIndex
      <4> QED BY <2>1, <4>1, WellFormedMeans
    <3>3. Range(m[i].out) \subseteq ValuesOf(m)
      BY DEF ValuesOf
    <3> QED BY <3>1, <3>2, <3>3 DEF OpType
  <2>2. WellFormed(ops) /\ WellFormed(module)
    BY DEF Inv, ParserInv, OptimizerInv
  <2>3. Range(vmap) \subseteq ValuesOf(emitted) \cup {Unmapped}
    BY DEF Inv, LowererInv, Range
  <2>4. \A i \in 1 .. Len(ops) : /\ ops[i].kind \in OpKinds
                                 /\ Range(ops[i].in) \cup Range(ops[i].out) \subseteq ValuesOf(ops)
    BY <2>1, <2>2
  <2>5. \A i \in 1 .. Len(module) : Range(module[i].in) \subseteq ValuesOf(module)
    BY <2>1, <2>2
  <2> QED BY <2>3, <2>4, <2>5 DEF TypeOK, Inv, ParserInv, OptimizerInv
<1> QED BY <1>1, PhononInvariant, PTL

(* typecheck accepts a program exactly when it uses no value twice, but    *)
(* for a measure followed by a reset.                                      *)
THEOREM TypeCheckIsExact == Spec => []AcceptsLinear
<1>1. Inv => AcceptsLinear
  BY DEF Inv, OptimizerInv, AcceptsLinear
<1> QED BY <1>1, PhononInvariant, PTL

(* However many passes of the optimizer have run, and whatever they have   *)
(* cancelled and merged, no value is used twice in what they left.         *)
THEOREM OptimizerKeepsLinearity == Spec => []OptimizedLinear
<1>1. Inv => OptimizedLinear
  BY DEF Inv, OptimizerInv, OptimizedLinear
<1> QED BY <1>1, PhononInvariant, PTL
=============================================================================
