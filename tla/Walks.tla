------------------------------- MODULE Walks -------------------------------
(***************************************************************************)
(* Loops over a sequence, as the passes and checks make them: a state is   *)
(* carried along, and every element has its step.                          *)
(***************************************************************************)
EXTENDS Integers, Sequences, SequenceTheorems, WellFoundedInduction, TLAPS

(* What becomes of start after the first k of some steps, for every k.     *)
Through(start, steps) ==
  LET after[k \in 0 .. Len(steps)] ==
        IF k = 0 THEN start ELSE steps[k][after[k - 1]]
  IN  after

(* The elements of s that are in S, in their order.                        *)
KeptStep(x, S) == [out \in Seq(S) |-> IF x \in S THEN Append(out, x) ELSE out]

Kept(s, S) ==
  Through(<< >>, [k \in 1 .. Len(s) |-> KeptStep(s[k], S)])[Len(s)]

-----------------------------------------------------------------------------
(* Proofs about them stand for an induction over the sequence.             *)
LEMMA NatSetHasLowest ==
  ASSUME NEW S \in SUBSET Nat, S # {}
  PROVE  \E m \in S : \A n \in S : m <= n
<1> DEFINE less == OpToRel(<, Nat)
<1>1. \A m, n \in Nat : m < n => <<m, n>> \in less
  BY DEF OpToRel
<1>2. IsWellFoundedOn(less, Nat)
  BY NatLessThanWellFounded
<1> HIDE DEF less
<1>3. PICK m \in S : \A n \in S : <<n, m>> \notin less
  BY <1>2, WFMin
<1>4. ASSUME NEW n \in S PROVE m <= n
  <2>1. m \in Nat /\ n \in Nat /\ ~(n < m)
    BY <1>1, <1>3
  <2> QED BY <2>1
<1> QED BY <1>4

Iterates(f, n, start, step) ==
  f = [k \in 0 .. n |-> IF k = 0 THEN start ELSE step[k][f[k - 1]]]

LEMMA IterationExists ==
  ASSUME NEW n \in Nat, NEW start, NEW step
  PROVE  \E f : Iterates(f, n, start, step)
<1> DEFINE bad == { m \in Nat : ~ \E f : Iterates(f, m, start, step) }
<1> SUFFICES ASSUME bad # {} PROVE FALSE
  OBVIOUS
<1>1. PICK m \in bad : \A j \in bad : m <= j
  BY NatSetHasLowest
<1>2. m \in Nat /\ ~ \E f : Iterates(f, m, start, step)
  OBVIOUS
<1>3. CASE m = 0
  <2> DEFINE f == [k \in 0 .. m |-> start]
  <2>1. f = [k \in 0 .. m |-> IF k = 0 THEN start ELSE step[k][f[k - 1]]]
    BY <1>3
  <2>2. Iterates(f, m, start, step)
    BY <2>1 DEF Iterates
  <2> QED BY <1>2, <2>2
<1>4. CASE m > 0
  <2>1. m - 1 \in Nat /\ ~(m <= m - 1)
    BY <1>2, <1>4
  <2>2. PICK g : Iterates(g, m - 1, start, step)
    BY <1>1, <2>1
  <2> DEFINE f == [k \in 0 .. m |-> IF k = m THEN step[m][g[m - 1]] ELSE g[k]]
  <2>3. \A k \in 0 .. m - 1 :
          g[k] = IF k = 0 THEN start ELSE step[k][g[k - 1]]
    BY <2>2 DEF Iterates
  <2>4. ASSUME NEW k \in 0 .. m
        PROVE  f[k] = IF k = 0 THEN start ELSE step[k][f[k - 1]]
    <3>1. CASE k = m
      <4>1. m - 1 \in 0 .. m /\ m - 1 # m /\ k # 0
        BY <1>2, <1>4, <3>1
      <4>2. f[m - 1] = g[m - 1] /\ f[k] = step[m][g[m - 1]]
        BY <3>1, <4>1
      <4> QED BY <3>1, <4>1, <4>2
    <3>2. CASE k # m
      <4>1. k \in 0 .. m - 1 /\ f[k] = g[k]
        BY <1>2, <3>2
      <4>2. CASE k = 0
        BY <2>3, <4>1, <4>2
      <4>3. CASE k # 0
        <5>1. k - 1 \in 0 .. m /\ k - 1 # m
          BY <1>2, <4>1, <4>3
        <5>2. f[k - 1] = g[k - 1]
          BY <5>1
        <5> QED BY <2>3, <4>1, <4>3, <5>2
      <4> QED BY <4>2, <4>3
    <3> QED BY <3>1, <3>2
  <2>5. f = [k \in 0 .. m |-> f[k]]
    OBVIOUS
  <2> HIDE DEF f
  <2>6. [k \in 0 .. m |-> f[k]] =
          [k \in 0 .. m |-> IF k = 0 THEN start ELSE step[k][f[k - 1]]]
    BY <2>4
  <2>7. Iterates(f, m, start, step)
    BY <2>5, <2>6 DEF Iterates
  <2> QED BY <1>2, <2>7
<1> QED BY <1>2, <1>3, <1>4

LEMMA ThroughSteps ==
  ASSUME NEW start, NEW steps, Len(steps) \in Nat
  PROVE  /\ Through(start, steps)[0] = start
         /\ \A k \in 1 .. Len(steps) :
              Through(start, steps)[k] = steps[k][Through(start, steps)[k - 1]]
<1> DEFINE n == Len(steps)
           f == Through(start, steps)
<1>1. PICK h : Iterates(h, n, start, steps)
  BY IterationExists
<1>2. f = CHOOSE g : Iterates(g, n, start, steps)
  BY DEF Through, Iterates
<1>3. Iterates(f, n, start, steps)
  BY <1>1, <1>2
<1> HIDE DEF f
<1>4. \A k \in 0 .. n : f[k] = IF k = 0 THEN start ELSE steps[k][f[k - 1]]
  BY <1>3 DEF Iterates
<1>5. 0 \in 0 .. n /\ \A k \in 1 .. n : k \in 0 .. n /\ k # 0
  OBVIOUS
<1> QED BY <1>4, <1>5 DEF f

(* Walks in general: what every step keeps, the whole walk keeps; and a    *)
(* walk one step longer ends with that step.                               *)
LEMMA ThroughKeeps ==
  ASSUME NEW S, NEW start \in S, NEW steps, Len(steps) \in Nat,
         \A k \in 1 .. Len(steps) : \A x \in S : steps[k][x] \in S
  PROVE  \A k \in 0 .. Len(steps) : Through(start, steps)[k] \in S
<1> DEFINE n   == Len(steps)
           f   == Through(start, steps)
           bad == { k \in 0 .. n : f[k] \notin S }
<1> SUFFICES ASSUME bad # {} PROVE FALSE
  OBVIOUS
<1>1. f[0] = start /\ \A k \in 1 .. n : f[k] = steps[k][f[k - 1]]
  BY ThroughSteps
<1> HIDE DEF f
<1>2. bad \in SUBSET Nat
  OBVIOUS
<1>3. PICK m \in bad : \A j \in bad : m <= j
  BY <1>2, NatSetHasLowest
<1>4. m # 0
  BY <1>1
<1>5. m \in 1 .. n /\ m - 1 \in 0 .. n /\ ~(m <= m - 1)
  BY <1>4
<1>6. f[m - 1] \in S
  BY <1>3, <1>5
<1> QED BY <1>1, <1>5, <1>6

LEMMA ThroughOneMore ==
  ASSUME NEW n \in Nat, NEW start, NEW steps, NEW more,
         Len(steps) = n, Len(more) = n + 1,
         \A k \in 1 .. n : more[k] = steps[k]
  PROVE  Through(start, more)[n + 1] = more[n + 1][Through(start, steps)[n]]
<1> DEFINE f   == Through(start, steps)
           g   == Through(start, more)
           bad == { k \in 0 .. n : g[k] # f[k] }
<1>1. f[0] = start /\ \A k \in 1 .. n : f[k] = steps[k][f[k - 1]]
  BY ThroughSteps
<1>2. g[0] = start /\ \A k \in 1 .. n + 1 : g[k] = more[k][g[k - 1]]
  BY ThroughSteps
<1> HIDE DEF f, g
<1>3. bad = {}
  <2> SUFFICES ASSUME bad # {} PROVE FALSE
    OBVIOUS
  <2>1. bad \in SUBSET Nat
    OBVIOUS
  <2>2. PICK m \in bad : \A j \in bad : m <= j
    BY <2>1, NatSetHasLowest
  <2>3. m # 0
    BY <1>1, <1>2
  <2>4. /\ m \in 1 .. n /\ m \in 1 .. n + 1 /\ m - 1 \in 0 .. n
        /\ ~(m <= m - 1)
    BY <2>3
  <2>5. g[m - 1] = f[m - 1]
    BY <2>2, <2>4
  <2> QED BY <1>1, <1>2, <2>4, <2>5
<1>4. n \in 0 .. n /\ n + 1 \in 1 .. n + 1 /\ (n + 1) - 1 = n
  OBVIOUS
<1> QED BY <1>2, <1>3, <1>4 DEF f, g

(* A walk that is in a set of its own after each step.                     *)
LEMMA ThroughReaches ==
  ASSUME NEW start, NEW steps, Len(steps) \in Nat, NEW sets,
         start \in sets[0],
         \A k \in 1 .. Len(steps) : \A x \in sets[k - 1] : steps[k][x] \in sets[k]
  PROVE  \A k \in 0 .. Len(steps) : Through(start, steps)[k] \in sets[k]
<1> DEFINE n   == Len(steps)
           f   == Through(start, steps)
           bad == { k \in 0 .. n : f[k] \notin sets[k] }
<1> SUFFICES ASSUME bad # {} PROVE FALSE
  OBVIOUS
<1>1. f[0] = start /\ \A k \in 1 .. n : f[k] = steps[k][f[k - 1]]
  BY ThroughSteps
<1> HIDE DEF f
<1>2. bad \in SUBSET Nat
  OBVIOUS
<1>3. PICK m \in bad : \A j \in bad : m <= j
  BY <1>2, NatSetHasLowest
<1>4. m # 0
  BY <1>1
<1>5. m \in 1 .. n /\ m - 1 \in 0 .. n /\ ~(m <= m - 1)
  BY <1>4
<1>6. f[m - 1] \in sets[m - 1]
  BY <1>3, <1>5
<1> QED BY <1>1, <1>5, <1>6

LEMMA KeptStepIs ==
  ASSUME NEW x, NEW S, NEW out \in Seq(S)
  PROVE  KeptStep(x, S)[out] = IF x \in S THEN Append(out, x) ELSE out
BY DEF KeptStep

(* What is kept of a sequence is a sequence of its elements.               *)
LEMMA KeptIsPart ==
  ASSUME NEW A, NEW s \in Seq(A), NEW S
  PROVE  /\ Kept(s, S) \in Seq(S)
         /\ \A k \in 1 .. Len(Kept(s, S)) : \E i \in 1 .. Len(s) : Kept(s, S)[k] = s[i]
<1> DEFINE n     == Len(s)
           steps == [k \in 1 .. n |-> KeptStep(s[k], S)]
           T     == { out \in Seq(S) :
                        \A k \in 1 .. Len(out) : \E i \in 1 .. n : out[k] = s[i] }
<1>1. /\ n \in Nat /\ Len(steps) = n
      /\ \A k \in 1 .. n : steps[k] = KeptStep(s[k], S)
  BY LenProperties
<1>2. Kept(s, S) = Through(<< >>, steps)[n]
  BY DEF Kept
<1> HIDE DEF steps
<1>3. << >> \in T
  OBVIOUS
<1>4. ASSUME NEW k \in 1 .. n, NEW out \in T
      PROVE  steps[k][out] \in T
  <2>1. /\ out \in Seq(S) /\ Len(out) \in Nat
        /\ \A j \in 1 .. Len(out) : \E i \in 1 .. n : out[j] = s[i]
    BY LenProperties
  <2>2. steps[k][out] = IF s[k] \in S THEN Append(out, s[k]) ELSE out
    <3>1. steps[k] = KeptStep(s[k], S)
      BY <1>1
    <3> QED BY <2>1, <3>1, KeptStepIs
  <2>3. CASE s[k] \in S
    <3> DEFINE next == Append(out, s[k])
    <3>1. /\ next \in Seq(S) /\ Len(next) = Len(out) + 1
          /\ \A j \in 1 .. Len(out) : next[j] = out[j]
          /\ next[Len(out) + 1] = s[k]
      BY <2>1, <2>3, AppendProperties
    <3>2. steps[k][out] = next
      BY <2>2, <2>3
    <3> HIDE DEF next, n
    <3>3. \A j \in 1 .. Len(next) : \E i \in 1 .. n : next[j] = s[i]
      BY <2>1, <3>1
    <3> QED BY <3>1, <3>2, <3>3
  <2>4. CASE s[k] \notin S
    BY <2>1, <2>2, <2>4
  <2> QED BY <2>3, <2>4
<1>5. \A k \in 0 .. n : Through(<< >>, steps)[k] \in T
  <2> HIDE DEF T, n
  <2> QED BY <1>1, <1>3, <1>4, ThroughKeeps
<1>6. n \in 0 .. n
  BY <1>1
<1>7. Kept(s, S) \in T
  <2> HIDE DEF T
  <2> QED BY <1>2, <1>5, <1>6
<1> DEFINE out == Kept(s, S)
<1> HIDE DEF out
<1>8. out \in T
  BY <1>7 DEF out
<1>9. out \in Seq(S) /\ \A k \in 1 .. Len(out) : \E i \in 1 .. Len(s) : out[k] = s[i]
  BY <1>8
<1> QED BY <1>9 DEF out

(* What is kept of the numbers up to n is what S has of them, in order.    *)
LEMMA KeptCounts ==
  ASSUME NEW n \in Nat, NEW S \in SUBSET (1 .. n)
  PROVE  LET kept == Kept([i \in 1 .. n |-> i], S)
         IN  /\ kept \in Seq(S)
             /\ \A i, j \in 1 .. Len(kept) : i < j => kept[i] < kept[j]
             /\ \A x \in S : \E i \in 1 .. Len(kept) : kept[i] = x
<1> DEFINE s     == [i \in 1 .. n |-> i]
           steps == [k \in 1 .. n |-> KeptStep(s[k], S)]
           Increasing(out) == \A i, j \in 1 .. Len(out) : i < j => out[i] < out[j]
           Covers(out, k)  == \A x \in S : x <= k => \E i \in 1 .. Len(out) : out[i] = x
           Within(out, k)  == \A i \in 1 .. Len(out) : out[i] <= k
           sets  == [k \in 0 .. n |->
                      { out \in Seq(S) : Increasing(out) /\ Covers(out, k) /\ Within(out, k) }]
<1>1. /\ Len(s) = n /\ Len(steps) = n
      /\ \A k \in 1 .. n : steps[k] = KeptStep(k, S)
  OBVIOUS
<1>2. Kept(s, S) = Through(<< >>, steps)[n]
  BY <1>1 DEF Kept
<1> HIDE DEF steps
<1>3. << >> \in sets[0]
  OBVIOUS
<1>4. ASSUME NEW k \in 1 .. n, NEW out \in sets[k - 1]
      PROVE  steps[k][out] \in sets[k]
  <2>1. /\ out \in Seq(S) /\ Increasing(out) /\ Covers(out, k - 1) /\ Within(out, k - 1)
        /\ Len(out) \in Nat /\ k \in Nat
    <3>1. k - 1 \in 0 .. n
      OBVIOUS
    <3> QED BY <3>1, LenProperties
  <2>2. \A i \in 1 .. Len(out) : out[i] \in S /\ out[i] \in Nat
    BY <2>1, ElementOfSeq
  <2>3. CASE k \in S
    <3> DEFINE next == Append(out, k)
    <3>1. steps[k][out] = next
      BY <1>1, <2>1, <2>3 DEF KeptStep
    <3>2. /\ next \in Seq(S) /\ Len(next) = Len(out) + 1
          /\ \A j \in 1 .. Len(out) : next[j] = out[j]
          /\ next[Len(out) + 1] = k
      BY <2>1, <2>3, AppendProperties
    <3> HIDE DEF next
    <3>3. ASSUME NEW i \in 1 .. Len(next), NEW j \in 1 .. Len(next), i < j
          PROVE  next[i] < next[j]
      <4>1. i \in 1 .. Len(out) /\ next[i] = out[i] /\ out[i] <= k - 1 /\ out[i] \in Nat
        BY <2>1, <2>2, <3>2, <3>3
      <4>2. CASE j \in 1 .. Len(out)
        BY <2>1, <3>2, <3>3, <4>1, <4>2
      <4>3. CASE j = Len(out) + 1
        <5>1. next[j] = k
          BY <3>2, <4>3
        <5> QED BY <2>1, <4>1, <5>1
      <4> QED BY <2>1, <3>2, <4>2, <4>3
    <3>4. ASSUME NEW i \in 1 .. Len(next)
          PROVE  next[i] <= k
      <4>1. CASE i \in 1 .. Len(out)
        <5>1. next[i] = out[i] /\ out[i] <= k - 1 /\ out[i] \in Nat
          BY <2>1, <2>2, <3>2, <4>1
        <5> QED BY <2>1, <5>1
      <4>2. CASE i = Len(out) + 1
        BY <2>1, <3>2, <4>2
      <4> QED BY <2>1, <3>2, <4>1, <4>2
    <3>5. Covers(next, k)
      <4> SUFFICES ASSUME NEW x \in S, x <= k PROVE \E i \in 1 .. Len(next) : next[i] = x
        OBVIOUS
      <4>1. CASE x = k
        <5>1. Len(out) + 1 \in 1 .. Len(next)
          BY <2>1, <3>2
        <5> QED BY <3>2, <4>1, <5>1
      <4>2. CASE x # k
        <5>1. x <= k - 1
          BY <2>1, <4>2
        <5>2. PICK i \in 1 .. Len(out) : out[i] = x
          BY <2>1, <5>1
        <5>3. i \in 1 .. Len(next) /\ next[i] = x
          BY <2>1, <3>2, <5>2
        <5> QED BY <5>3
      <4> QED BY <4>1, <4>2
    <3> QED BY <3>1, <3>2, <3>3, <3>4, <3>5
  <2>4. CASE k \notin S
    <3>1. steps[k][out] = out
      BY <1>1, <2>1, <2>4 DEF KeptStep
    <3>2. Within(out, k)
      BY <2>1, <2>2
    <3>3. Covers(out, k)
      BY <2>1, <2>4
    <3> QED BY <2>1, <3>1, <3>2, <3>3
  <2> QED BY <2>3, <2>4
<1>5. \A k \in 0 .. n : Through(<< >>, steps)[k] \in sets[k]
  <2> HIDE DEF sets
  <2> QED BY <1>1, <1>3, <1>4, ThroughReaches
<1>6. n \in 0 .. n
  OBVIOUS
<1>7. Kept(s, S) \in sets[n]
  BY <1>2, <1>5, <1>6
<1> HIDE DEF s
<1>8. /\ Kept(s, S) \in Seq(S) /\ Increasing(Kept(s, S)) /\ Covers(Kept(s, S), n)
  BY <1>6, <1>7
<1>9. \A x \in S : x <= n
  OBVIOUS
<1> QED BY <1>8, <1>9 DEF s
=============================================================================
