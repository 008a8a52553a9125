--------------------------- MODULE CleanupProofs ---------------------------
(***************************************************************************)
(* Cleanup does to every qubit what the module it cleans does, never       *)
(* lengthens it, and leaves alone what it has cleaned without shortening:  *)
(* for every module without a u1q, any number of qubits and any number of  *)
(* angles in a turn.                                                       *)
(***************************************************************************)
EXTENDS Cleanup, SequenceTheorems, WellFoundedInduction, TLAPS

-----------------------------------------------------------------------------
(* Arithmetic modulo a turn.                                               *)
LEMMA Division ==
  ASSUME NEW a \in Int
  PROVE  /\ a % Turn \in 0 .. Turn - 1
         /\ \E q \in Int : a = Turn * q + (a % Turn)
<1>1. Turn \in Nat /\ Turn > 0
  BY TurnAssumption
<1>2. a % Turn \in 0 .. Turn - 1 /\ a = Turn * (a \div Turn) + (a % Turn)
  BY <1>1
<1>3. a \div Turn \in Int
  BY <1>1
<1> QED BY <1>2, <1>3

LEMMA RemainderIsUnique ==
  ASSUME NEW q \in Int, NEW r \in 0 .. Turn - 1,
         NEW s \in Int, NEW t \in 0 .. Turn - 1,
         Turn * q + r = Turn * s + t
  PROVE  r = t
<1>1. Turn \in Nat /\ Turn > 0
  BY TurnAssumption
<1>2. Turn * (q - s) = t - r
  BY <1>1
<1>3. CASE q - s >= 1
  <2>1. Turn * (q - s) >= Turn
    BY <1>1, <1>3
  <2> QED BY <1>1, <1>2, <2>1
<1>4. CASE q - s <= -1
  <2>1. Turn * (q - s) <= -Turn
    BY <1>1, <1>4
  <2> QED BY <1>1, <1>2, <2>1
<1>5. CASE q - s = 0
  BY <1>1, <1>2, <1>5
<1> QED BY <1>3, <1>4, <1>5

LEMMA RemainderOfSum ==
  ASSUME NEW a \in Int, NEW b \in Int
  PROVE  ((a % Turn) + b) % Turn = (a + b) % Turn
<1>1. Turn \in Nat /\ Turn > 0
  BY TurnAssumption
<1>2. PICK q \in Int : a = Turn * q + (a % Turn)
  BY Division
<1>3. a % Turn \in Int
  BY Division, <1>1
<1> DEFINE c == (a % Turn) + b
<1>4. c \in Int
  BY <1>3
<1>5. PICK s \in Int : c = Turn * s + (c % Turn)
  BY <1>4, Division
<1>6. PICK t \in Int : a + b = Turn * t + ((a + b) % Turn)
  BY Division
<1>7. c % Turn \in 0 .. Turn - 1 /\ (a + b) % Turn \in 0 .. Turn - 1
  BY <1>4, Division
<1>8. a + b = Turn * (q + s) + (c % Turn)
  <2>1. a + b = Turn * q + c
    BY <1>1, <1>2, <1>3
  <2>2. Turn * (q + s) = Turn * q + Turn * s
    BY <1>1
  <2>3. Turn * q \in Int /\ Turn * s \in Int /\ c % Turn \in Int
    BY <1>1, <1>7
  <2> HIDE DEF c
  <2> QED BY <1>4, <1>5, <2>1, <2>2, <2>3
<1>9. q + s \in Int
  OBVIOUS
<1> HIDE DEF c
<1>10. Turn * (q + s) + (c % Turn) = Turn * t + ((a + b) % Turn)
  BY <1>6, <1>8
<1>11. c % Turn = (a + b) % Turn
  BY <1>7, <1>9, <1>10, RemainderIsUnique
<1> QED BY <1>11 DEF c

LEMMA RemainderOfItself ==
  ASSUME NEW r \in 0 .. Turn - 1
  PROVE  r % Turn = r
<1>1. Turn \in Nat /\ Turn > 0
  BY TurnAssumption
<1>2. r \in Int
  BY <1>1
<1>3. PICK q \in Int : r = Turn * q + (r % Turn)
  BY <1>2, Division
<1>4. r % Turn \in 0 .. Turn - 1
  BY <1>2, Division
<1>5. Turn * q + (r % Turn) = Turn * 0 + r
  BY <1>1, <1>2, <1>3
<1> QED BY <1>4, <1>5, RemainderIsUnique

(* Exponents of a kind of power are added in any grouping.                 *)
LEMMA ExponentFacts ==
  ASSUME NEW kind, NEW m \in Int, NEW n \in Int
  PROVE  /\ Exponent(kind, m) \in Int
         /\ Exponent(kind, Exponent(kind, m) + n) = Exponent(kind, m + n)
         /\ Exponent(kind, Exponent(kind, m)) = Exponent(kind, m)
         /\ Exponent(kind, 0) = 0
<1>1. Turn \in Nat /\ Turn > 0
  BY TurnAssumption
<1>2. m % Turn \in 0 .. Turn - 1 /\ m % Turn \in Int
  BY <1>1, Division
<1>3. ((m % Turn) + n) % Turn = (m + n) % Turn
  BY RemainderOfSum
<1>4. (m % Turn) % Turn = m % Turn
  BY <1>2, RemainderOfItself
<1>5. 0 % Turn = 0
  BY <1>1, RemainderOfItself
<1> QED BY <1>2, <1>3, <1>4, <1>5 DEF Exponent

-----------------------------------------------------------------------------
(* Words.  A power in a word is not that of zero, and two that are side by *)
(* side are of different kinds: Times keeps a word so, and there it adds.  *)
PowerKinds == {"rz", "x/2"}

Reduced ==
  { w \in Seq(Letters) :
      /\ \A i \in 1 .. Len(w) : w[i].kind \in PowerKinds =>
           Exponent(w[i].kind, w[i].n) = w[i].n /\ w[i].n # 0
      /\ \A i \in 1 .. Len(w) - 1 : w[i].kind \in PowerKinds =>
           w[i + 1].kind # w[i].kind }

LEMMA PowersAreLetters ==
  /\ \A kind \in PowerKinds, n \in Int : [kind |-> kind, n |-> n] \in Letters
  /\ \A l \in Letters : l.kind \in PowerKinds =>
       l.n \in Int /\ l = [kind |-> l.kind, n |-> l.n]
<1>1. \A l \in OpType : l.kind # "x/2"
  BY DEF OpType, Gates, Standard, OneQ, Angled, TwoQ, NativeOneQ, NativeTwoQ,
         Fences
<1>2. ASSUME NEW l \in Letters, l.kind \in PowerKinds
      PROVE  l \in [kind : PowerKinds, n : Int]
  BY <1>1, <1>2 DEF Letters, PowerKinds
<1> QED BY <1>2 DEF Letters, PowerKinds

LEMMA EmptyIsReduced == << >> \in Reduced
  BY EmptySeq DEF Reduced

LEMMA LastAndFront ==
  ASSUME NEW w \in Seq(Letters), w # << >>
  PROVE  /\ Len(w) \in Nat /\ Len(w) > 0
         /\ Last(w) \in Letters /\ Last(w) = w[Len(w)]
         /\ Front(w) \in Seq(Letters)
         /\ Len(Front(w)) = Len(w) - 1
         /\ \A i \in 1 .. Len(w) - 1 : Front(w)[i] = w[i]
<1>1. Len(w) \in Nat /\ Len(w) > 0
  BY EmptySeq
<1>2. \A i \in 1 .. Len(w) - 1 : w[i] \in Letters
  BY <1>1, ElementOfSeq
<1> DEFINE f == SubSeq(w, 1, Len(w) - 1)
<1>3. /\ f \in Seq(Letters)
      /\ Len(f) = IF 1 <= Len(w) - 1 THEN (Len(w) - 1) - 1 + 1 ELSE 0
      /\ \A i \in 1 .. (Len(w) - 1) - 1 + 1 : f[i] = w[1 + i - 1]
  <2>1. 1 \in Int /\ Len(w) - 1 \in Int
    BY <1>1
  <2> QED BY <1>2, <2>1, SubSeqProperties
<1>4. w[Len(w)] \in Letters
  BY <1>1, ElementOfSeq
<1>5. f = Front(w) /\ Last(w) = w[Len(w)]
  BY DEF Front, Last
<1> HIDE DEF f
<1>6. Len(f) = Len(w) - 1
  <2>1. \A n \in Nat : n > 0 =>
          (IF 1 <= n - 1 THEN (n - 1) - 1 + 1 ELSE 0) = n - 1
    OBVIOUS
  <2> QED BY <1>1, <1>3, <2>1
<1>7. ASSUME NEW i \in 1 .. Len(w) - 1
      PROVE  f[i] = w[i]
  <2>1. i \in 1 .. (Len(w) - 1) - 1 + 1 /\ 1 + i - 1 = i
    BY <1>1
  <2> QED BY <1>3, <2>1
<1> QED BY <1>1, <1>3, <1>4, <1>5, <1>6, <1>7

LEMMA FrontIsReduced ==
  ASSUME NEW w \in Reduced, w # << >>
  PROVE  Front(w) \in Reduced
<1> DEFINE f == Front(w)
<1>1. /\ Len(w) \in Nat /\ Len(w) > 0 /\ f \in Seq(Letters)
      /\ Len(f) = Len(w) - 1
      /\ \A i \in 1 .. Len(w) - 1 : f[i] = w[i]
  BY LastAndFront DEF Reduced
<1> HIDE DEF f
<1>2. \A i \in 1 .. Len(f) :
        i \in 1 .. Len(w) /\ f[i] = w[i]
  BY <1>1
<1>3. \A i \in 1 .. Len(f) - 1 :
        i \in 1 .. Len(w) - 1 /\ f[i] = w[i] /\ f[i + 1] = w[i + 1]
  BY <1>1
<1>4. f \in Reduced
  BY <1>1, <1>2, <1>3 DEF Reduced
<1> QED BY <1>4 DEF f

(* A letter can follow a reduced word unless both are powers of a kind.    *)
LEMMA AppendIsReduced ==
  ASSUME NEW w \in Reduced, NEW l \in Letters,
         l.kind \in PowerKinds => Exponent(l.kind, l.n) = l.n /\ l.n # 0,
         w # << >> /\ l.kind \in PowerKinds => Last(w).kind # l.kind
  PROVE  Append(w, l) \in Reduced
<1>1. w \in Seq(Letters)
  BY DEF Reduced
<1> DEFINE v == Append(w, l)
<1>2. /\ v \in Seq(Letters) /\ Len(v) = Len(w) + 1
      /\ \A i \in 1 .. Len(w) : v[i] = w[i]
      /\ v[Len(w) + 1] = l
  BY <1>1, AppendProperties
<1>3. Len(w) \in Nat /\ (Len(w) > 0 => w # << >> /\ Last(w) = w[Len(w)])
  BY <1>1, LastAndFront, EmptySeq, LenProperties
<1> HIDE DEF v
<1>4. ASSUME NEW i \in 1 .. Len(v), v[i].kind \in PowerKinds
      PROVE  Exponent(v[i].kind, v[i].n) = v[i].n /\ v[i].n # 0
  <2>1. CASE i = Len(w) + 1
    BY <1>2, <1>4, <2>1
  <2>2. CASE i \in 1 .. Len(w)
    BY <1>2, <1>4, <2>2 DEF Reduced
  <2> QED BY <1>2, <1>3, <2>1, <2>2
<1>5. ASSUME NEW i \in 1 .. Len(v) - 1, v[i].kind \in PowerKinds
      PROVE  v[i + 1].kind # v[i].kind
  <2>1. CASE i = Len(w)
    BY <1>2, <1>3, <1>5, <2>1
  <2>2. CASE i \in 1 .. Len(w) - 1
    <3>1. v[i] = w[i] /\ v[i + 1] = w[i + 1]
      BY <1>2, <1>3, <2>2
    <3> QED BY <1>5, <2>2, <3>1 DEF Reduced
  <2> QED BY <1>2, <1>3, <2>1, <2>2
<1> QED BY <1>2, <1>4, <1>5 DEF Reduced, v

(* The two parts of Times: what is left of the word, and the exponent.     *)
Joins(w, kind) == w # << >> /\ Last(w).kind = kind

Before(w, kind) == IF Joins(w, kind) THEN Front(w) ELSE w

Ending(w, kind) == IF Joins(w, kind) THEN Last(w).n ELSE 0

LEMMA PartsOfWord ==
  ASSUME NEW w \in Reduced, NEW kind \in PowerKinds
  PROVE  /\ Before(w, kind) \in Reduced
         /\ ~Joins(Before(w, kind), kind)
         /\ Ending(w, kind) \in Int
         /\ Exponent(kind, Ending(w, kind)) = Ending(w, kind)
<1>1. w \in Seq(Letters)
  BY DEF Reduced
<1>2. CASE Joins(w, kind)
  <2>1. w # << >> /\ Last(w).kind = kind
    BY <1>2 DEF Joins
  <2>2. /\ Len(w) \in Nat /\ Len(w) > 0
        /\ Last(w) \in Letters /\ Last(w) = w[Len(w)]
        /\ Front(w) \in Seq(Letters)
        /\ Len(Front(w)) = Len(w) - 1
        /\ \A i \in 1 .. Len(w) - 1 : Front(w)[i] = w[i]
    BY <1>1, <2>1, LastAndFront
  <2>3. Front(w) \in Reduced
    BY <2>1, FrontIsReduced
  <2>4. Last(w).n \in Int /\ Exponent(kind, Last(w).n) = Last(w).n
    BY <2>1, <2>2, PowersAreLetters DEF Reduced
  <2>5. ~Joins(Front(w), kind)
    <3> SUFFICES ASSUME Front(w) # << >>, Last(Front(w)).kind = kind
                 PROVE  FALSE
      BY DEF Joins
    <3>1. Len(Front(w)) > 0 /\ Last(Front(w)) = Front(w)[Len(Front(w))]
      BY <2>2, LastAndFront
    <3>2. Len(w) - 1 \in 1 .. Len(w) - 1
      BY <2>2, <3>1
    <3>3. w[Len(w) - 1].kind = kind /\ w[Len(w) - 1 + 1].kind = kind
      BY <2>1, <2>2, <3>1, <3>2
    <3> QED BY <3>2, <3>3 DEF Reduced
  <2> QED BY <1>2, <2>3, <2>4, <2>5 DEF Before, Ending
<1>3. CASE ~Joins(w, kind)
  BY <1>3, ExponentFacts DEF Before, Ending
<1> QED BY <1>2, <1>3

LEMMA LastAndFrontOfAppend ==
  ASSUME NEW w \in Seq(Letters), NEW l \in Letters
  PROVE  /\ Append(w, l) # << >>
         /\ Last(Append(w, l)) = l
         /\ Front(Append(w, l)) = w
<1> DEFINE v == Append(w, l)
<1>1. /\ v \in Seq(Letters) /\ v # << >> /\ Len(v) = Len(w) + 1
      /\ \A i \in 1 .. Len(w) : v[i] = w[i]
      /\ v[Len(w) + 1] = l
  BY AppendProperties
<1>2. Len(w) \in Nat
  BY LenProperties
<1> HIDE DEF v
<1>3. /\ Last(v) = v[Len(v)] /\ Front(v) \in Seq(Letters)
      /\ Len(Front(v)) = Len(v) - 1
      /\ \A i \in 1 .. Len(v) - 1 : Front(v)[i] = v[i]
  BY <1>1, LastAndFront
<1>4. Len(v) - 1 = Len(w)
  BY <1>1, <1>2
<1>5. Front(v) = w
  BY <1>1, <1>3, <1>4, SeqEqual
<1> QED BY <1>1, <1>3, <1>5 DEF v

(* A word is its two parts for any kind of power.                          *)
Word(before, kind, n) ==
  IF n = 0 THEN before ELSE Append(before, [kind |-> kind, n |-> n])

LEMMA WordOfParts ==
  ASSUME NEW w \in Reduced, NEW kind \in PowerKinds
  PROVE  w = Word(Before(w, kind), kind, Ending(w, kind))
<1>1. w \in Seq(Letters)
  BY DEF Reduced
<1>2. CASE Joins(w, kind)
  <2>1. w # << >> /\ Last(w).kind = kind
    BY <1>2 DEF Joins
  <2>2. /\ Len(w) \in Nat /\ Len(w) > 0
        /\ Last(w) \in Letters /\ Last(w) = w[Len(w)]
        /\ Front(w) \in Seq(Letters)
        /\ Len(Front(w)) = Len(w) - 1
        /\ \A i \in 1 .. Len(w) - 1 : Front(w)[i] = w[i]
    BY <1>1, <2>1, LastAndFront
  <2>3. Last(w).n # 0
    BY <2>1, <2>2 DEF Reduced
  <2>4. Last(w) = [kind |-> kind, n |-> Last(w).n]
    BY <2>1, <2>2, PowersAreLetters
  <2> DEFINE v == Append(Front(w), Last(w))
  <2>5. /\ v \in Seq(Letters) /\ Len(v) = Len(Front(w)) + 1
        /\ \A i \in 1 .. Len(Front(w)) : v[i] = Front(w)[i]
        /\ v[Len(Front(w)) + 1] = Last(w)
    BY <2>2, AppendProperties
  <2> HIDE DEF v
  <2>6. Len(v) = Len(w) /\ \A i \in 1 .. Len(v) : v[i] = w[i]
    BY <2>2, <2>5
  <2>7. v = w
    BY <1>1, <2>5, <2>6, SeqEqual
  <2> QED BY <1>2, <2>3, <2>4, <2>7 DEF Before, Ending, Word, v
<1>3. CASE ~Joins(w, kind)
  BY <1>3 DEF Before, Ending, Word
<1> QED BY <1>2, <1>3

LEMMA PartsOfTimes ==
  ASSUME NEW w \in Reduced, NEW kind \in PowerKinds, NEW n \in Int
  PROVE  /\ Times(w, kind, n) =
              Word(Before(w, kind), kind, Exponent(kind, Ending(w, kind) + n))
         /\ Times(w, kind, n) \in Reduced
         /\ Before(Times(w, kind, n), kind) = Before(w, kind)
         /\ Ending(Times(w, kind, n), kind) =
              Exponent(kind, Ending(w, kind) + n)
<1> DEFINE before == Before(w, kind)
           total  == Exponent(kind, Ending(w, kind) + n)
           v      == Word(before, kind, total)
<1>1. /\ before \in Reduced /\ ~Joins(before, kind)
      /\ Ending(w, kind) \in Int /\ Ending(w, kind) + n \in Int
  BY PartsOfWord
<1>2. total \in Int /\ Exponent(kind, total) = total
  BY <1>1, ExponentFacts
<1>3. Times(w, kind, n) = v
  <2>1. 0 + n = n
    OBVIOUS
  <2>2. CASE Joins(w, kind)
    BY <2>2 DEF Times, Joins, Before, Ending, Word
  <2>3. CASE ~Joins(w, kind)
    BY <2>1, <2>3 DEF Times, Joins, Before, Ending, Word
  <2> QED BY <2>2, <2>3
<1> HIDE DEF before, total
<1>4. CASE total = 0
  <2>1. v = before
    BY <1>4 DEF Word
  <2>2. Before(before, kind) = before /\ Ending(before, kind) = 0
    BY <1>1 DEF Before, Ending
  <2> QED BY <1>1, <1>3, <1>4, <2>1, <2>2 DEF before, total
<1>5. CASE total # 0
  <2> DEFINE l == [kind |-> kind, n |-> total]
  <2>1. l \in Letters /\ l.kind = kind /\ l.n = total
    BY <1>2, PowersAreLetters
  <2>2. v = Append(before, l)
    BY <1>5 DEF Word
  <2> HIDE DEF l
  <2>3. before \in Seq(Letters)
    BY <1>1 DEF Reduced
  <2>4. v # << >> /\ Last(v) = l /\ Front(v) = before
    BY <2>1, <2>2, <2>3, LastAndFrontOfAppend
  <2>5. v \in Reduced
    <3>1. before # << >> => Last(before).kind # l.kind
      BY <1>1, <2>1 DEF Joins
    <3> QED BY <1>1, <1>2, <1>5, <2>1, <2>2, <3>1, AppendIsReduced
  <2>6. Before(v, kind) = before /\ Ending(v, kind) = total
    BY <2>1, <2>4 DEF Before, Ending, Joins
  <2> QED BY <1>3, <2>5, <2>6 DEF before, total
<1> QED BY <1>4, <1>5

(* Powers of a kind add up at the end of a word.                           *)
LEMMA TimesAdds ==
  ASSUME NEW w \in Reduced, NEW kind \in PowerKinds, NEW m \in Int, NEW n \in Int
  PROVE  Times(Times(w, kind, m), kind, n) = Times(w, kind, m + n)
<1> DEFINE v == Times(w, kind, m)
           e == Ending(w, kind)
<1>1. /\ v \in Reduced /\ Before(v, kind) = Before(w, kind)
      /\ Ending(v, kind) = Exponent(kind, e + m)
  BY PartsOfTimes
<1>2. e \in Int /\ m + n \in Int /\ e + m \in Int
  BY PartsOfWord
<1> HIDE DEF v, e
<1>3. Times(v, kind, n) =
        Word(Before(w, kind), kind, Exponent(kind, Exponent(kind, e + m) + n))
  BY <1>1, PartsOfTimes
<1>4. Times(w, kind, m + n) =
        Word(Before(w, kind), kind, Exponent(kind, e + (m + n)))
  BY <1>2, PartsOfTimes DEF e
<1>5. Exponent(kind, Exponent(kind, e + m) + n) = Exponent(kind, (e + m) + n)
  BY <1>2, ExponentFacts
<1>6. (e + m) + n = e + (m + n)
  BY <1>2
<1> QED BY <1>3, <1>4, <1>5, <1>6 DEF v

LEMMA TimesNothing ==
  ASSUME NEW w \in Reduced, NEW kind \in PowerKinds, NEW n \in Int,
         Exponent(kind, n) = 0
  PROVE  Times(w, kind, n) = w
<1> DEFINE e == Ending(w, kind)
<1>1. e \in Int /\ Exponent(kind, e) = e
  BY PartsOfWord
<1>2. Exponent(kind, Exponent(kind, n) + e) = Exponent(kind, n + e)
  BY <1>1, ExponentFacts
<1>3. 0 + e = e /\ n + e = e + n
  BY <1>1
<1>4. Exponent(kind, e + n) = e
  BY <1>1, <1>2, <1>3
<1> QED BY <1>4, WordOfParts, PartsOfTimes

LEMMA TimesOfEqual ==
  ASSUME NEW w \in Reduced, NEW kind \in PowerKinds, NEW m \in Int, NEW n \in Int,
         Exponent(kind, m) = Exponent(kind, n)
  PROVE  Times(w, kind, m) = Times(w, kind, n)
<1> DEFINE e == Ending(w, kind)
<1>1. e \in Int
  BY PartsOfWord
<1>2. /\ Exponent(kind, Exponent(kind, m) + e) = Exponent(kind, m + e)
      /\ Exponent(kind, Exponent(kind, n) + e) = Exponent(kind, n + e)
  BY <1>1, ExponentFacts
<1>3. m + e = e + m /\ n + e = e + n
  BY <1>1
<1>4. Exponent(kind, e + m) = Exponent(kind, e + n)
  BY <1>2, <1>3
<1> QED BY <1>4, PartsOfTimes

-----------------------------------------------------------------------------
(* The effect of a sequence of ops.                                        *)
LEMMA AppliedIsReduced ==
  ASSUME NEW w \in Reduced, NEW op \in OpType
  PROVE  Applied(w, op) \in Reduced
<1>1. 1 \in Int /\ -1 \in Int /\ op.n \in Int
  BY DEF OpType
<1>2. CASE op.kind = "rz"
  BY <1>1, <1>2, PartsOfTimes DEF Applied, PowerKinds
<1>3. CASE op.kind = "sx"
  BY <1>1, <1>3, PartsOfTimes DEF Applied, PowerKinds
<1>4. CASE op.kind = "sxdg"
  BY <1>1, <1>4, PartsOfTimes DEF Applied, PowerKinds
<1>5. CASE op.kind \notin {"rz", "sx", "sxdg"}
  <2>1. op \in Letters
    BY <1>5 DEF Letters
  <2>2. op.kind \notin PowerKinds
    BY <1>5 DEF PowerKinds, OpType, Gates, Standard, OneQ, Angled, TwoQ,
               NativeOneQ, NativeTwoQ, Fences
  <2>3. Append(w, op) \in Reduced
    BY <2>1, <2>2, AppendIsReduced
  <2>4. Applied(w, op) = Append(w, op)
    BY <1>5 DEF Applied
  <2> QED BY <2>3, <2>4
<1> QED BY <1>2, <1>3, <1>4, <1>5

(* What an op does to the word of p.                                       *)
NextWord(w, p, op) == IF p \in Touched(op) THEN Applied(w, op) ELSE w

LEMMA StepOfWord ==
  ASSUME NEW w \in Reduced, NEW p, NEW op \in OpType
  PROVE  WordStep(p, op)[w] = NextWord(w, p, op) /\ NextWord(w, p, op) \in Reduced
<1>1. w \in Seq(Letters)
  BY DEF Reduced
<1> QED BY <1>1, AppliedIsReduced DEF WordStep, NextWord

(* The word of p after the first k ops, for every k.                       *)
WordSteps(ops, p) == [k \in 1 .. Len(ops) |-> WordStep(p, ops[k])]

Words(ops, p) == Through(<< >>, WordSteps(ops, p))

LEMMA StepsOfWords ==
  ASSUME NEW ops \in Seq(OpType), NEW p
  PROVE  /\ Effect(ops, p) = Words(ops, p)[Len(ops)]
         /\ Words(ops, p)[0] = << >>
         /\ \A k \in 1 .. Len(ops) :
              Words(ops, p)[k] = WordStep(p, ops[k])[Words(ops, p)[k - 1]]
<1> DEFINE steps == WordSteps(ops, p)
<1>1. Len(ops) \in Nat
  BY LenProperties
<1>2. /\ Len(steps) = Len(ops)
      /\ \A k \in 1 .. Len(ops) : steps[k] = WordStep(p, ops[k])
  BY <1>1 DEF WordSteps
<1>3. Effect(ops, p) = Words(ops, p)[Len(ops)]
  BY DEF Effect, Words, WordSteps
<1> HIDE DEF steps
<1>4. /\ Through(<< >>, steps)[0] = << >>
      /\ \A k \in 1 .. Len(ops) :
           Through(<< >>, steps)[k] = steps[k][Through(<< >>, steps)[k - 1]]
  BY <1>1, <1>2, ThroughSteps
<1> QED BY <1>2, <1>3, <1>4 DEF Words, steps

LEMMA WordsAreReduced ==
  ASSUME NEW ops \in Seq(OpType), NEW p
  PROVE  \A k \in 0 .. Len(ops) : Words(ops, p)[k] \in Reduced
<1> DEFINE words == Words(ops, p)
           bad   == { k \in 0 .. Len(ops) : words[k] \notin Reduced }
<1> SUFFICES ASSUME bad # {} PROVE FALSE
  OBVIOUS
<1>1. Len(ops) \in Nat /\ bad \in SUBSET Nat
  BY LenProperties
<1>2. PICK m \in bad : \A j \in bad : m <= j
  BY <1>1, NatSetHasLowest
<1>3. m # 0
  BY StepsOfWords, EmptyIsReduced
<1>4. m \in 1 .. Len(ops) /\ m - 1 \in 0 .. Len(ops) /\ ~(m <= m - 1)
  BY <1>1, <1>3
<1>5. words[m - 1] \in Reduced
  BY <1>2, <1>4
<1>6. ops[m] \in OpType
  BY <1>4, ElementOfSeq
<1>7. words[m] = WordStep(p, ops[m])[words[m - 1]]
  BY <1>4, StepsOfWords
<1> QED BY <1>5, <1>6, <1>7, StepOfWord

LEMMA EffectFacts ==
  ASSUME NEW ops \in Seq(OpType), NEW op \in OpType, NEW p
  PROVE  /\ Effect(ops, p) \in Reduced
         /\ Effect(<< >>, p) = << >>
         /\ Append(ops, op) \in Seq(OpType)
         /\ Effect(Append(ops, op), p) = NextWord(Effect(ops, p), p, op)
<1> DEFINE n     == Len(ops)
           more  == Append(ops, op)
           words == Words(ops, p)
           after == Words(more, p)
<1>1. /\ n \in Nat /\ more \in Seq(OpType) /\ Len(more) = n + 1
      /\ \A i \in 1 .. n : more[i] = ops[i]
      /\ more[n + 1] = op
  BY LenProperties, AppendProperties
<1> HIDE DEF more
<1>2. words[0] = << >> /\ after[0] = << >>
  BY <1>1, StepsOfWords
<1>3. \A k \in 1 .. n : words[k] = WordStep(p, ops[k])[words[k - 1]]
  BY StepsOfWords
<1>4. \A k \in 1 .. n + 1 : after[k] = WordStep(p, more[k])[after[k - 1]]
  BY <1>1, StepsOfWords
<1>5. \A k \in 0 .. n : words[k] \in Reduced
  BY WordsAreReduced
<1> HIDE DEF words, after
<1>6. \A k \in 0 .. n : after[k] = words[k]
  <2> DEFINE bad == { k \in 0 .. n : after[k] # words[k] }
  <2> SUFFICES ASSUME bad # {} PROVE FALSE
    OBVIOUS
  <2>1. bad \in SUBSET Nat
    BY <1>1
  <2>2. PICK m \in bad : \A j \in bad : m <= j
    BY <2>1, NatSetHasLowest
  <2>3. m \in 0 .. n /\ after[m] # words[m]
    OBVIOUS
  <2>4. /\ m \in 1 .. n /\ m \in 1 .. n + 1 /\ m - 1 \in 0 .. n
        /\ ~(m <= m - 1)
    BY <1>1, <1>2, <2>3
  <2>5. after[m - 1] = words[m - 1]
    BY <2>2, <2>4
  <2>6. more[m] = ops[m]
    BY <1>1, <2>4
  <2> QED BY <1>3, <1>4, <2>3, <2>4, <2>5, <2>6
<1>7. Effect(ops, p) = words[n] /\ Effect(ops, p) \in Reduced
  BY <1>1, <1>5, StepsOfWords DEF words
<1>8. Effect(more, p) = after[n + 1]
  BY <1>1, StepsOfWords DEF after
<1>9. after[n + 1] = WordStep(p, op)[words[n]]
  <2>1. n + 1 \in 1 .. n + 1 /\ (n + 1) - 1 = n /\ n \in 0 .. n
    BY <1>1
  <2> QED BY <1>1, <1>4, <1>6, <2>1
<1>10. Effect(<< >>, p) = << >>
  <2>1. << >> \in Seq(OpType) /\ Len(<< >>) = 0
    BY EmptySeq
  <2>2. /\ Effect(<< >>, p) = Words(<< >>, p)[Len(<< >>)]
        /\ Words(<< >>, p)[0] = << >>
    BY <2>1, StepsOfWords
  <2> QED BY <2>1, <2>2
<1> QED BY <1>1, <1>7, <1>8, <1>9, <1>10, StepOfWord DEF more

(* A run of sx or sxdg on q multiplies the word of q, and no other.        *)
RunOp(n, q) == [kind |-> IF n > 0 THEN "sx" ELSE "sxdg", qs |-> <<q>>, n |-> 0]

Sign(n) == IF n > 0 THEN 1 ELSE -1

LEMMA EffectOfRunOp ==
  ASSUME NEW w \in Reduced, NEW q \in Qubits, NEW p \in Qubits, NEW n \in Int
  PROVE  /\ RunOp(n, q) \in OpType
         /\ NextWord(w, p, RunOp(n, q)) =
              IF p = q THEN Times(w, "x/2", Sign(n)) ELSE w
<1> DEFINE op == RunOp(n, q)
<1>1. op.kind \in {"sx", "sxdg"} /\ op.qs = <<q>> /\ op.n = 0
  BY DEF RunOp
<1>2. op \in OpType
  <2>1. <<q>> \in Seq(Qubits)
    OBVIOUS
  <2> QED BY <2>1 DEF RunOp, OpType, Gates, NativeOneQ
<1>3. Touched(op) = {q}
  <2>1. Len(op.qs) = 1 /\ op.qs[1] = q
    BY <1>1
  <2> HIDE DEF op
  <2> QED BY <2>1 DEF Touched
<1>4. Applied(w, op) = Times(w, "x/2", Sign(n))
  BY DEF Applied, RunOp, Sign
<1> QED BY <1>2, <1>3, <1>4 DEF NextWord

Copies(op, n) == [k \in 1 .. n |-> op]

LEMMA CopiesExtend ==
  ASSUME NEW S, NEW ops \in Seq(S), NEW op \in S, NEW n \in Nat
  PROVE  ops \o Copies(op, n) \in Seq(S)
<1>1. Copies(op, n) \in Seq(S)
  <2>1. Copies(op, n) \in [1 .. n -> S]
    BY DEF Copies
  <2> QED BY <2>1
<1> QED BY <1>1, ConcatProperties

LEMMA CopiesOfOp ==
  ASSUME NEW ops \in Seq(OpType), NEW op \in OpType, NEW n \in Nat
  PROVE  /\ ops \o Copies(op, n) \in Seq(OpType)
         /\ ops \o Copies(op, 0) = ops
         /\ ops \o Copies(op, n + 1) = Append(ops \o Copies(op, n), op)
<1>1. \A m \in Nat : Copies(op, m) \in Seq(OpType) /\ Len(Copies(op, m)) = m
  <2> TAKE m \in Nat
  <2>1. Copies(op, m) \in [1 .. m -> OpType]
    BY DEF Copies
  <2> QED BY <2>1
<1>2. Len(ops) \in Nat /\ n + 1 \in Nat
  BY LenProperties
<1> DEFINE c == Copies(op, n)
           d == Copies(op, n + 1)
           s == ops \o c
           t == ops \o d
           u == Append(s, op)
<1>a. /\ c \in Seq(OpType) /\ Len(c) = n /\ \A i \in 1 .. n : c[i] = op
      /\ d \in Seq(OpType) /\ Len(d) = n + 1 /\ \A i \in 1 .. n + 1 : d[i] = op
  BY <1>1, <1>2 DEF Copies
<1> HIDE DEF c, d
<1>3. /\ s \in Seq(OpType) /\ Len(s) = Len(ops) + n
      /\ \A i \in 1 .. Len(ops) + n :
           s[i] = IF i <= Len(ops) THEN ops[i] ELSE c[i - Len(ops)]
  <2>1. /\ s \in Seq(OpType) /\ Len(s) = Len(ops) + Len(c)
        /\ \A i \in 1 .. Len(ops) + Len(c) :
             s[i] = IF i <= Len(ops) THEN ops[i] ELSE c[i - Len(ops)]
    BY <1>a, ConcatProperties
  <2> HIDE DEF s
  <2> QED BY <1>a, <2>1
<1>4. /\ t \in Seq(OpType) /\ Len(t) = Len(ops) + (n + 1)
      /\ \A i \in 1 .. Len(ops) + (n + 1) :
           t[i] = IF i <= Len(ops) THEN ops[i] ELSE d[i - Len(ops)]
  <2>1. /\ t \in Seq(OpType) /\ Len(t) = Len(ops) + Len(d)
        /\ \A i \in 1 .. Len(ops) + Len(d) :
             t[i] = IF i <= Len(ops) THEN ops[i] ELSE d[i - Len(ops)]
    BY <1>a, ConcatProperties
  <2> HIDE DEF t
  <2> QED BY <1>a, <2>1
<1> HIDE DEF s, t
<1>5. /\ u \in Seq(OpType) /\ Len(u) = Len(s) + 1
      /\ \A i \in 1 .. Len(s) : u[i] = s[i]
      /\ u[Len(s) + 1] = op
  BY <1>3, AppendProperties
<1> HIDE DEF u
<1>7. ASSUME NEW i \in 1 .. Len(t)
      PROVE  t[i] = u[i]
  <2>1. CASE i <= Len(ops)
    <3>1. i \in 1 .. Len(s) /\ i \in 1 .. Len(ops) + n
      BY <1>2, <1>3, <2>1
    <3> QED BY <1>3, <1>4, <1>5, <2>1, <3>1
  <2>2. CASE i > Len(ops)
    <3>1. i - Len(ops) \in 1 .. n + 1 /\ ~(i <= Len(ops))
      BY <1>2, <1>4, <2>2
    <3>2. t[i] = op
      BY <1>2, <1>4, <1>a, <3>1
    <3>3. CASE i = Len(s) + 1
      BY <1>5, <3>2, <3>3
    <3>4. CASE i # Len(s) + 1
      <4>1. /\ i \in 1 .. Len(s) /\ i \in 1 .. Len(ops) + n
            /\ i - Len(ops) \in 1 .. n
        BY <1>2, <1>3, <1>4, <2>2, <3>4
      <4> QED BY <1>3, <1>5, <1>a, <3>1, <3>2, <4>1
    <3> QED BY <3>3, <3>4
  <2> QED BY <1>2, <1>4, <2>1, <2>2
<1>8. Len(t) = Len(u)
  BY <1>2, <1>3, <1>4, <1>5
<1>9. t = u
  BY <1>4, <1>5, <1>7, <1>8, SeqEqual
<1>10. ops \o Copies(op, 0) = ops
  <2>1. Copies(op, 0) \in Seq(OpType) /\ Len(Copies(op, 0)) = 0
    BY <1>1
  <2>2. Copies(op, 0) = << >>
    BY <2>1, EmptySeq
  <2> QED BY <2>2, ConcatEmptySeq
<1> QED BY <1>1, <1>3, <1>9, <1>10 DEF c, d, s, t, u

LEMMA EffectOfCopies ==
  ASSUME NEW ops \in Seq(OpType), NEW q \in Qubits, NEW p \in Qubits,
         NEW n \in Int, NEW m \in Nat
  PROVE  Effect(ops \o Copies(RunOp(n, q), m), p) =
           IF p = q THEN Times(Effect(ops, p), "x/2", m * Sign(n))
           ELSE Effect(ops, p)
<1> DEFINE op     == RunOp(n, q)
           w      == Effect(ops, p)
           Sent(k) == Effect(ops \o Copies(op, k), p)
           Due(k) == IF p = q THEN Times(w, "x/2", k * Sign(n)) ELSE w
           bad    == { k \in Nat : Sent(k) # Due(k) }
<1> SUFFICES ASSUME bad # {} PROVE FALSE
  OBVIOUS
<1>1. w \in Reduced /\ op \in OpType
  <2>1. op \in OpType
    BY EmptyIsReduced, EffectOfRunOp
  <2> QED BY <2>1, EffectFacts
<1>2. Sign(n) \in Int /\ "x/2" \in PowerKinds
  BY DEF Sign, PowerKinds
<1>3. Sent(0) = Due(0)
  <2>1. Sent(0) = w
    BY <1>1, CopiesOfOp
  <2>2. 0 * Sign(n) = 0 /\ Exponent("x/2", 0) = 0
    BY <1>2 DEF Exponent
  <2>3. Times(w, "x/2", 0) = w
    BY <1>1, <1>2, <2>2, TimesNothing
  <2> QED BY <2>1, <2>2, <2>3
<1>4. PICK k \in bad : \A j \in bad : k <= j
  BY NatSetHasLowest
<1>5. k \in Nat /\ Sent(k) # Due(k)
  OBVIOUS
<1>6. k # 0
  BY <1>3, <1>5
<1>7. k - 1 \in Nat /\ ~(k <= k - 1) /\ (k - 1) + 1 = k
  BY <1>5, <1>6
<1>8. Sent(k - 1) = Due(k - 1)
  BY <1>4, <1>7
<1> DEFINE before == ops \o Copies(op, k - 1)
<1>9. before \in Seq(OpType) /\ ops \o Copies(op, k) = Append(before, op)
  <2>1. /\ before \in Seq(OpType)
        /\ ops \o Copies(op, (k - 1) + 1) = Append(before, op)
    BY <1>1, <1>7, CopiesOfOp
  <2> QED BY <1>7, <2>1
<1>10. Effect(before, p) \in Reduced
       /\ Effect(Append(before, op), p) = NextWord(Effect(before, p), p, op)
  <2> HIDE DEF before, op
  <2> QED BY <1>1, <1>9, EffectFacts
<1>11. Sent(k) = IF p = q THEN Times(Sent(k - 1), "x/2", Sign(n)) ELSE Sent(k - 1)
  BY <1>9, <1>10, EffectOfRunOp
<1> HIDE DEF Sent
<1>12. CASE p = q
  <2>1. (k - 1) * Sign(n) \in Int /\ (k - 1) * Sign(n) + Sign(n) = k * Sign(n)
    BY <1>2, <1>5
  <2> HIDE DEF w
  <2>2. Times(Times(w, "x/2", (k - 1) * Sign(n)), "x/2", Sign(n)) =
          Times(w, "x/2", k * Sign(n))
    BY <1>1, <1>2, <2>1, TimesAdds
  <2> QED BY <1>5, <1>8, <1>11, <1>12, <2>2
<1>13. CASE p # q
  BY <1>5, <1>8, <1>11, <1>13
<1> QED BY <1>12, <1>13

(* The ops whose angle the pass can read, each rotation on a qubit, roots  *)
(* of X without an angle.  A u1q by no angle is one: what the pass loses   *)
(* of the others is an angle.                                              *)
PlainOps ==
  { op \in OpType :
      /\ op.kind \in {"rz", "sx", "sxdg"} => Len(op.qs) = 1
      /\ op.kind \in {"sx", "sxdg"} => op.n = 0
      /\ AngleAttribute(op) = op.n }

LEMMA EffectOfRun ==
  ASSUME NEW ops \in Seq(PlainOps), NEW q \in Qubits, NEW n \in Int
  PROVE  /\ ops \o Pi2Run(n, q) \in Seq(PlainOps)
         /\ \A p \in Qubits : Effect(ops \o Pi2Run(n, q), p) =
              IF p = q THEN Times(Effect(ops, p), "x/2", n) ELSE Effect(ops, p)
<1> DEFINE m == IF n < 0 THEN -n ELSE n
<1>1. m \in Nat /\ m * Sign(n) = n
  BY DEF Sign
<1>2. Pi2Run(n, q) = Copies(RunOp(n, q), m)
  BY DEF Pi2Run, Copies, RunOp
<1>3. RunOp(n, q) \in PlainOps
  <2>1. RunOp(n, q) \in OpType
    BY EmptyIsReduced, EffectOfRunOp
  <2>2. Len(RunOp(n, q).qs) = 1 /\ RunOp(n, q).n = 0
    BY DEF RunOp
  <2>3. AngleAttribute(RunOp(n, q)) = RunOp(n, q).n
    BY DEF RunOp, AngleAttribute
  <2> QED BY <2>1, <2>2, <2>3 DEF PlainOps
<1> HIDE DEF m
<1>4. ops \o Pi2Run(n, q) \in Seq(PlainOps)
  BY <1>1, <1>2, <1>3, CopiesExtend
<1>5. ops \in Seq(OpType)
  BY SeqMonotonic DEF PlainOps
<1>6. ASSUME NEW p \in Qubits
      PROVE  Effect(ops \o Pi2Run(n, q), p) =
               IF p = q THEN Times(Effect(ops, p), "x/2", n) ELSE Effect(ops, p)
  <2>1. Effect(ops \o Copies(RunOp(n, q), m), p) =
          IF p = q THEN Times(Effect(ops, p), "x/2", m * Sign(n))
          ELSE Effect(ops, p)
    BY <1>1, <1>5, EffectOfCopies
  <2> QED BY <1>1, <1>2, <2>1
<1> QED BY <1>4, <1>6

-----------------------------------------------------------------------------
(* What the walk has yet to emit.  On every qubit either a rotation or a   *)
(* run of sx is held back, never both, and the emitted ops followed by it  *)
(* are Pending.                                                            *)
Exclusive(s) == \A p \in Qubits : s.pi2[p] = 0 \/ s.rz[p] = 0

Pending(s, p) ==
  Times(Times(Effect(s.out, p), "x/2", s.pi2[p]), "rz", s.rz[p])

Sound(s) == s \in WalkStates /\ s.out \in Seq(PlainOps) /\ Exclusive(s)

LEMMA PendingFacts ==
  ASSUME NEW s, Sound(s), NEW p \in Qubits
  PROVE  /\ s.out \in Seq(OpType) /\ s.pi2[p] \in Int /\ s.rz[p] \in Int
         /\ Effect(s.out, p) \in Reduced
         /\ Times(Effect(s.out, p), "x/2", s.pi2[p]) \in Reduced
         /\ Pending(s, p) \in Reduced
         /\ s.rz[p] = 0 =>
              Pending(s, p) = Times(Effect(s.out, p), "x/2", s.pi2[p])
         /\ s.pi2[p] = 0 =>
              Pending(s, p) = Times(Effect(s.out, p), "rz", s.rz[p])
         /\ s.rz[p] = 0 /\ s.pi2[p] = 0 => Pending(s, p) = Effect(s.out, p)
<1> DEFINE w == Effect(s.out, p)
<1>1. s.out \in Seq(OpType) /\ s.pi2[p] \in Int /\ s.rz[p] \in Int
  BY DEF Sound, WalkStates
<1>2. "rz" \in PowerKinds /\ "x/2" \in PowerKinds
  BY DEF PowerKinds
<1>3. \A k \in PowerKinds : Exponent(k, 0) = 0
  BY ExponentFacts
<1>4. w \in Reduced
  <2>1. \E op : op \in OpType
    BY EmptyIsReduced, EffectOfRunOp
  <2> QED BY <1>1, <2>1, EffectFacts
<1> HIDE DEF w
<1>5. Times(w, "x/2", s.pi2[p]) \in Reduced
  BY <1>1, <1>2, <1>4, PartsOfTimes
<1>6. Times(Times(w, "x/2", s.pi2[p]), "rz", s.rz[p]) \in Reduced
  BY <1>1, <1>2, <1>5, PartsOfTimes
<1>7. Times(Times(w, "x/2", s.pi2[p]), "rz", 0) = Times(w, "x/2", s.pi2[p])
  BY <1>2, <1>3, <1>5, TimesNothing
<1>8. Times(w, "x/2", 0) = w
  BY <1>2, <1>3, <1>4, TimesNothing
<1> QED BY <1>1, <1>4, <1>5, <1>6, <1>7, <1>8 DEF Pending, w

LEMMA StateIsTyped ==
  ASSUME NEW rz \in [Qubits -> Int], NEW pi2 \in [Qubits -> Int],
         NEW out \in Seq(PlainOps)
  PROVE  State(rz, pi2, out) \in WalkStates
<1>1. out \in Seq(OpType)
  BY SeqMonotonic DEF PlainOps
<1> QED BY <1>1 DEF State, WalkStates

LEMMA FlushPi2Keeps ==
  ASSUME NEW s, Sound(s), NEW q \in Qubits
  PROVE  LET t == FlushPi2(s, q)
         IN  /\ Sound(t)
             /\ \A p \in Qubits : Pending(t, p) = Pending(s, p)
             /\ t.rz = s.rz
             /\ t.pi2 = [s.pi2 EXCEPT ![q] = 0]
<1> DEFINE t == FlushPi2(s, q)
<1>1. /\ s.out \in Seq(PlainOps)
      /\ s.pi2 \in [Qubits -> Int] /\ s.rz \in [Qubits -> Int]
  BY DEF Sound, WalkStates
<1>2. /\ t.out = s.out \o Pi2Run(s.pi2[q], q) /\ t.rz = s.rz
      /\ t.pi2 = [s.pi2 EXCEPT ![q] = 0]
      /\ t = State(t.rz, t.pi2, t.out)
  BY DEF FlushPi2, State
<1> HIDE DEF t
<1>3. s.pi2[q] \in Int
  BY <1>1
<1>4. /\ t.out \in Seq(PlainOps)
      /\ \A p \in Qubits : Effect(t.out, p) =
           IF p = q THEN Times(Effect(s.out, p), "x/2", s.pi2[q])
           ELSE Effect(s.out, p)
  <2> DEFINE ops == s.out
             n   == s.pi2[q]
  <2>1. ops \in Seq(PlainOps) /\ n \in Int
    BY <1>1, <1>3
  <2>2. t.out = ops \o Pi2Run(n, q)
    BY <1>2
  <2> HIDE DEF ops, n
  <2>3. /\ ops \o Pi2Run(n, q) \in Seq(PlainOps)
        /\ \A p \in Qubits : Effect(ops \o Pi2Run(n, q), p) =
             IF p = q THEN Times(Effect(ops, p), "x/2", n) ELSE Effect(ops, p)
    BY <2>1, EffectOfRun
  <2> QED BY <2>2, <2>3 DEF ops, n
<1>5. Sound(t)
  <2>1. t \in WalkStates
    <3>1. t.rz \in [Qubits -> Int] /\ t.pi2 \in [Qubits -> Int]
      BY <1>1, <1>2
    <3>2. State(t.rz, t.pi2, t.out) \in WalkStates
      BY <1>4, <3>1, StateIsTyped
    <3> QED BY <1>2, <3>2
  <2>2. Exclusive(t)
    BY <1>1, <1>2 DEF Exclusive, Sound
  <2> QED BY <1>4, <2>1, <2>2 DEF Sound
<1>6. ASSUME NEW p \in Qubits
      PROVE  Pending(t, p) = Pending(s, p)
  <2>1. CASE p = q
    <3>1. t.pi2[p] = 0
      BY <1>1, <1>2, <2>1
    <3>2. Pending(t, p) = Times(Effect(t.out, p), "rz", t.rz[p])
      BY <1>5, <3>1, PendingFacts
    <3> QED BY <1>2, <1>4, <2>1, <3>2 DEF Pending
  <2>2. CASE p # q
    BY <1>1, <1>2, <1>4, <2>2 DEF Pending
  <2> QED BY <2>1, <2>2
<1> QED BY <1>2, <1>5, <1>6 DEF t

LEMMA NormalizedFacts ==
  ASSUME NEW a \in Int
  PROVE  /\ Normalized(a) \in Int
         /\ Exponent("rz", Normalized(a)) = Exponent("rz", a)
         /\ Normalized(a) = 0 => Exponent("rz", a) = 0
         /\ a = 0 => Normalized(a) = 0
<1> DEFINE r == a % Turn
<1>1. Turn \in Nat /\ Turn > 0
  BY TurnAssumption
<1>2. r \in 0 .. Turn - 1 /\ r \in Int
  BY <1>1, Division
<1>3. r % Turn = r
  BY <1>2, RemainderOfItself
<1>4. (-Turn) % Turn = 0
  <2>1. -Turn \in Int /\ 0 \in 0 .. Turn - 1 /\ -1 \in Int
    BY <1>1
  <2>2. PICK q \in Int : -Turn = Turn * q + ((-Turn) % Turn)
    BY <2>1, Division
  <2>3. (-Turn) % Turn \in 0 .. Turn - 1
    BY <2>1, Division
  <2>4. Turn * q + ((-Turn) % Turn) = Turn * (-1) + 0
    BY <1>1, <2>2
  <2> QED BY <2>1, <2>3, <2>4, RemainderIsUnique
<1>5. (r - Turn) % Turn = r
  <2>1. (((-Turn) % Turn) + r) % Turn = (-Turn + r) % Turn
    BY <1>1, <1>2, RemainderOfSum
  <2>2. 0 + r = r /\ -Turn + r = r - Turn
    BY <1>1, <1>2
  <2> QED BY <1>3, <1>4, <2>1, <2>2
<1>6. Normalized(a) = IF 2 * r > Turn THEN r - Turn ELSE r
  BY DEF Normalized
<1>7. a = 0 => r = 0
  BY <1>1, RemainderOfItself
<1>8. Normalized(a) = 0 => r = 0
  <2> HIDE DEF r
  <2> QED BY <1>1, <1>2, <1>6
<1>9. Normalized(a) \in Int /\ Normalized(a) % Turn = r
  <2> HIDE DEF r
  <2> QED BY <1>1, <1>2, <1>3, <1>5, <1>6
<1>10. a = 0 => Normalized(a) = 0
  <2> HIDE DEF r
  <2> QED BY <1>1, <1>6, <1>7
<1> QED BY <1>8, <1>9, <1>10 DEF Exponent

LEMMA EffectOfRz ==
  ASSUME NEW ops \in Seq(PlainOps), NEW a \in Int, NEW q \in Qubits
  PROVE  /\ Append(ops, Rz(a, q)) \in Seq(PlainOps)
         /\ \A p \in Qubits : Effect(Append(ops, Rz(a, q)), p) =
              IF p = q THEN Times(Effect(ops, p), "rz", a) ELSE Effect(ops, p)
<1> DEFINE op == Rz(a, q)
<1>1. op.kind = "rz" /\ op.qs = <<q>> /\ op.n = a
  BY DEF Rz
<1>2. op \in PlainOps
  <2>1. <<q>> \in Seq(Qubits) /\ Len(<<q>>) = 1
    OBVIOUS
  <2>2. op \in OpType
    BY <2>1 DEF Rz, OpType, Gates, Standard, OneQ, Angled
  <2>3. AngleAttribute(op) = op.n
    BY <1>1 DEF AngleAttribute
  <2> HIDE DEF op
  <2> QED BY <1>1, <2>1, <2>2, <2>3 DEF PlainOps
<1> HIDE DEF op
<1>3. Touched(op) = {q}
  <2>1. Len(op.qs) = 1 /\ op.qs[1] = q
    BY <1>1
  <2> QED BY <2>1 DEF Touched
<1>4. \A w : Applied(w, op) = Times(w, "rz", a)
  BY <1>1 DEF Applied
<1>5. /\ Append(ops, op) \in Seq(PlainOps)
      /\ \A p \in Qubits :
           Effect(Append(ops, op), p) = NextWord(Effect(ops, p), p, op)
  <2>1. ops \in Seq(OpType) /\ op \in OpType
    BY <1>2, SeqMonotonic DEF PlainOps
  <2> QED BY <1>2, <2>1, EffectFacts, AppendProperties
<1>6. \A p \in Qubits : Effect(Append(ops, op), p) =
        IF p = q THEN Times(Effect(ops, p), "rz", a) ELSE Effect(ops, p)
  BY <1>3, <1>4, <1>5 DEF NextWord
<1> QED BY <1>5, <1>6 DEF op

LEMMA FlushRzKeeps ==
  ASSUME NEW s, Sound(s), NEW q \in Qubits
  PROVE  LET t == FlushRz(s, q)
         IN  /\ Sound(t)
             /\ \A p \in Qubits : Pending(t, p) = Pending(s, p)
             /\ t.rz = [s.rz EXCEPT ![q] = 0]
             /\ t.pi2 = s.pi2
<1> DEFINE t == FlushRz(s, q)
           a == Normalized(s.rz[q])
<1>1. /\ s.out \in Seq(PlainOps)
      /\ s.pi2 \in [Qubits -> Int] /\ s.rz \in [Qubits -> Int]
  BY DEF Sound, WalkStates
<1>2. /\ t.out = IF a = 0 THEN s.out ELSE Append(s.out, Rz(a, q))
      /\ t.rz = [s.rz EXCEPT ![q] = 0]
      /\ t.pi2 = s.pi2
      /\ t = State(t.rz, t.pi2, t.out)
  BY DEF FlushRz, State
<1> HIDE DEF t
<1>3. /\ s.rz[q] \in Int /\ a \in Int
      /\ Exponent("rz", a) = Exponent("rz", s.rz[q])
      /\ a = 0 => Exponent("rz", s.rz[q]) = 0
      /\ s.rz[q] = 0 => a = 0
  BY <1>1, NormalizedFacts
<1> HIDE DEF a
<1>4. "rz" \in PowerKinds
  BY DEF PowerKinds
<1>5. /\ t.out \in Seq(PlainOps)
      /\ \A p \in Qubits : Effect(t.out, p) =
           IF p = q /\ a # 0 THEN Times(Effect(s.out, p), "rz", a)
           ELSE Effect(s.out, p)
  BY <1>1, <1>2, <1>3, EffectOfRz
<1>6. Sound(t)
  <2>1. t \in WalkStates
    <3>1. t.rz \in [Qubits -> Int] /\ t.pi2 \in [Qubits -> Int]
      BY <1>1, <1>2
    <3>2. State(t.rz, t.pi2, t.out) \in WalkStates
      BY <1>5, <3>1, StateIsTyped
    <3> QED BY <1>2, <3>2
  <2>2. Exclusive(t)
    BY <1>1, <1>2 DEF Exclusive, Sound
  <2> QED BY <1>5, <2>1, <2>2 DEF Sound
<1>7. ASSUME NEW p \in Qubits
      PROVE  Pending(t, p) = Pending(s, p)
  <2>1. CASE p # q \/ s.rz[q] = 0
    BY <1>1, <1>2, <1>3, <1>5, <2>1 DEF Pending
  <2>2. CASE p = q /\ s.rz[q] # 0
    <3>1. s.pi2[p] = 0 /\ t.pi2[p] = 0 /\ t.rz[p] = 0
      BY <1>1, <1>2, <2>2 DEF Sound, Exclusive
    <3>2. Pending(t, p) = Effect(t.out, p)
      BY <1>6, <3>1, PendingFacts
    <3>3. Pending(s, p) = Times(Effect(s.out, p), "rz", s.rz[p])
      BY <3>1, PendingFacts
    <3>4. Effect(s.out, p) \in Reduced
      BY PendingFacts
    <3>5. a # 0 => Times(Effect(s.out, p), "rz", a) =
                     Times(Effect(s.out, p), "rz", s.rz[q])
      BY <1>3, <1>4, <3>4, TimesOfEqual
    <3>6. a = 0 => Times(Effect(s.out, p), "rz", s.rz[q]) = Effect(s.out, p)
      BY <1>3, <1>4, <3>4, TimesNothing
    <3> QED BY <1>5, <2>2, <3>2, <3>3, <3>5, <3>6
  <2> QED BY <2>1, <2>2
<1> QED BY <1>2, <1>6, <1>7 DEF t

Nothing(s, p) == s.pi2[p] = 0 /\ s.rz[p] = 0

LEMMA FlushAllKeeps ==
  ASSUME NEW s, Sound(s), NEW q \in Qubits
  PROVE  /\ Sound(FlushAll(s, q))
         /\ \A p \in Qubits : Pending(FlushAll(s, q), p) = Pending(s, p)
         /\ Nothing(FlushAll(s, q), q)
         /\ \A p \in Qubits : Nothing(s, p) => Nothing(FlushAll(s, q), p)
<1> DEFINE t == FlushPi2(s, q)
           u == FlushRz(t, q)
<1>1. /\ Sound(t) /\ t.rz = s.rz /\ t.pi2 = [s.pi2 EXCEPT ![q] = 0]
      /\ \A p \in Qubits : Pending(t, p) = Pending(s, p)
  BY FlushPi2Keeps
<1> HIDE DEF t
<1>2. /\ Sound(u) /\ u.rz = [t.rz EXCEPT ![q] = 0] /\ u.pi2 = t.pi2
      /\ \A p \in Qubits : Pending(u, p) = Pending(t, p)
  BY <1>1, FlushRzKeeps
<1> HIDE DEF u
<1>3. s.pi2 \in [Qubits -> Int] /\ s.rz \in [Qubits -> Int]
  BY DEF Sound, WalkStates
<1>4. FlushAll(s, q) = u
  BY DEF FlushAll, t, u
<1>5. Nothing(u, q) /\ \A p \in Qubits : Nothing(s, p) => Nothing(u, p)
  BY <1>1, <1>2, <1>3 DEF Nothing
<1> QED BY <1>1, <1>2, <1>4, <1>5

LEMMA FlushEachKeeps ==
  ASSUME NEW s, Sound(s), NEW qs \in Seq(Qubits)
  PROVE  /\ Sound(FlushEach(s, qs))
         /\ \A p \in Qubits : Pending(FlushEach(s, qs), p) = Pending(s, p)
         /\ \A i \in 1 .. Len(qs) : Nothing(FlushEach(s, qs), qs[i])
<1> DEFINE n     == Len(qs)
           steps == [k \in 1 .. n |-> Flushed(qs[k])]
           f     == Through(s, steps)
           Good(k) ==
             /\ Sound(f[k])
             /\ \A p \in Qubits : Pending(f[k], p) = Pending(s, p)
             /\ \A i \in 1 .. k : Nothing(f[k], qs[i])
           bad   == { k \in 0 .. n : ~Good(k) }
<1>1. n \in Nat /\ Len(steps) = n /\ \A k \in 1 .. n : steps[k] = Flushed(qs[k])
  BY LenProperties
<1>2. FlushEach(s, qs) = f[n]
  BY DEF FlushEach
<1> HIDE DEF steps
<1>3. f[0] = s /\ \A k \in 1 .. n : f[k] = steps[k][f[k - 1]]
  BY <1>1, ThroughSteps
<1> HIDE DEF f
<1>4. bad = {}
  <2> SUFFICES ASSUME bad # {} PROVE FALSE
    OBVIOUS
  <2>1. bad \in SUBSET Nat
    BY <1>1
  <2>2. PICK m \in bad : \A j \in bad : m <= j
    BY <2>1, NatSetHasLowest
  <2>3. m \in 0 .. n /\ ~Good(m)
    OBVIOUS
  <2>4. Good(0)
    BY <1>3
  <2>5. m # 0
    BY <2>3, <2>4
  <2>6. m \in 1 .. n /\ m - 1 \in 0 .. n /\ ~(m <= m - 1)
    BY <1>1, <2>3, <2>5
  <2>7. Good(m - 1)
    BY <2>2, <2>6
  <2> DEFINE t == f[m - 1]
  <2>8. qs[m] \in Qubits
    BY <2>6, ElementOfSeq
  <2>9. f[m] = FlushAll(t, qs[m])
    <3>1. t \in WalkStates
      BY <2>7 DEF Sound
    <3>2. f[m] = Flushed(qs[m])[t]
      BY <1>1, <1>3, <2>6
    <3> QED BY <3>1, <3>2 DEF Flushed
  <2>10. /\ Sound(f[m]) /\ Nothing(f[m], qs[m])
         /\ \A p \in Qubits : Pending(f[m], p) = Pending(t, p)
         /\ \A p \in Qubits : Nothing(t, p) => Nothing(f[m], p)
    <3>1. Sound(t)
      BY <2>7
    <3> HIDE DEF t, f
    <3> QED BY ONLY <2>8, <2>9, <3>1, FlushAllKeeps
  <2>11. ASSUME NEW i \in 1 .. m
         PROVE  Nothing(f[m], qs[i])
    <3>1. CASE i = m
      BY <2>10, <3>1
    <3>2. CASE i # m
      <4>1. i \in 1 .. m - 1 /\ i \in 1 .. n
        BY <1>1, <2>6, <3>2
      <4>2. qs[i] \in Qubits
        BY <4>1, ElementOfSeq
      <4> QED BY <2>7, <2>10, <4>1, <4>2
    <3> QED BY <3>1, <3>2
  <2>12. Good(m)
    BY <2>7, <2>10, <2>11
  <2> QED BY <2>3, <2>12
<1>5. n \in 0 .. n
  BY <1>1
<1>6. Good(n)
  BY <1>4, <1>5
<1> QED BY <1>2, <1>6

(* Once everything is flushed what was pending is what has been emitted.   *)
LEMMA FlushEveryKeeps ==
  ASSUME NEW s, Sound(s)
  PROVE  /\ Sound(FlushEvery(s))
         /\ \A p \in Qubits :
              /\ Pending(FlushEvery(s), p) = Pending(s, p)
              /\ Effect(FlushEvery(s).out, p) = Pending(s, p)
<1> DEFINE n  == Cardinality(Qubits)
           qs == [k \in 1 .. n |-> k - 1]
           t  == FlushEvery(s)
<1>1. n \in Nat /\ Qubits = 0 .. n - 1
  BY QubitsAssumption
<1>2. qs \in Seq(Qubits) /\ Len(qs) = n /\ \A p \in Qubits : p = qs[p + 1]
  <2> HIDE DEF n
  <2> QED BY <1>1
<1>3. t = FlushEach(s, qs)
  BY DEF FlushEvery
<1> HIDE DEF qs
<1>4. /\ Sound(t)
      /\ \A p \in Qubits : Pending(t, p) = Pending(s, p)
      /\ \A i \in 1 .. n : Nothing(t, qs[i])
  BY <1>2, <1>3, FlushEachKeeps
<1> HIDE DEF t
<1>5. ASSUME NEW p \in Qubits
      PROVE  Effect(t.out, p) = Pending(t, p)
  <2>1. p + 1 \in 1 .. n
    <3> HIDE DEF n
    <3> QED BY <1>1
  <2>2. Nothing(t, p)
    BY <1>2, <1>4, <2>1
  <2> QED BY <1>4, <2>2, PendingFacts DEF Nothing
<1> QED BY <1>4, <1>5 DEF t

(* One iteration of the walk does to what is pending what the op does.     *)
LEMMA VisitKeeps ==
  ASSUME NEW s, Sound(s), NEW op \in PlainOps
  PROVE  /\ Sound(Visit(s, op))
         /\ \A p \in Qubits :
              Pending(Visit(s, op), p) = NextWord(Pending(s, p), p, op)
<1> DEFINE u == Visit(s, op)
           q == op.qs[1]
<1>1. op \in OpType /\ op.n \in Int /\ op.qs \in Seq(Qubits)
  BY DEF PlainOps, OpType
<1>2. op.kind \in {"rz", "sx", "sxdg"} => q \in Qubits /\ Touched(op) = {q}
  <2>1. op.kind \in {"rz", "sx", "sxdg"} => Len(op.qs) = 1
    BY DEF PlainOps
  <2>2. Len(op.qs) = 1 => q \in Qubits
    BY <1>1, ElementOfSeq
  <2>3. Len(op.qs) = 1 => Touched(op) = {q}
    BY DEF Touched
  <2> QED BY <2>1, <2>2, <2>3
<1>3. "rz" \in PowerKinds /\ "x/2" \in PowerKinds
  BY DEF PowerKinds
<1>4. CASE op.kind = "rz"
  <2> DEFINE t == FlushPi2(s, q)
             a == op.n
  <2>1. q \in Qubits /\ Touched(op) = {q}
    BY <1>2, <1>4
  <2>2. /\ Sound(t) /\ t.pi2 = [s.pi2 EXCEPT ![q] = 0]
        /\ \A p \in Qubits : Pending(t, p) = Pending(s, p)
    BY <2>1, FlushPi2Keeps
  <2>3. u = State([t.rz EXCEPT ![q] = @ + a], t.pi2, t.out)
    BY <1>4 DEF Visit, HoldRz
  <2>4. \A w : Applied(w, op) = Times(w, "rz", a)
    BY <1>4 DEF Applied
  <2> HIDE DEF t, u
  <2>5. /\ t.rz \in [Qubits -> Int] /\ t.pi2 \in [Qubits -> Int]
        /\ t.out \in Seq(PlainOps) /\ s.pi2 \in [Qubits -> Int]
    BY <2>2 DEF Sound, WalkStates
  <2>6. /\ u.rz = [t.rz EXCEPT ![q] = @ + a]
        /\ u.pi2 = t.pi2 /\ u.out = t.out
    BY <2>3 DEF State
  <2>7. u.rz \in [Qubits -> Int] /\ t.pi2[q] = 0
    BY <1>1, <2>1, <2>2, <2>5, <2>6
  <2>8. u = State(u.rz, t.pi2, t.out)
    BY <2>3, <2>6
  <2>9. Sound(u)
    <3>1. u \in WalkStates
      BY <2>5, <2>7, <2>8, StateIsTyped
    <3>2. Exclusive(u)
      BY <2>1, <2>2, <2>5, <2>6, <2>7 DEF Sound, Exclusive
    <3> QED BY <2>5, <2>6, <3>1, <3>2 DEF Sound
  <2>10. ASSUME NEW p \in Qubits
         PROVE  Pending(u, p) = NextWord(Pending(t, p), p, op)
    <3>1. CASE p = q
      <4> DEFINE w == Effect(t.out, p)
      <4>1. w \in Reduced /\ t.rz[p] \in Int /\ u.rz[p] = t.rz[p] + a
        BY <2>2, <2>5, <2>6, <3>1, PendingFacts
      <4>2. Pending(t, p) = Times(w, "rz", t.rz[p])
        BY <2>2, <2>7, <3>1, PendingFacts
      <4>3. Pending(u, p) = Times(Effect(u.out, p), "rz", u.rz[p])
        BY <2>6, <2>7, <2>9, <3>1, PendingFacts
      <4> HIDE DEF w
      <4>4. Times(Times(w, "rz", t.rz[p]), "rz", a) = Times(w, "rz", t.rz[p] + a)
        BY <1>1, <1>3, <4>1, TimesAdds
      <4> QED BY <2>1, <2>4, <2>6, <3>1, <4>1, <4>2, <4>3, <4>4
              DEF NextWord, w
    <3>2. CASE p # q
      BY <2>1, <2>5, <2>6, <3>2 DEF Pending, NextWord
    <3> QED BY <3>1, <3>2
  <2> QED BY <2>2, <2>9, <2>10 DEF u
<1>5. CASE op.kind \in {"sx", "sxdg"}
  <2> DEFINE t == FlushRz(s, q)
             k == IF op.kind = "sx" THEN 1 ELSE -1
  <2>1. q \in Qubits /\ Touched(op) = {q} /\ k \in Int
    BY <1>2, <1>5
  <2>2. /\ Sound(t) /\ t.rz = [s.rz EXCEPT ![q] = 0]
        /\ \A p \in Qubits : Pending(t, p) = Pending(s, p)
    BY <2>1, FlushRzKeeps
  <2>3. u = State(t.rz, [t.pi2 EXCEPT ![q] = @ + k], t.out)
    BY <1>5 DEF Visit, HoldPi2
  <2>4. \A w : Applied(w, op) = Times(w, "x/2", k)
    BY <1>5 DEF Applied
  <2> HIDE DEF t, u, k
  <2>5. /\ t.rz \in [Qubits -> Int] /\ t.pi2 \in [Qubits -> Int]
        /\ t.out \in Seq(PlainOps) /\ s.rz \in [Qubits -> Int]
    BY <2>2 DEF Sound, WalkStates
  <2>6. /\ u.pi2 = [t.pi2 EXCEPT ![q] = @ + k]
        /\ u.rz = t.rz /\ u.out = t.out
    BY <2>3 DEF State
  <2>7. u.pi2 \in [Qubits -> Int] /\ t.rz[q] = 0
    BY <2>1, <2>2, <2>5, <2>6
  <2>8. u = State(t.rz, u.pi2, t.out)
    BY <2>3, <2>6
  <2>9. Sound(u)
    <3>1. u \in WalkStates
      BY <2>5, <2>7, <2>8, StateIsTyped
    <3>2. Exclusive(u)
      BY <2>1, <2>2, <2>5, <2>6, <2>7 DEF Sound, Exclusive
    <3> QED BY <2>5, <2>6, <3>1, <3>2 DEF Sound
  <2>10. ASSUME NEW p \in Qubits
         PROVE  Pending(u, p) = NextWord(Pending(t, p), p, op)
    <3>1. CASE p = q
      <4> DEFINE w == Effect(t.out, p)
      <4>1. w \in Reduced /\ t.pi2[p] \in Int /\ u.pi2[p] = t.pi2[p] + k
        BY <2>2, <2>5, <2>6, <3>1, PendingFacts
      <4>2. Pending(t, p) = Times(w, "x/2", t.pi2[p])
        BY <2>2, <2>7, <3>1, PendingFacts
      <4>3. Pending(u, p) = Times(Effect(u.out, p), "x/2", u.pi2[p])
        BY <2>6, <2>7, <2>9, <3>1, PendingFacts
      <4> HIDE DEF w
      <4>4. Times(Times(w, "x/2", t.pi2[p]), "x/2", k) =
              Times(w, "x/2", t.pi2[p] + k)
        BY <1>3, <2>1, <4>1, TimesAdds
      <4> QED BY <2>1, <2>4, <2>6, <3>1, <4>1, <4>2, <4>3, <4>4
              DEF NextWord, w
    <3>2. CASE p # q
      BY <2>1, <2>5, <2>6, <3>2 DEF Pending, NextWord
    <3> QED BY <3>1, <3>2
  <2> QED BY <2>2, <2>9, <2>10 DEF u
<1>6. CASE op.kind \notin {"rz", "sx", "sxdg"}
  <2> DEFINE t == FlushEach(s, op.qs)
  <2>1. /\ Sound(t)
        /\ \A p \in Qubits : Pending(t, p) = Pending(s, p)
        /\ \A i \in 1 .. Len(op.qs) : Nothing(t, op.qs[i])
    BY <1>1, FlushEachKeeps
  <2>2. Reemitted(op) = op
    BY <1>1 DEF Reemitted, PlainOps, OpType
  <2>3. u = State(t.rz, t.pi2, Append(t.out, op))
    BY <1>6, <2>2 DEF Visit, Pass
  <2> HIDE DEF t, u
  <2>4. /\ t.rz \in [Qubits -> Int] /\ t.pi2 \in [Qubits -> Int]
        /\ t.out \in Seq(PlainOps)
    BY <2>1 DEF Sound, WalkStates
  <2>5. Append(t.out, op) \in Seq(PlainOps) /\ t.out \in Seq(OpType)
    BY <2>4, AppendProperties, SeqMonotonic DEF PlainOps
  <2>6. u.rz = t.rz /\ u.pi2 = t.pi2 /\ u.out = Append(t.out, op)
    BY <2>3 DEF State
  <2>7. Sound(u)
    <3>1. u \in WalkStates
      BY <2>3, <2>4, <2>5, StateIsTyped
    <3>2. Exclusive(u)
      BY <2>1, <2>6 DEF Sound, Exclusive
    <3> QED BY <2>5, <2>6, <3>1, <3>2 DEF Sound
  <2>8. ASSUME NEW p \in Qubits
        PROVE  Pending(u, p) = NextWord(Pending(t, p), p, op)
    <3>1. Effect(u.out, p) = NextWord(Effect(t.out, p), p, op)
      BY <1>1, <2>5, <2>6, EffectFacts
    <3>2. CASE p \in Touched(op)
      <4>1. Nothing(t, p) /\ Nothing(u, p)
        BY <2>1, <2>6, <3>2 DEF Touched, Nothing
      <4> QED BY <2>1, <2>7, <3>1, <4>1, PendingFacts DEF Nothing
    <3>3. CASE p \notin Touched(op)
      BY <2>6, <3>1, <3>3 DEF Pending, NextWord
    <3> QED BY <3>2, <3>3
  <2> QED BY <2>1, <2>7, <2>8 DEF u
<1> QED BY <1>4, <1>5, <1>6

LEMMA StartIsSound ==
  Sound(Start) /\ \A p \in Qubits : Pending(Start, p) = << >>
<1>1. /\ Start.out = << >> /\ \A p \in Qubits : Nothing(Start, p)
  BY DEF Start, State, Nothing
<1>2. Sound(Start)
  <2>1. Start \in WalkStates
    <3> DEFINE zero == [p \in Qubits |-> 0]
    <3>1. zero \in [Qubits -> Int] /\ << >> \in Seq(PlainOps)
      BY EmptySeq
    <3> HIDE DEF zero
    <3>2. State(zero, zero, << >>) \in WalkStates
      BY <3>1, StateIsTyped
    <3> QED BY <3>2 DEF Start, zero
  <2> QED BY <1>1, <2>1, EmptySeq DEF Sound, Exclusive, Nothing
<1>3. ASSUME NEW p \in Qubits
      PROVE  Pending(Start, p) = << >>
  <2>1. Pending(Start, p) = Effect(Start.out, p)
    BY <1>1, <1>2, PendingFacts DEF Nothing
  <2>2. RunOp(0, p) \in OpType /\ << >> \in Seq(OpType)
    BY EmptyIsReduced, EmptySeq, EffectOfRunOp
  <2> QED BY <1>1, <2>1, <2>2, EffectFacts
<1> QED BY <1>2, <1>3

(* Cleanup::run changes the effect of no module on any qubit: what the     *)
(* pass merges, cancels and moves are powers of a kind, past nothing they  *)
(* do not commute with.                                                    *)
THEOREM CleanupKeepsEffect ==
  ASSUME NEW ops \in Seq(PlainOps)
  PROVE  Cleaned(ops) \in Seq(PlainOps) /\ SameEffect(Cleaned(ops), ops)
<1> DEFINE n     == Len(ops)
           steps == [k \in 1 .. n |-> Visited(ops[k])]
           f     == Through(Start, steps)
           Good(k) ==
             Sound(f[k]) /\ \A p \in Qubits : Pending(f[k], p) = Words(ops, p)[k]
           bad   == { k \in 0 .. n : ~Good(k) }
<1>1. n \in Nat /\ Len(steps) = n /\ \A k \in 1 .. n : steps[k] = Visited(ops[k])
  BY LenProperties
<1>2. Cleaned(ops) = FlushEvery(f[n]).out
  BY DEF Cleaned
<1>3. ops \in Seq(OpType)
  BY SeqMonotonic DEF PlainOps
<1> HIDE DEF steps
<1>4. f[0] = Start /\ \A k \in 1 .. n : f[k] = steps[k][f[k - 1]]
  BY <1>1, ThroughSteps
<1> HIDE DEF f
<1>5. bad = {}
  <2> SUFFICES ASSUME bad # {} PROVE FALSE
    OBVIOUS
  <2>1. bad \in SUBSET Nat
    BY <1>1
  <2>2. PICK m \in bad : \A j \in bad : m <= j
    BY <2>1, NatSetHasLowest
  <2>3. m \in 0 .. n /\ ~Good(m)
    OBVIOUS
  <2>4. Good(0)
    BY <1>3, <1>4, StartIsSound, StepsOfWords
  <2>5. m # 0
    BY <2>3, <2>4
  <2>6. m \in 1 .. n /\ m - 1 \in 0 .. n /\ ~(m <= m - 1)
    BY <1>1, <2>3, <2>5
  <2>7. Good(m - 1)
    BY <2>2, <2>6
  <2>8. ops[m] \in PlainOps /\ ops[m] \in OpType
    BY <1>3, <2>6, ElementOfSeq
  <2> DEFINE t == f[m - 1]
  <2>9. f[m] = Visit(t, ops[m])
    <3>1. t \in WalkStates
      BY <2>7 DEF Sound
    <3>2. f[m] = Visited(ops[m])[t]
      BY <1>1, <1>4, <2>6
    <3> QED BY <3>1, <3>2 DEF Visited
  <2>10. /\ Sound(f[m])
         /\ \A p \in Qubits :
              Pending(f[m], p) = NextWord(Words(ops, p)[m - 1], p, ops[m])
    BY <2>7, <2>8, <2>9, VisitKeeps
  <2>11. ASSUME NEW p \in Qubits
         PROVE  Words(ops, p)[m] = NextWord(Words(ops, p)[m - 1], p, ops[m])
    <3>1. Words(ops, p)[m] = WordStep(p, ops[m])[Words(ops, p)[m - 1]]
      BY <1>3, <2>6, StepsOfWords
    <3>2. Words(ops, p)[m - 1] \in Reduced
      BY <1>3, <2>6, WordsAreReduced
    <3> QED BY <2>8, <3>1, <3>2, StepOfWord
  <2>12. Good(m)
    BY <2>10, <2>11
  <2> QED BY <2>3, <2>12
<1>6. n \in 0 .. n
  BY <1>1
<1>7. Good(n)
  BY <1>5, <1>6
<1>8. /\ Sound(FlushEvery(f[n]))
      /\ \A p \in Qubits :
           Effect(FlushEvery(f[n]).out, p) = Words(ops, p)[n]
  BY <1>7, FlushEveryKeeps
<1>9. Cleaned(ops) \in Seq(PlainOps)
  BY <1>2, <1>8 DEF Sound
<1>10. \A p \in Qubits : Effect(ops, p) = Words(ops, p)[n]
  BY <1>3, StepsOfWords
<1> QED BY <1>2, <1>8, <1>9, <1>10 DEF SameEffect

-----------------------------------------------------------------------------
(* The ops that act on a qubit, when a module grows by one.                *)
LEMMA OnIsTyped ==
  ASSUME NEW ops \in Seq(OpType), NEW p
  PROVE  On(ops, p) \in Seq(OpType)
<1> DEFINE n     == Len(ops)
           S     == Seq(OpType)
           steps == [k \in 1 .. n |-> KeepStep(p, ops[k])]
<1>1. n \in Nat /\ Len(steps) = n /\ \A k \in 1 .. n : steps[k] = KeepStep(p, ops[k])
  BY LenProperties
<1>2. On(ops, p) = Through(<< >>, steps)[n]
  BY DEF On
<1> HIDE DEF steps
<1>3. << >> \in S
  OBVIOUS
<1>4. ASSUME NEW k \in 1 .. n, NEW x \in S
      PROVE  steps[k][x] \in S
  <2>1. ops[k] \in OpType
    BY ElementOfSeq
  <2>2. Append(x, ops[k]) \in S
    BY <2>1, AppendProperties
  <2> QED BY <1>1, <2>2 DEF KeepStep
<1> HIDE DEF S
<1>5. \A k \in 0 .. n : Through(<< >>, steps)[k] \in S
  BY <1>1, <1>3, <1>4, ThroughKeeps
<1>6. n \in 0 .. n
  BY <1>1
<1> QED BY <1>2, <1>5, <1>6 DEF S

LEMMA OnFacts ==
  ASSUME NEW ops \in Seq(OpType), NEW op \in OpType, NEW p
  PROVE  /\ On(ops, p) \in Seq(OpType)
         /\ On(<< >>, p) = << >>
         /\ On(Append(ops, op), p) = IF p \in Touched(op)
                                     THEN Append(On(ops, p), op)
                                     ELSE On(ops, p)
<1> DEFINE n     == Len(ops)
           ext   == Append(ops, op)
           steps == [k \in 1 .. n |-> KeepStep(p, ops[k])]
           more  == [k \in 1 .. Len(ext) |-> KeepStep(p, ext[k])]
<1>1. /\ n \in Nat /\ ext \in Seq(OpType) /\ Len(ext) = n + 1
      /\ \A i \in 1 .. n : ext[i] = ops[i]
      /\ ext[n + 1] = op
  BY LenProperties, AppendProperties
<1> HIDE DEF ext
<1>2. /\ Len(steps) = n /\ Len(more) = n + 1
      /\ \A k \in 1 .. n : more[k] = steps[k]
      /\ more[n + 1] = KeepStep(p, op)
  BY <1>1
<1>3. On(ops, p) = Through(<< >>, steps)[n]
      /\ On(ext, p) = Through(<< >>, more)[n + 1]
  BY <1>1 DEF On
<1> HIDE DEF steps, more
<1>4. On(ext, p) = KeepStep(p, op)[On(ops, p)]
  BY <1>1, <1>2, <1>3, ThroughOneMore
<1>5. On(ops, p) \in Seq(OpType)
  BY OnIsTyped
<1>6. On(<< >>, p) = << >>
  <2>1. Len(<< >>) = 0 /\ [k \in 1 .. 0 |-> KeepStep(p, << >>[k])] = << >>
    OBVIOUS
  <2>2. Len(<< >>) \in Nat
    BY <2>1
  <2>3. Through(<< >>, << >>)[0] = << >>
    BY <2>2, ThroughSteps
  <2> QED BY <2>1, <2>3 DEF On
<1> QED BY <1>4, <1>5, <1>6 DEF KeepStep, ext

(* Runs of sx: their length, and the ops of a qubit behind which one comes. *)
LEMMA CopiesGrow ==
  ASSUME NEW op \in OpType, NEW m \in Nat
  PROVE  /\ Copies(op, m) \in Seq(OpType) /\ Len(Copies(op, m)) = m
         /\ Copies(op, 0) = << >>
         /\ Copies(op, m + 1) = Append(Copies(op, m), op)
<1>1. \A j \in Nat : Copies(op, j) \in Seq(OpType) /\ Len(Copies(op, j)) = j
  <2> TAKE j \in Nat
  <2>1. Copies(op, j) \in [1 .. j -> OpType]
    BY DEF Copies
  <2> QED BY <2>1
<1>2. \A s \in Seq(OpType) : << >> \o s = s
  BY ConcatEmptySeq
<1> DEFINE none == << >>
<1>e. none \in Seq(OpType) /\ none = << >>
  OBVIOUS
<1> HIDE DEF none
<1>3. none \o Copies(op, m + 1) = Append(none \o Copies(op, m), op)
  BY <1>e, CopiesOfOp
<1>4. Copies(op, 0) = << >>
  BY <1>1, EmptySeq
<1>5. m + 1 \in Nat
  OBVIOUS
<1> QED BY <1>1, <1>2, <1>e, <1>3, <1>4, <1>5

LEMMA OnCopies ==
  ASSUME NEW ops \in Seq(OpType), NEW op \in OpType, NEW m \in Nat, NEW p
  PROVE  On(ops \o Copies(op, m), p) =
           IF p \in Touched(op) THEN On(ops, p) \o Copies(op, m) ELSE On(ops, p)
<1> DEFINE w       == On(ops, p)
           Sent(k) == On(ops \o Copies(op, k), p)
           Due(k)  == IF p \in Touched(op) THEN w \o Copies(op, k) ELSE w
           bad     == { k \in Nat : Sent(k) # Due(k) }
<1> SUFFICES ASSUME bad # {} PROVE FALSE
  OBVIOUS
<1>1. w \in Seq(OpType)
  BY OnIsTyped
<1> HIDE DEF w
<1>2. Sent(0) = Due(0)
  <2>1. ops \o Copies(op, 0) = ops /\ w \o Copies(op, 0) = w
    BY <1>1, CopiesOfOp
  <2> QED BY <2>1 DEF w
<1>3. PICK k \in bad : \A j \in bad : k <= j
  BY NatSetHasLowest
<1>4. k \in Nat /\ Sent(k) # Due(k)
  OBVIOUS
<1>5. k # 0
  BY <1>2, <1>4
<1>6. k - 1 \in Nat /\ ~(k <= k - 1) /\ (k - 1) + 1 = k
  BY <1>4, <1>5
<1>7. Sent(k - 1) = Due(k - 1)
  BY <1>3, <1>6
<1> DEFINE before == ops \o Copies(op, k - 1)
<1>8. before \in Seq(OpType) /\ ops \o Copies(op, k) = Append(before, op)
  <2>1. /\ before \in Seq(OpType)
        /\ ops \o Copies(op, (k - 1) + 1) = Append(before, op)
    BY <1>6, CopiesOfOp
  <2> QED BY <1>6, <2>1
<1>9. w \o Copies(op, k) = Append(w \o Copies(op, k - 1), op)
  <2>1. w \o Copies(op, (k - 1) + 1) = Append(w \o Copies(op, k - 1), op)
    BY <1>1, <1>6, CopiesOfOp
  <2> QED BY <1>6, <2>1
<1>10. On(Append(before, op), p) = IF p \in Touched(op)
                                   THEN Append(On(before, p), op)
                                   ELSE On(before, p)
  <2> HIDE DEF before
  <2> QED BY <1>8, OnFacts
<1> QED BY <1>4, <1>7, <1>8, <1>9, <1>10

Size(n) == IF n < 0 THEN -n ELSE n

LEMMA RunFacts ==
  ASSUME NEW n \in Int, NEW q \in Qubits
  PROVE  /\ Pi2Run(n, q) = Copies(RunOp(n, q), Size(n))
         /\ Size(n) \in Nat /\ RunOp(n, q) \in OpType /\ Touched(RunOp(n, q)) = {q}
         /\ Pi2Run(n, q) \in Seq(OpType) /\ Len(Pi2Run(n, q)) = Size(n)
         /\ n = 0 => Pi2Run(n, q) = << >>
<1>1. Size(n) \in Nat /\ (n = 0 => Size(n) = 0)
  BY DEF Size
<1>2. Pi2Run(n, q) = Copies(RunOp(n, q), Size(n))
  BY DEF Pi2Run, Copies, RunOp, Size
<1>3. RunOp(n, q) \in OpType
  BY EmptyIsReduced, EffectOfRunOp
<1>4. Touched(RunOp(n, q)) = {q}
  <2>1. Len(RunOp(n, q).qs) = 1 /\ RunOp(n, q).qs[1] = q
    BY DEF RunOp
  <2> QED BY <2>1 DEF Touched
<1> QED BY <1>1, <1>2, <1>3, <1>4, CopiesGrow

LEMMA OnRun ==
  ASSUME NEW ops \in Seq(OpType), NEW n \in Int, NEW q \in Qubits, NEW p
  PROVE  On(ops \o Pi2Run(n, q), p) =
           IF p = q THEN On(ops, p) \o Pi2Run(n, q) ELSE On(ops, p)
<1> DEFINE op == RunOp(n, q)
           m  == Size(n)
<1>1. op \in OpType /\ m \in Nat /\ Pi2Run(n, q) = Copies(op, m)
      /\ Touched(op) = {q}
  BY RunFacts
<1> HIDE DEF op, m
<1>2. On(ops \o Copies(op, m), p) =
        IF p \in Touched(op) THEN On(ops, p) \o Copies(op, m) ELSE On(ops, p)
  BY <1>1, OnCopies
<1> QED BY <1>1, <1>2

(* One op more lengthens a run of its own kind, and shortens another.      *)
LEMMA RunGrows ==
  ASSUME NEW n \in Int, NEW q \in Qubits, NEW k \in {1, -1}
  PROVE  /\ Size(n + k) <= Size(n) + 1
         /\ Size(n + k) = Size(n) + 1 =>
              Pi2Run(n + k, q) = Append(Pi2Run(n, q), RunOp(k, q))
<1>1. Size(n + k) <= Size(n) + 1
  BY DEF Size
<1>2. ASSUME Size(n + k) = Size(n) + 1
      PROVE  Pi2Run(n + k, q) = Append(Pi2Run(n, q), RunOp(k, q))
  <2>1. (n >= 0 /\ k = 1) \/ (n <= 0 /\ k = -1)
    BY <1>2 DEF Size
  <2> DEFINE op == RunOp(k, q)
             m  == Size(n)
  <2>2. m \in Nat /\ m + 1 = Size(n + k) /\ n + k \in Int
    BY <1>2 DEF Size
  <2>3. op \in OpType
    BY RunFacts
  <2>4. RunOp(n + k, q) = op
    BY <2>1 DEF RunOp
  <2>5. Pi2Run(n + k, q) = Copies(op, m + 1)
    BY <2>2, <2>4, RunFacts
  <2>6. Pi2Run(n, q) = Copies(op, m)
    <3>1. CASE n = 0
      <4>1. Pi2Run(n, q) = << >> /\ m = 0
        BY <3>1, RunFacts DEF Size
      <4> QED BY <2>3, <4>1, CopiesGrow
    <3>2. CASE n # 0
      <4>1. RunOp(n, q) = op
        BY <2>1, <3>2 DEF RunOp
      <4> QED BY <4>1, RunFacts
    <3> QED BY <3>1, <3>2
  <2> HIDE DEF op, m
  <2> QED BY <2>2, <2>3, <2>5, <2>6, CopiesGrow DEF op
<1> QED BY <1>1, <1>2

-----------------------------------------------------------------------------
(* The size of a module on its way through the pass: what is emitted, and  *)
(* what the last flush will add to it on every qubit.                      *)
RzRun(a, p) == IF Normalized(a) = 0 THEN << >> ELSE <<Rz(Normalized(a), p)>>

Held(s, p) == Pi2Run(s.pi2[p], p) \o RzRun(s.rz[p], p)

Shown(s, p) == On(s.out, p) \o Held(s, p)

Plus(n) == [x \in Nat |-> x + n]

Sums(f) == Through(0, [k \in 1 .. Cardinality(Qubits) |-> Plus(f[k - 1])])

Total(f) == Sums(f)[Cardinality(Qubits)]

Owed(s) == [p \in Qubits |-> Len(Held(s, p))]

Load(s) == Len(s.out) + Total(Owed(s))

LEMMA SumsStep ==
  ASSUME NEW f \in [Qubits -> Nat]
  PROVE  /\ Cardinality(Qubits) \in Nat
         /\ Sums(f)[0] = 0
         /\ \A k \in 0 .. Cardinality(Qubits) : Sums(f)[k] \in Nat
         /\ \A k \in 1 .. Cardinality(Qubits) :
              k - 1 \in Qubits /\ Sums(f)[k] = Sums(f)[k - 1] + f[k - 1]
<1> DEFINE n     == Cardinality(Qubits)
           N     == Nat
           steps == [k \in 1 .. n |-> Plus(f[k - 1])]
<1>1. n \in Nat /\ Qubits = 0 .. n - 1
  BY QubitsAssumption
<1>2. Len(steps) = n /\ \A k \in 1 .. n : steps[k] = Plus(f[k - 1])
  <2> HIDE DEF n
  <2> QED BY <1>1
<1>3. Sums(f) = Through(0, steps)
  BY DEF Sums
<1> HIDE DEF n, steps
<1>4. \A k \in 1 .. n : k - 1 \in Qubits
  BY <1>1
<1>5. ASSUME NEW k \in 1 .. n, NEW x \in N
      PROVE  steps[k][x] = x + f[k - 1] /\ steps[k][x] \in N
  <2> DEFINE y == f[k - 1]
  <2>1. y \in Nat /\ x \in Nat
    BY <1>4
  <2>2. steps[k] = Plus(y)
    BY <1>2
  <2> HIDE DEF y
  <2>3. Plus(y)[x] = x + y /\ x + y \in Nat
    BY <2>1 DEF Plus
  <2> QED BY <2>2, <2>3 DEF y
<1>6. 0 \in N
  OBVIOUS
<1>7. \A k \in 0 .. n : Through(0, steps)[k] \in N
  <2> HIDE DEF N
  <2> QED BY <1>1, <1>2, <1>5, <1>6, ThroughKeeps
<1>8. /\ Through(0, steps)[0] = 0
      /\ \A k \in 1 .. n :
           Through(0, steps)[k] = steps[k][Through(0, steps)[k - 1]]
  <2>1. Len(steps) \in Nat
    BY <1>1, <1>2
  <2>2. /\ Through(0, steps)[0] = 0
        /\ \A k \in 1 .. Len(steps) :
             Through(0, steps)[k] = steps[k][Through(0, steps)[k - 1]]
    BY <2>1, ThroughSteps
  <2> QED BY <1>2, <2>2
<1>9. ASSUME NEW k \in 1 .. n
      PROVE  Sums(f)[k] = Sums(f)[k - 1] + f[k - 1]
  <2>1. k - 1 \in 0 .. n
    BY <1>1
  <2> QED BY <1>3, <1>5, <1>7, <1>8, <2>1
<1> QED BY <1>1, <1>3, <1>4, <1>7, <1>8, <1>9 DEF n

(* What one qubit owes less, the total is less.                            *)
LEMMA TotalChanges ==
  ASSUME NEW f \in [Qubits -> Nat], NEW g \in [Qubits -> Nat], NEW q \in Qubits,
         \A p \in Qubits : p # q => f[p] = g[p]
  PROVE  Total(f) \in Nat /\ Total(g) \in Nat /\ Total(f) + g[q] = Total(g) + f[q]
<1> DEFINE n   == Cardinality(Qubits)
           a   == f[q]
           b   == g[q]
           F   == Sums(f)
           G   == Sums(g)
           Good(k) == IF k > q THEN F[k] + b = G[k] + a ELSE F[k] = G[k]
           bad == { k \in 0 .. n : ~Good(k) }
<1>1. n \in Nat /\ Qubits = 0 .. n - 1 /\ q \in 0 .. n - 1
  BY QubitsAssumption
<1>2. a \in Nat /\ b \in Nat
  OBVIOUS
<1>3. /\ F[0] = 0 /\ G[0] = 0
      /\ \A k \in 0 .. n : F[k] \in Nat /\ G[k] \in Nat
      /\ \A k \in 1 .. n : /\ k - 1 \in Qubits
                           /\ F[k] = F[k - 1] + f[k - 1]
                           /\ G[k] = G[k - 1] + g[k - 1]
  BY SumsStep
<1>4. Total(f) = F[n] /\ Total(g) = G[n]
  BY DEF Total
<1> HIDE DEF n, F, G
<1>5. bad = {}
  <2> SUFFICES ASSUME bad # {} PROVE FALSE
    OBVIOUS
  <2>1. bad \in SUBSET Nat
    BY <1>1
  <2>2. PICK m \in bad : \A j \in bad : m <= j
    BY <2>1, NatSetHasLowest
  <2>3. m \in 0 .. n /\ ~Good(m)
    OBVIOUS
  <2>4. Good(0)
    BY <1>1, <1>3
  <2>5. m # 0
    BY <2>3, <2>4
  <2>6. m \in 1 .. n /\ m - 1 \in 0 .. n /\ ~(m <= m - 1)
    BY <1>1, <2>3, <2>5
  <2>7. Good(m - 1)
    BY <2>2, <2>6
  <2>8. /\ F[m] = F[m - 1] + f[m - 1] /\ G[m] = G[m - 1] + g[m - 1]
        /\ m - 1 \in Qubits /\ f[m - 1] \in Nat /\ g[m - 1] \in Nat
        /\ F[m - 1] \in Nat /\ G[m - 1] \in Nat
    BY <1>3, <2>6
  <2>9. CASE m - 1 = q
    BY <1>1, <1>2, <2>3, <2>6, <2>7, <2>8, <2>9
  <2>10. CASE m - 1 # q
    <3>1. f[m - 1] = g[m - 1]
      BY <2>8, <2>10
    <3>2. m > q <=> m - 1 > q
      BY <1>1, <2>6, <2>10
    <3>3. CASE m > q
      <4>1. F[m - 1] + b = G[m - 1] + a
        BY <2>7, <3>2, <3>3
      <4>2. F[m] + b = G[m] + a
        <5> HIDE DEF a, b
        <5> QED BY <1>2, <2>8, <3>1, <4>1
      <4> QED BY <2>3, <3>3, <4>2
    <3>4. CASE ~(m > q)
      BY <2>3, <2>7, <2>8, <3>1, <3>2, <3>4
    <3> QED BY <3>3, <3>4
  <2> QED BY <2>9, <2>10
<1>6. n \in 0 .. n /\ n > q
  BY <1>1
<1> QED BY <1>3, <1>4, <1>5, <1>6

LEMMA RzFacts ==
  ASSUME NEW a \in Int, NEW q \in Qubits, NEW p
  PROVE  /\ Rz(a, q) \in OpType /\ Touched(Rz(a, q)) = {q}
         /\ RzRun(a, q) \in Seq(OpType)
         /\ Len(RzRun(a, q)) = IF Normalized(a) = 0 THEN 0 ELSE 1
         /\ a = 0 => RzRun(a, q) = << >>
<1>1. ASSUME NEW b \in Int
      PROVE  Rz(b, q) \in OpType
  <2>1. <<q>> \in Seq(Qubits)
    OBVIOUS
  <2> QED BY <2>1 DEF Rz, OpType, Gates, Standard, OneQ, Angled
<1>2. Touched(Rz(a, q)) = {q}
  <2>1. Len(Rz(a, q).qs) = 1 /\ Rz(a, q).qs[1] = q
    BY DEF Rz
  <2> QED BY <2>1 DEF Touched
<1>3. Normalized(a) \in Int /\ (a = 0 => Normalized(a) = 0)
  BY NormalizedFacts
<1>4. Rz(Normalized(a), q) \in OpType
  BY <1>1, <1>3
<1>5. RzRun(a, q) \in Seq(OpType)
      /\ Len(RzRun(a, q)) = IF Normalized(a) = 0 THEN 0 ELSE 1
  BY <1>4 DEF RzRun
<1> QED BY <1>1, <1>2, <1>3, <1>5 DEF RzRun

LEMMA HeldFacts ==
  ASSUME NEW s, Sound(s), NEW p \in Qubits
  PROVE  /\ s.out \in Seq(OpType) /\ Len(s.out) \in Nat
         /\ s.pi2[p] \in Int /\ s.rz[p] \in Int
         /\ On(s.out, p) \in Seq(OpType)
         /\ Held(s, p) \in Seq(OpType) /\ Len(Held(s, p)) \in Nat
         /\ s.pi2[p] = 0 => Held(s, p) = RzRun(s.rz[p], p)
         /\ s.rz[p] = 0 => Held(s, p) = Pi2Run(s.pi2[p], p)
         /\ Nothing(s, p) => Held(s, p) = << >>
<1> DEFINE m == s.pi2[p]
           a == s.rz[p]
           run == Pi2Run(m, p)
           rot == RzRun(a, p)
<1>1. /\ s.out \in Seq(OpType) /\ Len(s.out) \in Nat /\ m \in Int /\ a \in Int
  BY LenProperties DEF Sound, WalkStates
<1>2. On(s.out, p) \in Seq(OpType)
  BY <1>1, OnIsTyped
<1>3. Held(s, p) = run \o rot
  BY DEF Held
<1> HIDE DEF m, a
<1>4. run \in Seq(OpType) /\ (m = 0 => run = << >>)
  BY <1>1, RunFacts
<1>5. rot \in Seq(OpType) /\ (a = 0 => rot = << >>)
  BY <1>1, RzFacts
<1> HIDE DEF run, rot
<1>6. run \o rot \in Seq(OpType) /\ Len(run \o rot) \in Nat
  BY <1>4, <1>5, ConcatProperties, LenProperties
<1>7. (m = 0 => run \o rot = rot) /\ (a = 0 => run \o rot = run)
  BY <1>4, <1>5, ConcatEmptySeq
<1> QED BY <1>1, <1>2, <1>3, <1>4, <1>5, <1>6, <1>7 DEF m, a, run, rot, Nothing

LEMMA OwedFacts ==
  ASSUME NEW s, Sound(s)
  PROVE  /\ Owed(s) \in [Qubits -> Nat]
         /\ \A p \in Qubits : Owed(s)[p] = Len(Held(s, p))
<1>1. \A p \in Qubits : Len(Held(s, p)) \in Nat
  BY HeldFacts
<1> QED BY <1>1 DEF Owed

(* A flush emits what was held back and shows and owes the same.           *)
ShowsSame(s, t) ==
  Load(t) = Load(s) /\ \A p \in Qubits : Shown(t, p) = Shown(s, p)

LEMMA EmittingShowsSame ==
  ASSUME NEW s, Sound(s), NEW t, Sound(t), NEW q \in Qubits,
         NEW run \in Seq(OpType),
         Len(t.out) = Len(s.out) + Len(run),
         \A p \in Qubits : On(t.out, p) = IF p = q THEN On(s.out, p) \o run
                                          ELSE On(s.out, p),
         Held(s, q) = run \o Held(t, q),
         \A p \in Qubits : p # q => Held(s, p) = Held(t, p)
  PROVE  ShowsSame(s, t)
<1>1. /\ Owed(s) \in [Qubits -> Nat] /\ Owed(t) \in [Qubits -> Nat]
      /\ \A p \in Qubits : /\ Owed(s)[p] = Len(Held(s, p))
                           /\ Owed(t)[p] = Len(Held(t, p))
  BY OwedFacts
<1>2. /\ Held(t, q) \in Seq(OpType) /\ On(s.out, q) \in Seq(OpType)
      /\ Len(s.out) \in Nat /\ Len(Held(t, q)) \in Nat
  BY HeldFacts
<1>3. Len(run) \in Nat /\ Len(Held(s, q)) = Len(run) + Len(Held(t, q))
  BY <1>2, LenProperties, ConcatProperties
<1>4. \A p \in Qubits : p # q => Owed(s)[p] = Owed(t)[p]
  BY <1>1
<1>5. /\ Total(Owed(s)) \in Nat /\ Total(Owed(t)) \in Nat
      /\ Total(Owed(s)) + Owed(t)[q] = Total(Owed(t)) + Owed(s)[q]
  <2> DEFINE f == Owed(s)
             g == Owed(t)
  <2> HIDE DEF f, g
  <2>1. f \in [Qubits -> Nat] /\ g \in [Qubits -> Nat]
        /\ \A p \in Qubits : p # q => f[p] = g[p]
    BY <1>1, <1>4 DEF f, g
  <2>2. Total(f) \in Nat /\ Total(g) \in Nat /\ Total(f) + g[q] = Total(g) + f[q]
    BY <2>1, TotalChanges
  <2> QED BY <2>2 DEF f, g
<1>6. Load(t) = Load(s)
  <2> DEFINE r == Len(run)
             x == Len(Held(t, q))
             o == Len(s.out)
             A == Total(Owed(s))
             B == Total(Owed(t))
  <2>1. r \in Nat /\ x \in Nat /\ o \in Nat /\ A \in Nat /\ B \in Nat
    BY <1>2, <1>3, <1>5
  <2>2. A + x = B + (r + x)
    BY <1>1, <1>3, <1>5
  <2>3. Load(s) = o + A /\ Load(t) = (o + r) + B
    BY DEF Load
  <2> HIDE DEF r, x, o, A, B
  <2> QED BY <2>1, <2>2, <2>3
<1>7. Shown(t, q) = Shown(s, q)
  <2> DEFINE a == On(s.out, q)
             c == Held(t, q)
  <2>1. a \in Seq(OpType) /\ c \in Seq(OpType)
    BY <1>2
  <2>2. Shown(t, q) = (a \o run) \o c /\ Shown(s, q) = a \o (run \o c)
    BY DEF Shown
  <2> HIDE DEF a, c
  <2>3. run \in Seq(OpType)
    OBVIOUS
  <2>4. (a \o run) \o c = a \o (run \o c)
    BY ONLY <2>1, <2>3, ConcatAssociative
  <2> QED BY ONLY <2>2, <2>4
<1>8. \A p \in Qubits : p # q => Shown(t, p) = Shown(s, p)
  BY DEF Shown
<1> QED BY <1>6, <1>7, <1>8 DEF ShowsSame

LEMMA FlushPi2At ==
  ASSUME NEW s, Sound(s), NEW q \in Qubits, NEW p \in Qubits
  PROVE  On(FlushPi2(s, q).out, p) =
           IF p = q THEN On(s.out, p) \o Pi2Run(s.pi2[q], q) ELSE On(s.out, p)
<1> DEFINE ops == s.out
           n   == s.pi2[q]
<1>1. ops \in Seq(OpType) /\ n \in Int
  BY DEF Sound, WalkStates
<1>2. FlushPi2(s, q).out = ops \o Pi2Run(n, q)
  BY DEF FlushPi2, State
<1> HIDE DEF ops, n
<1>3. On(ops \o Pi2Run(n, q), p) =
        IF p = q THEN On(ops, p) \o Pi2Run(n, q) ELSE On(ops, p)
  BY <1>1, OnRun
<1> QED BY <1>2, <1>3 DEF ops, n

LEMMA FlushPi2Shows ==
  ASSUME NEW s, Sound(s), NEW q \in Qubits
  PROVE  ShowsSame(s, FlushPi2(s, q))
<1> DEFINE t   == FlushPi2(s, q)
           n   == s.pi2[q]
           run == Pi2Run(n, q)
<1>1. Sound(t) /\ t.rz = s.rz /\ t.pi2 = [s.pi2 EXCEPT ![q] = 0]
  BY FlushPi2Keeps
<1>2. t.out = s.out \o run
  BY DEF FlushPi2, State
<1>3. s.pi2 \in [Qubits -> Int] /\ s.out \in Seq(OpType) /\ n \in Int
  BY DEF Sound, WalkStates
<1>4. Held(s, q) = run \o RzRun(s.rz[q], q)
  BY DEF Held
<1>5. \A p \in Qubits : On(t.out, p) = IF p = q THEN On(s.out, p) \o run
                                       ELSE On(s.out, p)
  BY FlushPi2At
<1> HIDE DEF t, n
<1>6. run \in Seq(OpType)
  BY <1>3, RunFacts
<1> HIDE DEF run
<1>7. Len(t.out) = Len(s.out) + Len(run)
  BY <1>2, <1>3, <1>6, ConcatProperties
<1>8. Held(s, q) = run \o Held(t, q)
  <2>1. t.pi2[q] = 0
    BY <1>1, <1>3
  <2> QED BY <1>1, <1>4, <2>1, HeldFacts
<1>9. \A p \in Qubits : p # q => Held(s, p) = Held(t, p)
  BY <1>1, <1>3 DEF Held
<1>10. ShowsSame(s, t)
  <2>1. Sound(s) /\ q \in Qubits /\ Sound(t)
    BY <1>1
  <2> QED BY ONLY <1>5, <1>6, <1>7, <1>8, <1>9, <2>1, EmittingShowsSame
<1> QED BY <1>10 DEF t

LEMMA FlushRzEmits ==
  ASSUME NEW s, Sound(s), NEW q \in Qubits
  PROVE  FlushRz(s, q).out = s.out \o RzRun(s.rz[q], q)
<1> DEFINE ops == s.out
           a   == s.rz[q]
           b   == Normalized(a)
<1>1. FlushRz(s, q).out = IF b = 0 THEN ops ELSE Append(ops, Rz(b, q))
  BY DEF FlushRz, State
<1>2. ops \in Seq(OpType) /\ a \in Int
  BY DEF Sound, WalkStates
<1>3. RzRun(a, q) = IF b = 0 THEN << >> ELSE <<Rz(b, q)>>
  BY DEF RzRun
<1> HIDE DEF ops, a
<1>4. b \in Int
  BY <1>2, NormalizedFacts
<1> HIDE DEF b
<1>5. Rz(b, q) \in OpType
  BY <1>4, RzFacts
<1>6. FlushRz(s, q).out = ops \o RzRun(a, q)
  BY <1>1, <1>2, <1>3, <1>5, ConcatEmptySeq, AppendIsConcat
<1> QED BY <1>6 DEF ops, a

LEMMA FlushRzAt ==
  ASSUME NEW s, Sound(s), NEW q \in Qubits, NEW p \in Qubits
  PROVE  On(FlushRz(s, q).out, p) =
           IF p = q THEN On(s.out, p) \o RzRun(s.rz[q], q) ELSE On(s.out, p)
<1> DEFINE ops == s.out
           a   == s.rz[q]
           b   == Normalized(a)
           op  == Rz(b, q)
<1>1. ops \in Seq(OpType) /\ a \in Int
  BY DEF Sound, WalkStates
<1>2. FlushRz(s, q).out = IF b = 0 THEN ops ELSE Append(ops, op)
  BY DEF FlushRz, State
<1>3. RzRun(a, q) = IF b = 0 THEN << >> ELSE <<op>>
  BY DEF RzRun
<1> HIDE DEF ops, a
<1>4. b \in Int
  BY <1>1, NormalizedFacts
<1> HIDE DEF b
<1>5. op \in OpType /\ Touched(op) = {q}
  BY <1>4, RzFacts
<1> HIDE DEF op
<1>6. On(ops, p) \in Seq(OpType)
  BY <1>1, OnIsTyped
<1>7. On(Append(ops, op), p) = IF p \in Touched(op) THEN Append(On(ops, p), op)
                               ELSE On(ops, p)
  BY <1>1, <1>5, OnFacts
<1>8. On(FlushRz(s, q).out, p) =
        IF p = q THEN On(ops, p) \o RzRun(a, q) ELSE On(ops, p)
  <2>1. CASE b = 0
    <3>1. On(ops, p) \o << >> = On(ops, p)
      BY <1>6, ConcatEmptySeq
    <3> QED BY <1>2, <1>3, <2>1, <3>1
  <2>2. CASE b # 0
    <3>1. Append(On(ops, p), op) = On(ops, p) \o <<op>>
      BY <1>5, <1>6, AppendIsConcat
    <3> QED BY <1>2, <1>3, <1>5, <1>7, <2>2, <3>1
  <2> QED BY <2>1, <2>2
<1> QED BY <1>8 DEF ops, a

LEMMA FlushRzShows ==
  ASSUME NEW s, Sound(s), NEW q \in Qubits
  PROVE  ShowsSame(s, FlushRz(s, q))
<1> DEFINE t   == FlushRz(s, q)
           a   == s.rz[q]
           run == RzRun(a, q)
<1>1. Sound(t) /\ t.rz = [s.rz EXCEPT ![q] = 0] /\ t.pi2 = s.pi2
  BY FlushRzKeeps
<1>2. t.out = s.out \o run
  BY FlushRzEmits
<1>3. s.rz \in [Qubits -> Int] /\ s.out \in Seq(OpType) /\ a \in Int
  BY DEF Sound, WalkStates
<1>4. \A p \in Qubits : On(t.out, p) = IF p = q THEN On(s.out, p) \o run
                                       ELSE On(s.out, p)
  BY FlushRzAt
<1>5. Held(s, q) = Pi2Run(s.pi2[q], q) \o run
  BY DEF Held
<1>6. run \in Seq(OpType) /\ (a = 0 => run = << >>)
  <2> HIDE DEF a
  <2> QED BY <1>3, RzFacts
<1> HIDE DEF t, a, run
<1>7. Len(t.out) = Len(s.out) + Len(run)
  BY <1>2, <1>3, <1>6, ConcatProperties
<1>8. Held(s, q) = run \o Held(t, q)
  <2>1. t.rz[q] = 0 /\ t.pi2[q] = s.pi2[q]
    BY <1>1, <1>3
  <2>2. Held(t, q) = Pi2Run(s.pi2[q], q) /\ Held(t, q) \in Seq(OpType)
    BY <1>1, <2>1, HeldFacts
  <2>3. CASE a = 0
    BY <1>5, <1>6, <2>2, <2>3, ConcatEmptySeq
  <2>4. CASE s.pi2[q] = 0
    <3>1. Pi2Run(s.pi2[q], q) = << >>
      <4>1. s.pi2[q] \in Int
        BY <2>4
      <4> QED BY <2>4, <4>1, RunFacts
    <3> QED BY <1>5, <1>6, <2>2, <3>1, ConcatEmptySeq
  <2> QED BY <2>3, <2>4 DEF Sound, Exclusive, a
<1>9. \A p \in Qubits : p # q => Held(s, p) = Held(t, p)
  BY <1>1, <1>3 DEF Held
<1>10. ShowsSame(s, t)
  <2>1. Sound(s) /\ q \in Qubits /\ Sound(t) /\ run \in Seq(OpType)
    BY <1>1, <1>6
  <2> QED BY ONLY <1>4, <1>7, <1>8, <1>9, <2>1, EmittingShowsSame
<1> QED BY <1>10 DEF t

LEMMA FlushAllShows ==
  ASSUME NEW s, Sound(s), NEW q \in Qubits
  PROVE  ShowsSame(s, FlushAll(s, q))
<1> DEFINE t == FlushPi2(s, q)
<1>1. Sound(t) /\ ShowsSame(s, t)
  BY FlushPi2Keeps, FlushPi2Shows
<1>2. FlushAll(s, q) = FlushRz(t, q)
  BY DEF FlushAll
<1> HIDE DEF t
<1>3. ShowsSame(t, FlushRz(t, q))
  BY <1>1, FlushRzShows
<1> QED BY <1>1, <1>2, <1>3 DEF ShowsSame

LEMMA FlushEachShows ==
  ASSUME NEW s, Sound(s), NEW qs \in Seq(Qubits)
  PROVE  ShowsSame(s, FlushEach(s, qs))
<1> DEFINE n     == Len(qs)
           steps == [k \in 1 .. n |-> Flushed(qs[k])]
           S     == { t \in WalkStates : Sound(t) /\ ShowsSame(s, t) }
<1>1. n \in Nat /\ Len(steps) = n /\ \A k \in 1 .. n : steps[k] = Flushed(qs[k])
  BY LenProperties
<1>2. FlushEach(s, qs) = Through(s, steps)[n]
  BY DEF FlushEach
<1> HIDE DEF steps
<1>3. s \in S
  BY DEF Sound, ShowsSame
<1>4. ASSUME NEW k \in 1 .. n, NEW t \in S
      PROVE  steps[k][t] \in S
  <2>1. qs[k] \in Qubits
    BY ElementOfSeq
  <2>2. steps[k][t] = FlushAll(t, qs[k])
    BY <1>1 DEF Flushed
  <2>3. Sound(FlushAll(t, qs[k])) /\ ShowsSame(t, FlushAll(t, qs[k]))
    BY <2>1, FlushAllKeeps, FlushAllShows
  <2> QED BY <2>2, <2>3 DEF Sound, ShowsSame
<1>5. \A k \in 0 .. n : Through(s, steps)[k] \in S
  <2> HIDE DEF S
  <2> QED BY <1>1, <1>3, <1>4, ThroughKeeps
<1>6. n \in 0 .. n
  BY <1>1
<1> QED BY <1>2, <1>5, <1>6

LEMMA TotalZero ==
  ASSUME NEW f \in [Qubits -> Nat], \A p \in Qubits : f[p] = 0
  PROVE  Total(f) = 0
<1> DEFINE n   == Cardinality(Qubits)
           F   == Sums(f)
           bad == { k \in 0 .. n : F[k] # 0 }
<1>1. /\ n \in Nat /\ F[0] = 0
      /\ \A k \in 1 .. n : k - 1 \in Qubits /\ F[k] = F[k - 1] + f[k - 1]
  BY SumsStep
<1>2. Total(f) = F[n]
  BY DEF Total
<1> HIDE DEF n, F
<1>3. bad = {}
  <2> SUFFICES ASSUME bad # {} PROVE FALSE
    OBVIOUS
  <2>1. bad \in SUBSET Nat
    BY <1>1
  <2>2. PICK m \in bad : \A j \in bad : m <= j
    BY <2>1, NatSetHasLowest
  <2>3. m \in 0 .. n /\ F[m] # 0
    OBVIOUS
  <2>4. m # 0
    BY <1>1, <2>3
  <2>5. m \in 1 .. n /\ m - 1 \in 0 .. n /\ ~(m <= m - 1)
    BY <1>1, <2>3, <2>4
  <2>6. F[m - 1] = 0
    BY <2>2, <2>5
  <2> QED BY <1>1, <2>3, <2>5, <2>6
<1>4. n \in 0 .. n
  BY <1>1
<1> QED BY <1>2, <1>3, <1>4

(* The last flush: the module is then all there is to show.                *)
LEMMA FlushEveryShows ==
  ASSUME NEW s, Sound(s)
  PROVE  LET t == FlushEvery(s)
         IN  /\ Sound(t)
             /\ ShowsSame(s, t)
             /\ \A p \in Qubits : Nothing(t, p)
<1> DEFINE n  == Cardinality(Qubits)
           qs == [k \in 1 .. n |-> k - 1]
           t  == FlushEvery(s)
<1>1. n \in Nat /\ Qubits = 0 .. n - 1
  BY QubitsAssumption
<1>2. qs \in Seq(Qubits) /\ Len(qs) = n
      /\ \A p \in Qubits : p + 1 \in 1 .. n /\ p = qs[p + 1]
  <2> HIDE DEF n
  <2> QED BY <1>1
<1>3. t = FlushEach(s, qs)
  BY DEF FlushEvery
<1> HIDE DEF n, qs, t
<1>4. Sound(t) /\ \A i \in 1 .. n : Nothing(t, qs[i])
  BY <1>2, <1>3, FlushEachKeeps
<1>5. ShowsSame(s, t)
  BY <1>2, <1>3, FlushEachShows
<1> QED BY <1>2, <1>4, <1>5 DEF t

LEMMA NothingHeld ==
  ASSUME NEW s, Sound(s), \A p \in Qubits : Nothing(s, p)
  PROVE  /\ Load(s) = Len(s.out)
         /\ \A p \in Qubits : Shown(s, p) = On(s.out, p)
<1>1. ASSUME NEW p \in Qubits
      PROVE  Owed(s)[p] = 0 /\ Shown(s, p) = On(s.out, p)
  <2>1. Held(s, p) = << >> /\ On(s.out, p) \in Seq(OpType)
    BY HeldFacts
  <2>2. Owed(s)[p] = 0
    BY <2>1 DEF Owed
  <2> QED BY <2>1, <2>2, ConcatEmptySeq DEF Shown
<1>2. Total(Owed(s)) = 0
  BY <1>1, OwedFacts, TotalZero
<1>3. Len(s.out) \in Nat
  BY LenProperties DEF Sound
<1> QED BY <1>1, <1>2, <1>3 DEF Load

(* An op adds at most one to the size, and when it does it is the next op  *)
(* shown on each of its qubits.                                            *)
Grows(s, u, op) ==
  /\ Load(u) <= Load(s) + 1
  /\ Load(u) = Load(s) + 1 =>
       \A p \in Qubits : Shown(u, p) = IF p \in Touched(op)
                                       THEN Append(Shown(s, p), op)
                                       ELSE Shown(s, p)

LEMMA TotalIsNat ==
  ASSUME NEW f \in [Qubits -> Nat]
  PROVE  Total(f) \in Nat
<1> DEFINE n == Cardinality(Qubits)
<1>1. n \in Nat /\ \A k \in 0 .. n : Sums(f)[k] \in Nat
  BY SumsStep
<1> HIDE DEF n
<1>2. Sums(f)[n] \in Nat
  BY <1>1
<1> QED BY <1>2 DEF Total, n

LEMMA LoadIsNat ==
  ASSUME NEW s, Sound(s)
  PROVE  Load(s) \in Nat
<1> DEFINE a == Len(s.out)
           b == Total(Owed(s))
<1>1. a \in Nat
  BY LenProperties DEF Sound
<1>2. b \in Nat
  <2> DEFINE f == Owed(s)
  <2>1. f \in [Qubits -> Nat]
    BY OwedFacts
  <2> HIDE DEF f
  <2>2. Total(f) \in Nat
    BY <2>1, TotalIsNat
  <2> QED BY <2>2 DEF f
<1>3. Load(s) = a + b
  BY DEF Load
<1> HIDE DEF a, b
<1> QED BY <1>1, <1>2, <1>3

LEMMA GrowsFromSame ==
  ASSUME NEW s, NEW t, NEW u, NEW op, ShowsSame(s, t), Grows(t, u, op)
  PROVE  Grows(s, u, op)
BY DEF ShowsSame, Grows

LEMMA HoldingGrows ==
  ASSUME NEW s, Sound(s), NEW u, Sound(u), NEW q \in Qubits,
         NEW op \in OpType, Touched(op) = {q},
         u.out = s.out,
         \A p \in Qubits : p # q => Held(u, p) = Held(s, p),
         Len(Held(u, q)) <= Len(Held(s, q)) + 1,
         Len(Held(u, q)) = Len(Held(s, q)) + 1 =>
           Held(u, q) = Append(Held(s, q), op)
  PROVE  Grows(s, u, op)
<1> DEFINE x == Len(Held(s, q))
           y == Len(Held(u, q))
           o == Len(s.out)
           A == Total(Owed(s))
           B == Total(Owed(u))
<1>1. x \in Nat /\ y \in Nat /\ o \in Nat
  BY HeldFacts
<1>2. A \in Nat /\ B \in Nat /\ A + y = B + x
  <2> DEFINE f == Owed(s)
             g == Owed(u)
  <2>1. /\ f \in [Qubits -> Nat] /\ g \in [Qubits -> Nat]
        /\ f[q] = x /\ g[q] = y
        /\ \A p \in Qubits : p # q => f[p] = g[p]
    <3>1. f \in [Qubits -> Nat] /\ \A p \in Qubits : f[p] = Len(Held(s, p))
      BY OwedFacts
    <3>2. g \in [Qubits -> Nat] /\ \A p \in Qubits : g[p] = Len(Held(u, p))
      BY OwedFacts
    <3> QED BY <3>1, <3>2
  <2> HIDE DEF f, g, x, y
  <2>2. Total(f) \in Nat /\ Total(g) \in Nat /\ Total(f) + g[q] = Total(g) + f[q]
    BY <2>1, TotalChanges
  <2> QED BY <2>1, <2>2 DEF f, g
<1>3. Load(s) = o + A /\ Load(u) = o + B /\ y <= x + 1
  BY DEF Load
<1>4. ASSUME Load(u) = Load(s) + 1, NEW p \in Qubits
      PROVE  Shown(u, p) = IF p \in Touched(op) THEN Append(Shown(s, p), op)
                           ELSE Shown(s, p)
  <2>1. y = x + 1
    <3> HIDE DEF x, y, o, A, B
    <3> QED BY <1>1, <1>2, <1>3, <1>4
  <2>2. CASE p = q
    <3> DEFINE a == On(s.out, q)
               h == Held(s, q)
    <3>1. a \in Seq(OpType) /\ h \in Seq(OpType)
      BY HeldFacts
    <3>2. Shown(u, q) = a \o Append(h, op) /\ Shown(s, q) = a \o h
      BY <2>1 DEF Shown
    <3> HIDE DEF a, h
    <3>3. <<op>> \in Seq(OpType)
      OBVIOUS
    <3>4. a \o Append(h, op) = a \o (h \o <<op>>)
      BY <3>1, AppendIsConcat
    <3>5. a \o (h \o <<op>>) = (a \o h) \o <<op>>
      <4> DEFINE one == <<op>>
      <4> HIDE DEF one
      <4>1. one \in Seq(OpType)
        BY <3>3 DEF one
      <4> DEFINE T == OpType
      <4>2. a \in Seq(T) /\ h \in Seq(T) /\ one \in Seq(T)
        BY <3>1, <4>1
      <4> HIDE DEF T
      <4>3. (a \o h) \o one = a \o (h \o one)
        BY ONLY <4>2, ConcatAssociative
      <4> QED BY <4>3 DEF one
    <3>6. (a \o h) \o <<op>> = Append(a \o h, op)
      <4> DEFINE w == a \o h
      <4>1. w \in Seq(OpType)
        BY <3>1, ConcatProperties
      <4> HIDE DEF w
      <4>2. Append(w, op) = w \o <<op>>
        BY <4>1, AppendIsConcat
      <4> QED BY <4>2 DEF w
    <3> QED BY <2>2, <3>2, <3>4, <3>5, <3>6
  <2>3. CASE p # q
    BY <2>3 DEF Shown
  <2> QED BY <2>2, <2>3
<1>5. Load(u) <= Load(s) + 1
  <2> HIDE DEF x, y, o, A, B
  <2> QED BY <1>1, <1>2, <1>3
<1> QED BY <1>4, <1>5 DEF Grows

(* Rotations by whole turns more are emitted as one angle.                 *)
LEMMA NormalizedOfSum ==
  ASSUME NEW a \in Int, NEW b \in Int, Normalized(a) = 0
  PROVE  Normalized(a + b) = Normalized(b)
<1>1. a % Turn = 0
  BY NormalizedFacts DEF Exponent
<1>2. ((a % Turn) + b) % Turn = (a + b) % Turn
  BY RemainderOfSum
<1>3. 0 + b = b
  OBVIOUS
<1>4. (a + b) % Turn = b % Turn
  BY <1>1, <1>2, <1>3
<1> QED BY <1>4 DEF Normalized

LEMMA CanonicalFacts ==
  ASSUME NEW op \in PlainOps
  PROVE  /\ Canonical(op) \in OpType
         /\ op.kind # "rz" => Canonical(op) = op
         /\ op.kind = "rz" => Canonical(op) = Rz(Normalized(op.n), op.qs[1])
         /\ op.kind = "sx" => op = RunOp(1, op.qs[1])
         /\ op.kind = "sxdg" => op = RunOp(-1, op.qs[1])
         /\ op.kind \in {"rz", "sx", "sxdg"} => op.qs[1] \in Qubits
<1>1. op \in OpType /\ op.n \in Int /\ op.qs \in Seq(Qubits)
  BY DEF PlainOps, OpType
<1>n. op.kind \in {"sx", "sxdg"} => op.n = 0
  BY DEF PlainOps
<1>2. op = [kind |-> op.kind, qs |-> op.qs, n |-> op.n]
  BY <1>1 DEF OpType
<1>3. ASSUME op.kind \in {"rz", "sx", "sxdg"}
      PROVE  op.qs[1] \in Qubits /\ op.qs = <<op.qs[1]>>
  <2>1. Len(op.qs) = 1
    BY <1>3 DEF PlainOps
  <2> QED BY <1>1, <2>1
<1>4. CASE op.kind = "rz"
  <2>1. Normalized(op.n) \in Int
    BY <1>1, NormalizedFacts
  <2>2. Canonical(op) = [op EXCEPT !.n = Normalized(op.n)]
    BY <1>4 DEF Canonical
  <2>3. [op EXCEPT !.n = Normalized(op.n)] =
          [kind |-> op.kind, qs |-> op.qs, n |-> Normalized(op.n)]
    BY <1>1, <1>2
  <2>4. Canonical(op) = Rz(Normalized(op.n), op.qs[1])
    BY <1>3, <1>4, <2>2, <2>3 DEF Rz
  <2> QED BY <1>3, <1>4, <2>1, <2>4, RzFacts
<1>5. CASE op.kind # "rz"
  <2>1. Canonical(op) = op
    BY <1>5 DEF Canonical
  <2>2. op.kind = "sx" => op = RunOp(1, op.qs[1])
    BY <1>2, <1>3, <1>n DEF RunOp
  <2>3. op.kind = "sxdg" => op = RunOp(-1, op.qs[1])
    BY <1>2, <1>3, <1>n DEF RunOp
  <2> QED BY <1>1, <1>3, <1>5, <2>1, <2>2, <2>3
<1> QED BY <1>4, <1>5

LEMMA RotationGrows ==
  ASSUME NEW s, Sound(s), NEW op \in PlainOps, op.kind = "rz"
  PROVE  Grows(s, Visit(s, op), Canonical(op))
<1> DEFINE q == op.qs[1]
           a == op.n
           t == FlushPi2(s, q)
           u == Visit(s, op)
           c == Canonical(op)
<1>1. /\ q \in Qubits /\ c \in OpType /\ c = Rz(Normalized(a), q)
  BY CanonicalFacts
<1>2. a \in Int
  BY DEF PlainOps, OpType
<1>3. Sound(t) /\ ShowsSame(s, t) /\ t.pi2 = [s.pi2 EXCEPT ![q] = 0]
  BY <1>1, FlushPi2Keeps, FlushPi2Shows
<1>4. Sound(u)
  BY VisitKeeps
<1>5. u = State([t.rz EXCEPT ![q] = @ + a], t.pi2, t.out)
  BY DEF Visit, HoldRz
<1> HIDE DEF t, u, c, q, a
<1>6. /\ u.rz = [t.rz EXCEPT ![q] = @ + a]
      /\ u.pi2 = t.pi2 /\ u.out = t.out
  BY <1>5 DEF State
<1>7. t.rz \in [Qubits -> Int] /\ s.pi2 \in [Qubits -> Int]
  BY <1>3 DEF Sound, WalkStates
<1> DEFINE b == t.rz[q]
<1>8. b \in Int /\ u.rz[q] = b + a /\ t.pi2[q] = 0 /\ u.pi2[q] = 0
  BY <1>1, <1>3, <1>6, <1>7
<1>9. Held(t, q) = RzRun(b, q) /\ Held(u, q) = RzRun(u.rz[q], q)
  BY <1>1, <1>3, <1>4, <1>8, HeldFacts
<1> HIDE DEF b
<1>10. b + a \in Int
  BY <1>2, <1>8
<1>11. /\ Len(RzRun(b, q)) = IF Normalized(b) = 0 THEN 0 ELSE 1
       /\ Len(RzRun(b + a, q)) = IF Normalized(b + a) = 0 THEN 0 ELSE 1
  BY <1>1, <1>8, <1>10, RzFacts
<1>12. ASSUME Len(Held(u, q)) = Len(Held(t, q)) + 1
       PROVE  Held(u, q) = Append(Held(t, q), c)
  <2>1. Normalized(b) = 0 /\ Normalized(b + a) # 0
    BY <1>8, <1>9, <1>11, <1>12
  <2>2. Normalized(b + a) = Normalized(a)
    BY <1>2, <1>8, <2>1, NormalizedOfSum
  <2>3. Held(t, q) = << >>
    BY <1>9, <2>1 DEF RzRun
  <2>4. Held(u, q) = <<c>>
    BY <1>1, <1>8, <1>9, <2>1, <2>2 DEF RzRun
  <2> QED BY <2>3, <2>4
<1>13. Len(Held(u, q)) <= Len(Held(t, q)) + 1
  BY <1>8, <1>9, <1>11
<1>14. \A p \in Qubits : p # q => Held(u, p) = Held(t, p)
  BY <1>6, <1>7 DEF Held
<1>15. Touched(c) = {q}
  <2>1. Len(c.qs) = 1 /\ c.qs[1] = q
    BY <1>1 DEF Rz
  <2> QED BY <2>1 DEF Touched
<1>16. Grows(t, u, c)
  BY <1>1, <1>3, <1>4, <1>6, <1>12, <1>13, <1>14, <1>15, HoldingGrows
<1>17. Grows(s, u, c)
  BY <1>3, <1>16, GrowsFromSame
<1> QED BY <1>17 DEF u, c

LEMMA RootGrows ==
  ASSUME NEW s, Sound(s), NEW op \in PlainOps,
         op.kind \in {"sx", "sxdg"}
  PROVE  Grows(s, Visit(s, op), Canonical(op))
<1> DEFINE q == op.qs[1]
           k == IF op.kind = "sx" THEN 1 ELSE -1
           t == FlushRz(s, q)
           u == Visit(s, op)
           c == Canonical(op)
<1>1. q \in Qubits /\ c \in OpType /\ k \in {1, -1} /\ c = RunOp(k, q)
  BY CanonicalFacts
<1>2. Sound(t) /\ ShowsSame(s, t) /\ t.rz = [s.rz EXCEPT ![q] = 0]
  BY <1>1, FlushRzKeeps, FlushRzShows
<1>3. Sound(u)
  BY VisitKeeps
<1>4. u = State(t.rz, [t.pi2 EXCEPT ![q] = @ + k], t.out)
  BY DEF Visit, HoldPi2
<1> HIDE DEF t, u, c, q, k
<1>5. /\ u.pi2 = [t.pi2 EXCEPT ![q] = @ + k]
      /\ u.rz = t.rz /\ u.out = t.out
  BY <1>4 DEF State
<1>6. t.pi2 \in [Qubits -> Int] /\ s.rz \in [Qubits -> Int]
  BY <1>2 DEF Sound, WalkStates
<1> DEFINE n == t.pi2[q]
<1>7. n \in Int /\ u.pi2[q] = n + k /\ t.rz[q] = 0 /\ u.rz[q] = 0
  BY <1>1, <1>2, <1>5, <1>6
<1>8. Held(t, q) = Pi2Run(n, q) /\ Held(u, q) = Pi2Run(u.pi2[q], q)
  BY <1>1, <1>2, <1>3, <1>7, HeldFacts
<1> HIDE DEF n
<1>9. n + k \in Int
  BY <1>1, <1>7
<1>10. Len(Pi2Run(n, q)) = Size(n) /\ Len(Pi2Run(n + k, q)) = Size(n + k)
  BY <1>1, <1>7, <1>9, RunFacts
<1>11. /\ Size(n + k) <= Size(n) + 1
       /\ Size(n + k) = Size(n) + 1 => Pi2Run(n + k, q) = Append(Pi2Run(n, q), c)
  BY <1>1, <1>7, RunGrows
<1>12. \A p \in Qubits : p # q => Held(u, p) = Held(t, p)
  BY <1>5, <1>6 DEF Held
<1>13. Touched(c) = {q}
  <2>1. 1 \in Int /\ -1 \in Int
    OBVIOUS
  <2> QED BY <1>1, <2>1, RunFacts
<1>14. Grows(t, u, c)
  BY <1>1, <1>2, <1>3, <1>5, <1>7, <1>8, <1>10, <1>11, <1>12, <1>13, HoldingGrows
<1>15. Grows(s, u, c)
  BY <1>2, <1>14, GrowsFromSame
<1> QED BY <1>15 DEF u, c

LEMMA PassingGrows ==
  ASSUME NEW s, Sound(s), NEW op \in PlainOps,
         op.kind \notin {"rz", "sx", "sxdg"}
  PROVE  Grows(s, Visit(s, op), Canonical(op))
<1> DEFINE t == FlushEach(s, op.qs)
           u == Visit(s, op)
<1>1. op \in OpType /\ op.qs \in Seq(Qubits)
  BY DEF PlainOps, OpType
<1>2. Canonical(op) = op
  BY DEF Canonical
<1>3. /\ Sound(t) /\ ShowsSame(s, t)
      /\ \A i \in 1 .. Len(op.qs) : Nothing(t, op.qs[i])
  BY <1>1, FlushEachKeeps, FlushEachShows
<1>4. Sound(u)
  BY VisitKeeps
<1>5. Reemitted(op) = op
  BY <1>1 DEF Reemitted, PlainOps, OpType
<1>6. u = State(t.rz, t.pi2, Append(t.out, op))
  BY <1>5 DEF Visit, Pass
<1> HIDE DEF t, u
<1>7. u.rz = t.rz /\ u.pi2 = t.pi2 /\ u.out = Append(t.out, op)
  BY <1>6 DEF State
<1>8. \A p \in Qubits : Held(u, p) = Held(t, p)
  BY <1>7 DEF Held
<1>9. t.out \in Seq(OpType)
  BY <1>3 DEF Sound, WalkStates
<1>10. Load(u) = Load(t) + 1
  <2>1. Owed(u) = Owed(t)
    BY <1>8 DEF Owed
  <2>2. Len(t.out) \in Nat /\ Len(u.out) = Len(t.out) + 1
    BY <1>1, <1>7, <1>9, AppendProperties, LenProperties
  <2> DEFINE a == Len(t.out)
             b == Total(Owed(t))
  <2>3. Load(t) = a + b /\ Load(u) = (a + 1) + b /\ a \in Nat
    BY <2>1, <2>2 DEF Load
  <2>4. b \in Int
    <3> DEFINE f == Owed(t)
    <3>1. f \in [Qubits -> Nat]
      BY <1>3, OwedFacts
    <3> HIDE DEF f
    <3>2. Total(f) \in Nat
      BY <3>1, TotalIsNat
    <3> QED BY <3>2 DEF f
  <2> HIDE DEF a, b
  <2> QED BY <2>3, <2>4
<1>11. ASSUME NEW p \in Qubits
       PROVE  Shown(u, p) = IF p \in Touched(op) THEN Append(Shown(t, p), op)
                            ELSE Shown(t, p)
  <2>1. On(u.out, p) = IF p \in Touched(op) THEN Append(On(t.out, p), op)
                       ELSE On(t.out, p)
    <3> DEFINE ops == t.out
    <3> HIDE DEF ops
    <3>1. ops \in Seq(OpType)
      BY <1>9 DEF ops
    <3>2. On(Append(ops, op), p) = IF p \in Touched(op)
                                   THEN Append(On(ops, p), op) ELSE On(ops, p)
      BY <1>1, <3>1, OnFacts
    <3> QED BY <1>7, <3>2 DEF ops
  <2>2. CASE p \in Touched(op)
    <3>1. Nothing(t, p)
      BY <1>3, <2>2 DEF Touched
    <3>2. Held(t, p) = << >> /\ On(t.out, p) \in Seq(OpType)
      BY <1>3, <3>1, HeldFacts
    <3>3. Append(On(t.out, p), op) \in Seq(OpType)
      BY <1>1, <3>2, AppendProperties
    <3>4. Shown(t, p) = On(t.out, p)
      BY <3>2, ConcatEmptySeq DEF Shown
    <3>5. Shown(u, p) = Append(On(t.out, p), op)
      BY <1>8, <2>1, <2>2, <3>2, <3>3, ConcatEmptySeq DEF Shown
    <3> QED BY <2>2, <3>4, <3>5
  <2>3. CASE p \notin Touched(op)
    BY <1>8, <2>1, <2>3 DEF Shown
  <2> QED BY <2>2, <2>3
<1>12. Grows(t, u, op)
  <2>1. Load(u) <= Load(t) + 1
    BY <1>3, <1>10, LoadIsNat
  <2> QED BY <1>11, <2>1 DEF Grows
<1>13. Grows(s, u, op)
  BY <1>3, <1>12, GrowsFromSame
<1> QED BY <1>2, <1>13 DEF u

(* One iteration of the walk adds at most one to the size, and when it     *)
(* does it shows its op, by its normalised angle, on the qubits it touches. *)
LEMMA VisitGrows ==
  ASSUME NEW s, Sound(s), NEW op \in PlainOps
  PROVE  Grows(s, Visit(s, op), Canonical(op))
BY RotationGrows, RootGrows, PassingGrows

-----------------------------------------------------------------------------
(* Claims about every module: those that hold of the empty one, and of a   *)
(* module when they hold of it without its last op.                        *)
LEMMA ModuleInduction ==
  ASSUME NEW G, << >> \in G,
         \A w \in Seq(PlainOps), op \in PlainOps : w \in G => Append(w, op) \in G
  PROVE  \A w \in Seq(PlainOps) : w \in G
<1> DEFINE Bad == { k \in Nat : \E w \in Seq(PlainOps) : Len(w) = k /\ w \notin G }
<1> SUFFICES ASSUME NEW v \in Seq(PlainOps), v \notin G PROVE FALSE
  OBVIOUS
<1>1. Len(v) \in Bad
  BY LenProperties
<1>2. PICK m \in Bad : \A j \in Bad : m <= j
  BY <1>1, NatSetHasLowest
<1>3. PICK w \in Seq(PlainOps) : Len(w) = m /\ w \notin G
  OBVIOUS
<1>4. PICK u \in Seq(PlainOps), op \in PlainOps : w = Append(u, op)
  BY <1>3, SequenceEmptyOrAppend
<1>5. Len(u) \in Nat /\ Len(w) = Len(u) + 1
  BY <1>4, AppendProperties, LenProperties
<1>6. u \notin G
  BY <1>3, <1>4
<1>7. Len(u) \in Bad
  BY <1>5, <1>6
<1> QED BY <1>2, <1>3, <1>5, <1>7

(* The state of the pass at the end of its walk over a module.             *)
Walked(ops) ==
  Through(Start, [k \in 1 .. Len(ops) |-> Visited(ops[k])])[Len(ops)]

LEMMA WalkedFacts ==
  /\ Walked(<< >>) = Start
  /\ \A ops \in Seq(PlainOps) : Sound(Walked(ops))
  /\ \A ops \in Seq(PlainOps), op \in PlainOps :
       Walked(Append(ops, op)) = Visit(Walked(ops), op)
<1> DEFINE G == { w \in Seq(PlainOps) : Sound(Walked(w)) }
<1>1. Walked(<< >>) = Start
  <2>1. Len(<< >>) = 0 /\ [k \in 1 .. 0 |-> Visited(<< >>[k])] = << >>
    OBVIOUS
  <2>2. Len(<< >>) \in Nat
    BY <2>1
  <2>3. Through(Start, << >>)[0] = Start
    BY <2>2, ThroughSteps
  <2> QED BY <2>1, <2>3 DEF Walked
<1>2. ASSUME NEW ops \in Seq(PlainOps), NEW op \in PlainOps
      PROVE  Walked(Append(ops, op)) = Visited(op)[Walked(ops)]
  <2> DEFINE n     == Len(ops)
             ext   == Append(ops, op)
             steps == [k \in 1 .. n |-> Visited(ops[k])]
             more  == [k \in 1 .. Len(ext) |-> Visited(ext[k])]
  <2>1. /\ n \in Nat /\ Len(ext) = n + 1
        /\ \A i \in 1 .. n : ext[i] = ops[i]
        /\ ext[n + 1] = op
    BY LenProperties, AppendProperties
  <2> HIDE DEF ext
  <2>2. /\ Len(steps) = n /\ Len(more) = n + 1
        /\ \A k \in 1 .. n : more[k] = steps[k]
        /\ more[n + 1] = Visited(op)
    BY <2>1
  <2>3. Walked(ops) = Through(Start, steps)[n]
        /\ Walked(ext) = Through(Start, more)[n + 1]
    BY <2>1 DEF Walked
  <2> HIDE DEF steps, more
  <2>5. n \in Nat
    BY <2>1
  <2> HIDE DEF n
  <2>6. Through(Start, more)[n + 1] = more[n + 1][Through(Start, steps)[n]]
    BY ONLY <2>2, <2>5, ThroughOneMore
  <2>4. Walked(ext) = Visited(op)[Walked(ops)]
    BY ONLY <2>2, <2>3, <2>6
  <2> QED BY <2>4 DEF ext
<1>3. ASSUME NEW ops \in Seq(PlainOps), NEW op \in PlainOps, Sound(Walked(ops))
      PROVE  Walked(Append(ops, op)) = Visit(Walked(ops), op)
  <2>1. Walked(ops) \in WalkStates
    BY <1>3 DEF Sound
  <2> QED BY <1>2, <2>1 DEF Visited
<1>4. << >> \in G
  BY <1>1, StartIsSound, EmptySeq
<1>5. ASSUME NEW w \in Seq(PlainOps), NEW op \in PlainOps, w \in G
      PROVE  Append(w, op) \in G
  <2>1. Append(w, op) \in Seq(PlainOps)
    BY AppendProperties
  <2>2. Sound(Visit(Walked(w), op))
    BY <1>5, VisitKeeps
  <2> QED BY <1>3, <1>5, <2>1, <2>2
<1>6. \A w \in Seq(PlainOps) : w \in G
  <2> HIDE DEF G
  <2> QED BY <1>4, <1>5, ModuleInduction
<1> QED BY <1>1, <1>3, <1>6

LEMMA CleanedIsFlushed ==
  ASSUME NEW ops \in Seq(PlainOps)
  PROVE  /\ Cleaned(ops) = FlushEvery(Walked(ops)).out
         /\ Load(Walked(ops)) = Len(Cleaned(ops))
         /\ \A p \in Qubits : Shown(Walked(ops), p) = On(Cleaned(ops), p)
<1> DEFINE s == Walked(ops)
           t == FlushEvery(s)
<1>1. Sound(s)
  BY WalkedFacts
<1>2. Cleaned(ops) = t.out
  BY DEF Cleaned, Walked
<1> HIDE DEF s
<1>3. Sound(t) /\ ShowsSame(s, t) /\ \A p \in Qubits : Nothing(t, p)
  BY <1>1, FlushEveryShows
<1> HIDE DEF t
<1>4. /\ Load(t) = Len(t.out)
      /\ \A p \in Qubits : Shown(t, p) = On(t.out, p)
  BY <1>3, NothingHeld
<1> QED BY <1>2, <1>3, <1>4 DEF ShowsSame, s, t

(* The ops of a module by their normalised angles.                         *)
LEMMA CanonicalIsPlain ==
  ASSUME NEW op \in PlainOps
  PROVE  /\ Canonical(op) \in PlainOps
         /\ Canonical(op) \in OpType
         /\ Canonical(op).kind = op.kind /\ Canonical(op).qs = op.qs
         /\ Touched(Canonical(op)) = Touched(op)
         /\ op.kind = "rz" => Canonical(op).n = Normalized(op.n)
         /\ op.kind # "rz" => Canonical(op) = op
<1>1. op \in OpType /\ op.n \in Int
  BY DEF PlainOps, OpType
<1>2. CASE op.kind = "rz"
  <2>1. /\ Canonical(op).kind = op.kind /\ Canonical(op).qs = op.qs
        /\ Canonical(op).n = Normalized(op.n)
    BY <1>1, <1>2 DEF Canonical, OpType
  <2>2. Canonical(op) \in OpType
    BY CanonicalFacts
  <2>3. Canonical(op) \in PlainOps
    BY <1>2, <2>1, <2>2 DEF PlainOps, AngleAttribute
  <2> QED BY <1>2, <2>1, <2>2, <2>3 DEF Touched
<1>3. CASE op.kind # "rz"
  BY <1>1, <1>3 DEF Canonical
<1> QED BY <1>2, <1>3

LEMMA CanonicalsGrow ==
  ASSUME NEW ops \in Seq(PlainOps)
  PROVE  /\ Canonicals(ops) \in Seq(PlainOps) /\ Canonicals(ops) \in Seq(OpType)
         /\ Len(Canonicals(ops)) = Len(ops)
         /\ Canonicals(<< >>) = << >>
         /\ \A op \in PlainOps : Canonicals(Append(ops, op)) =
                                   Append(Canonicals(ops), Canonical(op))
<1>1. ASSUME NEW w \in Seq(PlainOps)
      PROVE  /\ Canonicals(w) \in Seq(PlainOps) /\ Canonicals(w) \in Seq(OpType)
             /\ Len(w) \in Nat /\ Len(Canonicals(w)) = Len(w)
             /\ \A i \in 1 .. Len(w) : Canonicals(w)[i] = Canonical(w[i])
  <2>1. Len(w) \in Nat /\ \A i \in 1 .. Len(w) : w[i] \in PlainOps
    BY LenProperties, ElementOfSeq
  <2>2. \A i \in 1 .. Len(w) : Canonical(w[i]) \in PlainOps
    BY <2>1, CanonicalIsPlain
  <2>3. Canonicals(w) \in [1 .. Len(w) -> PlainOps]
    BY <2>2 DEF Canonicals
  <2>4. Canonicals(w) \in Seq(PlainOps) /\ Len(Canonicals(w)) = Len(w)
    BY <2>1, <2>3
  <2>5. Canonicals(w) \in Seq(OpType)
    BY <2>4, SeqMonotonic DEF PlainOps
  <2>6. \A i \in 1 .. Len(w) : Canonicals(w)[i] = Canonical(w[i])
    BY DEF Canonicals
  <2> QED BY <2>1, <2>4, <2>5, <2>6
<1>2. ASSUME NEW op \in PlainOps
      PROVE  Canonicals(Append(ops, op)) = Append(Canonicals(ops), Canonical(op))
  <2> DEFINE n    == Len(ops)
             more == Append(ops, op)
             cs   == Canonicals(ops)
             c    == Canonical(op)
             s    == Canonicals(more)
             t    == Append(cs, c)
  <2>1. /\ n \in Nat /\ Len(more) = n + 1 /\ more \in Seq(PlainOps)
        /\ \A i \in 1 .. n : more[i] = ops[i]
        /\ more[n + 1] = op
    BY LenProperties, AppendProperties
  <2> HIDE DEF more
  <2>2. /\ cs \in Seq(PlainOps) /\ c \in PlainOps /\ Len(cs) = n
        /\ \A i \in 1 .. n : cs[i] = Canonical(ops[i])
    BY <1>1, CanonicalIsPlain
  <2>3. /\ s \in Seq(PlainOps) /\ Len(s) = n + 1
        /\ \A i \in 1 .. n + 1 : s[i] = Canonical(more[i])
    BY <1>1, <2>1
  <2> HIDE DEF cs, s
  <2>4. /\ t \in Seq(PlainOps) /\ Len(t) = n + 1
        /\ \A i \in 1 .. n : t[i] = cs[i]
        /\ t[n + 1] = c
    <3> HIDE DEF c
    <3> QED BY <2>2, AppendProperties
  <2> HIDE DEF t
  <2>5. ASSUME NEW i \in 1 .. n + 1
        PROVE  s[i] = t[i]
    <3>1. CASE i = n + 1
      BY <2>1, <2>3, <2>4, <3>1
    <3>2. CASE i # n + 1
      <4>1. i \in 1 .. n
        BY <2>1, <3>2
      <4> QED BY <2>1, <2>2, <2>3, <2>4, <4>1
    <3> QED BY <3>1, <3>2
  <2>6. s = t
    BY <2>3, <2>4, <2>5, SeqEqual
  <2> QED BY <2>6 DEF s, t, cs, c, more
<1>3. Canonicals(<< >>) = << >>
  BY DEF Canonicals
<1> QED BY <1>1, <1>2, <1>3

(* A module never gets longer from Cleanup, and when it stays as long      *)
(* nothing was merged: every qubit has the ops it had, angles normalised.  *)
THEOREM CleanupNeverLengthens ==
  ASSUME NEW ops \in Seq(PlainOps)
  PROVE  /\ Len(Cleaned(ops)) <= Len(ops)
         /\ Len(Cleaned(ops)) = Len(ops) =>
              \A p \in Qubits : On(Cleaned(ops), p) = On(Canonicals(ops), p)
<1> DEFINE Sized(w) ==
             /\ Load(Walked(w)) <= Len(w)
             /\ Load(Walked(w)) = Len(w) =>
                  \A p \in Qubits : Shown(Walked(w), p) = On(Canonicals(w), p)
           G == { w \in Seq(PlainOps) : Sized(w) }
<1>1. << >> \in G
  <2> DEFINE s == Start
  <2>1. s.out = << >> /\ Sound(s) /\ \A p \in Qubits : Nothing(s, p)
    BY StartIsSound DEF Start, State, Nothing
  <2>2. Walked(<< >>) = s /\ Canonicals(<< >>) = << >>
    BY WalkedFacts DEF Canonicals
  <2> HIDE DEF s
  <2>3. Load(s) = Len(s.out) /\ \A p \in Qubits : Shown(s, p) = On(s.out, p)
    BY <2>1, NothingHeld
  <2>4. << >> \in Seq(PlainOps) /\ Len(<< >>) = 0
    BY EmptySeq
  <2>5. Sized(<< >>)
    BY <2>1, <2>2, <2>3, <2>4
  <2> QED BY <2>4, <2>5
<1>2. ASSUME NEW w \in Seq(PlainOps), NEW op \in PlainOps, w \in G
      PROVE  Append(w, op) \in G
  <2> DEFINE s  == Walked(w)
             u  == Walked(Append(w, op))
             c  == Canonical(op)
             cs == Canonicals(w)
             m  == Len(w)
  <2>1. Sound(s) /\ u = Visit(s, op) /\ Append(w, op) \in Seq(PlainOps)
    BY WalkedFacts, AppendProperties
  <2>2. /\ Load(s) <= m
        /\ Load(s) = m => \A p \in Qubits : Shown(s, p) = On(cs, p)
    BY <1>2
  <2>3. m \in Nat /\ Len(Append(w, op)) = m + 1
    BY LenProperties, AppendProperties
  <2>4. c \in OpType /\ cs \in Seq(OpType)
        /\ Canonicals(Append(w, op)) = Append(cs, c)
    BY CanonicalIsPlain, CanonicalsGrow
  <2> HIDE DEF s, c, cs, m
  <2>5. Grows(s, u, c) /\ Sound(u)
    BY <2>1, VisitGrows, VisitKeeps DEF c
  <2> HIDE DEF u
  <2>6. Load(s) \in Nat /\ Load(u) \in Nat
    BY <2>1, <2>5, LoadIsNat
  <2>7. Load(u) <= Load(s) + 1
    BY <2>5 DEF Grows
  <2>8. ASSUME Load(u) = m + 1, NEW p \in Qubits
        PROVE  Shown(u, p) = On(Append(cs, c), p)
    <3>1. Load(s) = m /\ Load(u) = Load(s) + 1
      BY <2>2, <2>3, <2>6, <2>7, <2>8
    <3>2. Shown(u, p) = IF p \in Touched(c) THEN Append(Shown(s, p), c)
                        ELSE Shown(s, p)
      BY <2>5, <3>1 DEF Grows
    <3>3. On(Append(cs, c), p) = IF p \in Touched(c) THEN Append(On(cs, p), c)
                                 ELSE On(cs, p)
      BY <2>4, OnFacts
    <3> QED BY <2>2, <3>1, <3>2, <3>3
  <2>9. Load(u) <= m + 1
    BY <2>2, <2>3, <2>6, <2>7
  <2>10. Sized(Append(w, op))
    BY <2>3, <2>4, <2>8, <2>9 DEF u
  <2> QED BY <2>1, <2>10
<1>3. \A w \in Seq(PlainOps) : w \in G
  <2> HIDE DEF G
  <2> QED BY <1>1, <1>2, ModuleInduction
<1>4. Sized(ops)
  BY <1>3
<1> QED BY <1>4, CleanedIsFlushed

-----------------------------------------------------------------------------
(* What the pass makes of the ops of a qubit depends on these ops alone,   *)
(* by their normalised angles.  First, what a step does at one qubit.      *)
SameAt(s, t, p) ==
  On(t.out, p) = On(s.out, p) /\ t.pi2[p] = s.pi2[p] /\ t.rz[p] = s.rz[p]

LEMMA FlushAllApart ==
  ASSUME NEW s, Sound(s), NEW q \in Qubits, NEW p \in Qubits, p # q
  PROVE  SameAt(s, FlushAll(s, q), p)
<1> DEFINE t == FlushPi2(s, q)
<1>1. Sound(t) /\ t.rz = s.rz /\ t.pi2 = [s.pi2 EXCEPT ![q] = 0]
  BY FlushPi2Keeps
<1>2. On(t.out, p) = On(s.out, p)
  BY FlushPi2At
<1>3. FlushAll(s, q) = FlushRz(t, q)
  BY DEF FlushAll
<1> HIDE DEF t
<1> DEFINE u == FlushRz(t, q)
<1>4. u.rz = [t.rz EXCEPT ![q] = 0] /\ u.pi2 = t.pi2
  BY <1>1, FlushRzKeeps
<1>5. On(u.out, p) = On(t.out, p)
  BY <1>1, FlushRzAt
<1> HIDE DEF u
<1>6. s.pi2 \in [Qubits -> Int] /\ s.rz \in [Qubits -> Int]
  BY DEF Sound, WalkStates
<1> QED BY <1>1, <1>2, <1>3, <1>4, <1>5, <1>6 DEF SameAt, u

LEMMA FlushEachApart ==
  ASSUME NEW s, Sound(s), NEW qs \in Seq(Qubits), NEW p \in Qubits,
         \A i \in 1 .. Len(qs) : qs[i] # p
  PROVE  SameAt(s, FlushEach(s, qs), p)
<1> DEFINE n     == Len(qs)
           steps == [k \in 1 .. n |-> Flushed(qs[k])]
           S     == { t \in WalkStates : Sound(t) /\ SameAt(s, t, p) }
<1>1. n \in Nat /\ Len(steps) = n /\ \A k \in 1 .. n : steps[k] = Flushed(qs[k])
  BY LenProperties
<1>2. FlushEach(s, qs) = Through(s, steps)[n]
  BY DEF FlushEach
<1> HIDE DEF steps
<1>3. s \in S
  BY DEF Sound, SameAt
<1>4. ASSUME NEW k \in 1 .. n, NEW t \in S
      PROVE  steps[k][t] \in S
  <2>1. qs[k] \in Qubits /\ qs[k] # p
    BY ElementOfSeq
  <2>2. steps[k][t] = FlushAll(t, qs[k])
    BY <1>1 DEF Flushed
  <2>3. Sound(FlushAll(t, qs[k])) /\ SameAt(t, FlushAll(t, qs[k]), p)
    BY <2>1, FlushAllKeeps, FlushAllApart
  <2> QED BY <2>2, <2>3 DEF Sound, SameAt
<1>5. \A k \in 0 .. n : Through(s, steps)[k] \in S
  <2> HIDE DEF S
  <2> QED BY <1>1, <1>3, <1>4, ThroughKeeps
<1>6. n \in 0 .. n
  BY <1>1
<1> QED BY <1>2, <1>5, <1>6

Root(op) == IF op.kind = "sx" THEN 1 ELSE -1

LEMMA VisitAt ==
  ASSUME NEW s, Sound(s), NEW op \in PlainOps, NEW p \in Qubits
  PROVE  LET u == Visit(s, op)
         IN  /\ p \notin Touched(op) => SameAt(s, u, p)
             /\ p \in Touched(op) /\ op.kind = "rz" =>
                  /\ On(u.out, p) = On(s.out, p) \o Pi2Run(s.pi2[p], p)
                  /\ u.pi2[p] = 0 /\ u.rz[p] = s.rz[p] + op.n
             /\ p \in Touched(op) /\ op.kind \in {"sx", "sxdg"} =>
                  /\ On(u.out, p) = On(s.out, p) \o RzRun(s.rz[p], p)
                  /\ u.pi2[p] = s.pi2[p] + Root(op) /\ u.rz[p] = 0
             /\ p \in Touched(op) /\ op.kind \notin {"rz", "sx", "sxdg"} =>
                  /\ On(u.out, p) = Append(Shown(s, p), op)
                  /\ Nothing(u, p)
<1> DEFINE u == Visit(s, op)
           q == op.qs[1]
<1>1. op \in OpType /\ op.qs \in Seq(Qubits) /\ op.n \in Int
  BY DEF PlainOps, OpType
<1>2. op.kind \in {"rz", "sx", "sxdg"} => q \in Qubits /\ Touched(op) = {q}
  <2>1. op.kind \in {"rz", "sx", "sxdg"} => Len(op.qs) = 1
    BY DEF PlainOps
  <2>2. Len(op.qs) = 1 => Touched(op) = {q}
    BY DEF Touched
  <2> QED BY <2>1, <2>2, CanonicalFacts
<1>3. s.pi2 \in [Qubits -> Int] /\ s.rz \in [Qubits -> Int]
  BY DEF Sound, WalkStates
<1>4. CASE op.kind = "rz"
  <2> DEFINE t == FlushPi2(s, q)
  <2>1. q \in Qubits /\ Touched(op) = {q}
    BY <1>2, <1>4
  <2>2. /\ t.rz = s.rz /\ t.pi2 = [s.pi2 EXCEPT ![q] = 0]
        /\ On(t.out, p) = IF p = q THEN On(s.out, p) \o Pi2Run(s.pi2[q], q)
                          ELSE On(s.out, p)
    BY <2>1, FlushPi2Keeps, FlushPi2At
  <2>3. u = State([t.rz EXCEPT ![q] = @ + op.n], t.pi2, t.out)
    BY <1>4 DEF Visit, HoldRz
  <2> HIDE DEF t, u, q
  <2>4. u.rz = [t.rz EXCEPT ![q] = @ + op.n] /\ u.pi2 = t.pi2 /\ u.out = t.out
    BY <2>3 DEF State
  <2>5. p # q => SameAt(s, u, p)
    BY <1>3, <2>1, <2>2, <2>4 DEF SameAt
  <2>6. p = q => /\ On(u.out, p) = On(s.out, p) \o Pi2Run(s.pi2[p], p)
                 /\ u.pi2[p] = 0 /\ u.rz[p] = s.rz[p] + op.n
    BY <1>1, <1>3, <2>1, <2>2, <2>4
  <2> QED BY <1>4, <2>1, <2>5, <2>6 DEF u
<1>5. CASE op.kind \in {"sx", "sxdg"}
  <2> DEFINE t == FlushRz(s, q)
             k == Root(op)
  <2>1. q \in Qubits /\ Touched(op) = {q}
    BY <1>2, <1>5
  <2>2. /\ t.pi2 = s.pi2 /\ t.rz = [s.rz EXCEPT ![q] = 0]
        /\ On(t.out, p) = IF p = q THEN On(s.out, p) \o RzRun(s.rz[q], q)
                          ELSE On(s.out, p)
    BY <2>1, FlushRzKeeps, FlushRzAt
  <2>3. u = State(t.rz, [t.pi2 EXCEPT ![q] = @ + k], t.out)
    BY <1>5 DEF Visit, HoldPi2, Root
  <2> HIDE DEF t, u, q, k
  <2>4. u.pi2 = [t.pi2 EXCEPT ![q] = @ + k] /\ u.rz = t.rz /\ u.out = t.out
    BY <2>3 DEF State
  <2>5. p # q => SameAt(s, u, p)
    BY <1>3, <2>1, <2>2, <2>4 DEF SameAt
  <2>6. p = q => /\ On(u.out, p) = On(s.out, p) \o RzRun(s.rz[p], p)
                 /\ u.pi2[p] = s.pi2[p] + k /\ u.rz[p] = 0
    BY <1>3, <2>1, <2>2, <2>4
  <2> QED BY <1>5, <2>1, <2>5, <2>6 DEF u, k
<1>6. CASE op.kind \notin {"rz", "sx", "sxdg"}
  <2> DEFINE t == FlushEach(s, op.qs)
  <2>1. /\ Sound(t) /\ ShowsSame(s, t)
        /\ \A i \in 1 .. Len(op.qs) : Nothing(t, op.qs[i])
    BY <1>1, FlushEachKeeps, FlushEachShows
  <2>2. p \notin Touched(op) => SameAt(s, t, p)
    BY <1>1, FlushEachApart DEF Touched
  <2>3. Reemitted(op) = op
    BY <1>1 DEF Reemitted, PlainOps, OpType
  <2>4. u = State(t.rz, t.pi2, Append(t.out, op))
    BY <1>6, <2>3 DEF Visit, Pass
  <2> HIDE DEF t, u
  <2>5. u.rz = t.rz /\ u.pi2 = t.pi2 /\ u.out = Append(t.out, op)
    BY <2>4 DEF State
  <2>6. On(u.out, p) = IF p \in Touched(op) THEN Append(On(t.out, p), op)
                       ELSE On(t.out, p)
    <3> DEFINE ops == t.out
    <3>1. ops \in Seq(OpType)
      BY <2>1 DEF Sound, WalkStates
    <3> HIDE DEF ops
    <3>2. On(Append(ops, op), p) = IF p \in Touched(op)
                                   THEN Append(On(ops, p), op) ELSE On(ops, p)
      BY <1>1, <3>1, OnFacts
    <3> QED BY <2>5, <3>2 DEF ops
  <2>7. ASSUME p \in Touched(op)
        PROVE  On(u.out, p) = Append(Shown(s, p), op) /\ Nothing(u, p)
    <3>1. Nothing(t, p)
      BY <2>1, <2>7 DEF Touched
    <3>2. Held(t, p) = << >> /\ On(t.out, p) \in Seq(OpType)
      BY <2>1, <3>1, HeldFacts
    <3>3. Shown(t, p) = On(t.out, p)
      BY <3>2, ConcatEmptySeq DEF Shown
    <3> QED BY <2>1, <2>5, <2>6, <2>7, <3>1, <3>3 DEF ShowsSame, Nothing
  <2>8. p \notin Touched(op) => SameAt(s, u, p)
    BY <2>2, <2>5, <2>6 DEF SameAt
  <2> QED BY <1>6, <2>7, <2>8 DEF u
<1> QED BY <1>4, <1>5, <1>6

(* Two states alike at a qubit, for all the pass will make of them there.  *)
Alike(s, t, p) ==
  /\ On(t.out, p) = On(s.out, p)
  /\ t.pi2[p] = s.pi2[p]
  /\ t.rz[p] % Turn = s.rz[p] % Turn

LEMMA AlikeShows ==
  ASSUME NEW s, Sound(s), NEW t, Sound(t), NEW p \in Qubits, Alike(s, t, p)
  PROVE  /\ RzRun(t.rz[p], p) = RzRun(s.rz[p], p)
         /\ Shown(t, p) = Shown(s, p)
<1>1. Normalized(t.rz[p]) = Normalized(s.rz[p])
  BY DEF Alike, Normalized
<1>2. RzRun(t.rz[p], p) = RzRun(s.rz[p], p)
  BY <1>1 DEF RzRun
<1>3. Held(t, p) = Held(s, p)
  BY <1>2 DEF Held, Alike
<1> QED BY <1>2, <1>3 DEF Shown, Alike

LEMMA VisitsAlike ==
  ASSUME NEW s, Sound(s), NEW t, Sound(t), NEW p \in Qubits, Alike(s, t, p),
         NEW op \in PlainOps, NEW more \in PlainOps,
         Canonical(op) = Canonical(more), p \in Touched(op)
  PROVE  Alike(Visit(s, op), Visit(t, more), p)
<1> DEFINE u == Visit(s, op)
           v == Visit(t, more)
<1>1. /\ op.kind = more.kind /\ Touched(op) = Touched(more)
      /\ op.kind # "rz" => op = more
      /\ op.kind = "rz" => Normalized(op.n) = Normalized(more.n)
  BY CanonicalIsPlain
<1>2. /\ RzRun(t.rz[p], p) = RzRun(s.rz[p], p) /\ Shown(t, p) = Shown(s, p)
      /\ On(t.out, p) = On(s.out, p) /\ t.pi2[p] = s.pi2[p]
      /\ t.rz[p] % Turn = s.rz[p] % Turn
  BY AlikeShows DEF Alike
<1>3. CASE op.kind = "rz"
  <2> DEFINE a == op.n
             b == more.n
             x == s.rz[p]
             y == t.rz[p]
  <2>1. a \in Int /\ b \in Int /\ x \in Int /\ y \in Int
    BY HeldFacts DEF PlainOps, OpType
  <2>2. /\ On(u.out, p) = On(s.out, p) \o Pi2Run(s.pi2[p], p)
        /\ u.pi2[p] = 0 /\ u.rz[p] = x + a
    BY <1>3, VisitAt
  <2>3. /\ On(v.out, p) = On(t.out, p) \o Pi2Run(t.pi2[p], p)
        /\ v.pi2[p] = 0 /\ v.rz[p] = y + b
    <3>1. more.kind = "rz" /\ p \in Touched(more)
      BY <1>1, <1>3
    <3> HIDE DEF u
    <3> QED BY <3>1, VisitAt
  <2>4. (y + b) % Turn = (x + a) % Turn
    <3>1. y % Turn = x % Turn /\ Normalized(a) = Normalized(b)
      BY <1>1, <1>2, <1>3
    <3> HIDE DEF a, b, x, y
    <3>2. a % Turn = b % Turn
      BY <2>1, <3>1, NormalizedFacts DEF Exponent
    <3>3. /\ ((y % Turn) + b) % Turn = (y + b) % Turn
          /\ ((x % Turn) + b) % Turn = (x + b) % Turn
          /\ ((b % Turn) + x) % Turn = (b + x) % Turn
          /\ ((a % Turn) + x) % Turn = (a + x) % Turn
      BY <2>1, RemainderOfSum
    <3>4. x + b = b + x /\ a + x = x + a
      BY <2>1
    <3> QED BY <3>1, <3>2, <3>3, <3>4
  <2> HIDE DEF u, v
  <2> QED BY <1>2, <2>2, <2>3, <2>4 DEF Alike, u, v
<1>4. CASE op.kind \in {"sx", "sxdg"}
  <2>1. /\ On(u.out, p) = On(s.out, p) \o RzRun(s.rz[p], p)
        /\ u.pi2[p] = s.pi2[p] + Root(op) /\ u.rz[p] = 0
    BY <1>4, VisitAt
  <2>2. /\ On(v.out, p) = On(t.out, p) \o RzRun(t.rz[p], p)
        /\ v.pi2[p] = t.pi2[p] + Root(op) /\ v.rz[p] = 0
    BY <1>1, <1>4, VisitAt
  <2> HIDE DEF u, v
  <2> QED BY <1>2, <2>1, <2>2 DEF Alike, u, v
<1>5. CASE op.kind \notin {"rz", "sx", "sxdg"}
  <2>1. On(u.out, p) = Append(Shown(s, p), op) /\ Nothing(u, p)
    BY <1>5, VisitAt
  <2>2. On(v.out, p) = Append(Shown(t, p), op) /\ Nothing(v, p)
    BY <1>1, <1>5, VisitAt
  <2> HIDE DEF u, v
  <2> QED BY <1>2, <2>1, <2>2 DEF Alike, Nothing, u, v
<1> QED BY <1>3, <1>4, <1>5

-----------------------------------------------------------------------------
(* The ops of a qubit by their normalised angles: all that the pass sees   *)
(* of a module when it comes to the qubit.                                 *)
Seen(ops, p) == Canonicals(On(ops, p))

LEMMA CanonicalTwice ==
  ASSUME NEW op \in PlainOps
  PROVE  Canonical(Canonical(op)) = Canonical(op)
<1> DEFINE c == Canonical(op)
<1>1. /\ c \in PlainOps /\ c \in OpType /\ c.kind = op.kind
      /\ op.kind = "rz" => c.n = Normalized(op.n)
  BY CanonicalIsPlain
<1>2. op.n \in Int
  BY DEF PlainOps, OpType
<1> HIDE DEF c
<1>3. CASE op.kind = "rz"
  <2> DEFINE a == op.n
             b == Normalized(a)
  <2>1. a \in Int /\ c.n = b
    BY <1>1, <1>2, <1>3
  <2> HIDE DEF a
  <2>2. b % Turn = a % Turn
    BY <2>1, NormalizedFacts DEF Exponent
  <2>3. Normalized(b) = b
    BY <2>2 DEF Normalized
  <2> HIDE DEF b
  <2>4. Canonical(c) = [c EXCEPT !.n = c.n]
    BY <1>1, <1>3, <2>1, <2>3 DEF Canonical
  <2>5. [c EXCEPT !.n = c.n] = c
    BY <1>1 DEF OpType
  <2> QED BY <2>4, <2>5 DEF c
<1>4. CASE op.kind # "rz"
  BY <1>1, <1>4 DEF Canonical, c
<1> QED BY <1>3, <1>4

LEMMA PlainIsTyped ==
  ASSUME NEW w \in Seq(PlainOps)
  PROVE  w \in Seq(OpType)
BY SeqMonotonic DEF PlainOps

LEMMA SeenStarts ==
  ASSUME NEW p
  PROVE  On(<< >>, p) = << >> /\ Seen(<< >>, p) = << >>
<1>1. On(<< >>, p) = << >>
  <2>1. Len(<< >>) = 0 /\ [k \in 1 .. 0 |-> KeepStep(p, << >>[k])] = << >>
    OBVIOUS
  <2>2. Len(<< >>) \in Nat
    BY <2>1
  <2>3. Through(<< >>, << >>)[0] = << >>
    BY <2>2, ThroughSteps
  <2> QED BY <2>1, <2>3 DEF On
<1> QED BY <1>1 DEF Seen, Canonicals

LEMMA OnIsPlain ==
  ASSUME NEW p
  PROVE  \A w \in Seq(PlainOps) : On(w, p) \in Seq(PlainOps)
<1> DEFINE G == { w \in Seq(PlainOps) : On(w, p) \in Seq(PlainOps) }
<1>1. << >> \in G
  BY SeenStarts, EmptySeq
<1>2. ASSUME NEW w \in Seq(PlainOps), NEW op \in PlainOps, w \in G
      PROVE  Append(w, op) \in G
  <2>1. w \in Seq(OpType) /\ op \in OpType
    BY PlainIsTyped DEF PlainOps
  <2>2. On(Append(w, op), p) = IF p \in Touched(op) THEN Append(On(w, p), op)
                               ELSE On(w, p)
    BY <2>1, OnFacts
  <2>3. On(w, p) \in Seq(PlainOps)
    BY <1>2
  <2>4. Append(On(w, p), op) \in Seq(PlainOps) /\ Append(w, op) \in Seq(PlainOps)
    BY <2>3, AppendProperties
  <2> QED BY <2>2, <2>3, <2>4
<1>3. \A w \in Seq(PlainOps) : w \in G
  <2> HIDE DEF G
  <2> QED BY <1>1, <1>2, ModuleInduction
<1> QED BY <1>3

LEMMA SeenGrows ==
  ASSUME NEW w \in Seq(PlainOps), NEW op \in PlainOps, NEW p
  PROVE  /\ Seen(w, p) \in Seq(PlainOps)
         /\ Seen(Append(w, op), p) = IF p \in Touched(op)
                                     THEN Append(Seen(w, p), Canonical(op))
                                     ELSE Seen(w, p)
<1> DEFINE a == On(w, p)
<1>1. a \in Seq(PlainOps)
  BY OnIsPlain
<1>2. w \in Seq(OpType) /\ op \in OpType
  BY PlainIsTyped DEF PlainOps
<1>3. On(Append(w, op), p) = IF p \in Touched(op) THEN Append(a, op) ELSE a
  BY <1>2, OnFacts
<1> HIDE DEF a
<1>4. /\ Canonicals(a) \in Seq(PlainOps)
      /\ Canonicals(Append(a, op)) = Append(Canonicals(a), Canonical(op))
  BY <1>1, CanonicalsGrow
<1> QED BY <1>3, <1>4 DEF Seen, a

LEMMA SeenOfCanonicals ==
  ASSUME NEW p
  PROVE  \A w \in Seq(PlainOps) : Seen(Canonicals(w), p) = Seen(w, p)
<1> DEFINE G == { w \in Seq(PlainOps) : Seen(Canonicals(w), p) = Seen(w, p) }
<1>1. << >> \in G
  BY EmptySeq DEF Canonicals
<1>2. ASSUME NEW w \in Seq(PlainOps), NEW op \in PlainOps, w \in G
      PROVE  Append(w, op) \in G
  <2> DEFINE cs == Canonicals(w)
             c  == Canonical(op)
  <2>1. /\ cs \in Seq(PlainOps) /\ c \in PlainOps
        /\ Canonicals(Append(w, op)) = Append(cs, c)
        /\ Touched(c) = Touched(op) /\ Canonical(c) = c
    BY CanonicalsGrow, CanonicalIsPlain, CanonicalTwice
  <2>2. Seen(cs, p) = Seen(w, p)
    BY <1>2
  <2> HIDE DEF cs, c
  <2>3. Seen(Append(cs, c), p) = IF p \in Touched(c)
                                 THEN Append(Seen(cs, p), Canonical(c))
                                 ELSE Seen(cs, p)
    BY <2>1, SeenGrows
  <2>4. Seen(Append(w, op), p) = IF p \in Touched(op)
                                 THEN Append(Seen(w, p), c)
                                 ELSE Seen(w, p)
    BY SeenGrows DEF c
  <2>5. Append(w, op) \in Seq(PlainOps)
    BY AppendProperties
  <2>6. Canonical(c) = c /\ Touched(c) = Touched(op)
    BY <2>1
  <2>7. Seen(Append(cs, c), p) = Seen(Append(w, op), p)
    BY <2>2, <2>3, <2>4, <2>6
  <2> QED BY <2>1, <2>5, <2>7
<1>3. \A w \in Seq(PlainOps) : w \in G
  <2> HIDE DEF G
  <2> QED BY <1>1, <1>2, ModuleInduction
<1> QED BY <1>3

LEMMA WalkSeesItsOps ==
  ASSUME NEW p \in Qubits
  PROVE  \A w \in Seq(PlainOps) : Alike(Walked(w), Walked(Seen(w, p)), p)
<1> DEFINE G == { w \in Seq(PlainOps) : Alike(Walked(w), Walked(Seen(w, p)), p) }
<1>1. << >> \in G
  BY SeenStarts, EmptySeq DEF Alike
<1>2. ASSUME NEW w \in Seq(PlainOps), NEW op \in PlainOps, w \in G
      PROVE  Append(w, op) \in G
  <2> DEFINE s == Walked(w)
             v == Seen(w, p)
             t == Walked(v)
             c == Canonical(op)
             u == Visit(s, op)
  <2>1. /\ v \in Seq(PlainOps)
        /\ Seen(Append(w, op), p) = IF p \in Touched(op) THEN Append(v, c) ELSE v
    BY SeenGrows
  <2>2. c \in PlainOps /\ Canonical(op) = Canonical(c)
    BY CanonicalIsPlain, CanonicalTwice
  <2>3. Alike(s, t, p) /\ Append(w, op) \in Seq(PlainOps)
    BY <1>2, AppendProperties
  <2> HIDE DEF v, c
  <2>4. Sound(s) /\ Sound(t) /\ Walked(Append(w, op)) = u
    BY <2>1, WalkedFacts
  <2>5. Walked(Append(v, c)) = Visit(t, c)
    BY <2>1, <2>2, WalkedFacts
  <2> HIDE DEF s, t
  <2>6. CASE p \in Touched(op)
    <3>1. Alike(u, Visit(t, c), p)
      BY <2>2, <2>3, <2>4, <2>6, VisitsAlike
    <3> QED BY <2>1, <2>3, <2>4, <2>5, <2>6, <3>1
  <2>7. CASE p \notin Touched(op)
    <3>1. SameAt(s, u, p)
      BY <2>4, <2>7, VisitAt
    <3> HIDE DEF u
    <3>2. Alike(u, t, p)
      BY <2>3, <3>1 DEF SameAt, Alike
    <3> QED BY <2>1, <2>3, <2>4, <2>7, <3>2 DEF t
  <2> QED BY <2>6, <2>7
<1>3. \A w \in Seq(PlainOps) : w \in G
  <2> HIDE DEF G
  <2> QED BY <1>1, <1>2, ModuleInduction
<1> QED BY <1>3

(* Two modules that give a qubit the same ops, the angles up to whole      *)
(* turns, give it the same ops after Cleanup, whatever they do elsewhere.  *)
LEMMA CleanupIsLocal ==
  ASSUME NEW v \in Seq(PlainOps), NEW w \in Seq(PlainOps), NEW p \in Qubits,
         Seen(v, p) = Seen(w, p)
  PROVE  On(Cleaned(v), p) = On(Cleaned(w), p)
<1> DEFINE z == Seen(w, p)
           r == Walked(v)
           s == Walked(w)
           t == Walked(z)
<1>1. z \in Seq(PlainOps)
  BY OnIsPlain, CanonicalsGrow DEF Seen
<1>2. Alike(r, t, p) /\ Alike(s, t, p)
  BY WalkSeesItsOps
<1> HIDE DEF z
<1>3. Sound(r) /\ Sound(s) /\ Sound(t)
  BY <1>1, WalkedFacts
<1>4. Shown(r, p) = On(Cleaned(v), p) /\ Shown(s, p) = On(Cleaned(w), p)
  BY CleanedIsFlushed
<1> HIDE DEF r, s, t
<1>5. Shown(t, p) = Shown(r, p) /\ Shown(t, p) = Shown(s, p)
  BY <1>2, <1>3, AlikeShows
<1> QED BY <1>4, <1>5

(* What Cleanup::run would do with a module, qubit by qubit: nothing.      *)
Settled(ops) == \A p \in Qubits : On(Cleaned(ops), p) = On(ops, p)

(* A module that Cleanup leaves as long as it was comes out of it in a     *)
(* form that another Cleanup leaves as it is, on every qubit: what the     *)
(* loops conclude from a size that has stopped falling.                    *)
THEOREM UnchangedSizeIsFixedPoint ==
  ASSUME NEW ops \in Seq(PlainOps), Len(Cleaned(ops)) = Len(ops)
  PROVE  Settled(Cleaned(ops))
<1> SUFFICES ASSUME NEW p \in Qubits
             PROVE  On(Cleaned(Cleaned(ops)), p) = On(Cleaned(ops), p)
  BY DEF Settled
<1> DEFINE v == Cleaned(ops)
           w == Canonicals(ops)
<1>1. v \in Seq(PlainOps)
  BY CleanupKeepsEffect
<1>2. On(v, p) = On(w, p)
  BY CleanupNeverLengthens
<1>3. Seen(w, p) = Seen(ops, p)
  BY SeenOfCanonicals
<1> HIDE DEF w
<1>4. Seen(v, p) = Seen(ops, p)
  BY <1>2, <1>3 DEF Seen
<1> HIDE DEF v
<1>5. On(Cleaned(v), p) = On(Cleaned(ops), p)
  BY <1>1, <1>4, CleanupIsLocal
<1> QED BY <1>5 DEF v
=============================================================================
