--------------------------- MODULE PhotonMeaning ---------------------------
(***************************************************************************)
(* What a Photon program does, for the properties: the word of operations  *)
(* on the qubits it allocates, for each outcome of its ifs, and what the   *)
(* routines of the library promise.  Nothing here is code.                 *)
(***************************************************************************)
EXTENDS PhononIR

CONSTANTS
  Literals, Identifiers, NoValue,
  Field, Zeta  \* a prime, and a root of unity modulo it: exp(i pi / Turn)

Lib == INSTANCE PhotonLibrary
M   == INSTANCE PhononMeaning

(* The value of an expression, by where it splits: at the last sum outside *)
(* parentheses, else at the last product, else as a sign or a parenthesis. *)
Balance(t, i) ==
  Cardinality({ j \in 1 .. i : t[j] = "(" }) - Cardinality({ j \in 1 .. i : t[j] = ")" })

SplitAt(t, signs) ==
  LET at == { i \in 2 .. Len(t) : /\ t[i] \in signs /\ Balance(t, i) = 0
                                  /\ t[i - 1] \notin {"+", "-", "*", "/"} }
  IN  IF at = {} THEN 0 ELSE CHOOSE i \in at : \A j \in at : j <= i

LOCAL Sign(a) == IF a < 0 THEN -1 ELSE 1

RECURSIVE Value(_, _)
Value(t, consts) ==
  LET sum  == SplitAt(t, {"+", "-"})
      prod == SplitAt(t, {"*", "/"})
      i    == IF sum # 0 THEN sum ELSE prod
      left(k)  == Value(SubSeq(t, 1, k - 1), consts)
      right(k) == Value(SubSeq(t, k + 1, Len(t)), consts)
  IN  CASE Len(t) = 1 -> IF t[1] \in DOMAIN Literals THEN Literals[t[1]] ELSE consts[t[1]]
        [] i # 0 /\ t[i] = "+" -> left(i) + right(i)
        [] i # 0 /\ t[i] = "-" -> left(i) - right(i)
        [] i # 0 /\ t[i] = "*" -> left(i) * right(i)
        [] i # 0 /\ t[i] = "/" ->
             Sign(left(i)) * Sign(right(i))
               * ((Sign(left(i)) * left(i)) \div (Sign(right(i)) * right(i)))
        [] t[1] = "-" -> -right(1)
        [] OTHER -> Value(SubSeq(t, 2, Len(t) - 1), consts)
-----------------------------------------------------------------------------
Opens == {"kernel", "def", "for", "if"}

Level(p, i, j) ==
  Cardinality({ k \in i .. j : p[k].kind \in Opens })
    - Cardinality({ k \in i .. j : p[k].kind = "end" })

EndOf(p, i) == CHOOSE j \in i .. Len(p) :
                 Level(p, i, j) = 0 /\ \A k \in i .. j - 1 : Level(p, i, k) > 0

ElseOf(p, i) ==
  LET elses == { j \in i .. EndOf(p, i) : p[j].kind = "else" /\ Level(p, i, j) = 1 }
  IN  IF elses = {} THEN EndOf(p, i) ELSE CHOOSE j \in elses : TRUE

(* An if is one conditional of the module, a teleportation two.            *)
IfsBefore(p, i) ==
  Cardinality({ j \in 1 .. i - 1 : p[j].kind = "if" })
    + 2 * Cardinality({ j \in 1 .. i - 1 : p[j].kind = "call" /\ p[j].method = "teleport" })

SetTo(f, name, v) == [x \in DOMAIN f \cup {name} |-> IF x = name THEN v ELSE f[x]]

Letter(kind, n, qs) == [kind |-> kind, n |-> n, qs |-> qs]

Alias == [cnot |-> "cx", hadamard |-> "h", phase |-> "s"]

(* The letters a call adds, given the wires of its register.               *)
CallWord(p, i, wires, values, taken) ==
  LET s    == p[i]
      kind == IF s.method \in DOMAIN Alias THEN Alias[s.method] ELSE s.method
      on(idx) == [k \in DOMAIN idx |-> wires[idx[k] + 1]]
  IN  IF kind \in GateKinds
      THEN LET two   == kind \in TwoQubitGates
               angle == kind \in {"rx", "ry", "rz", "gpi"}
           IN  << Letter(kind, IF angle THEN values[1] ELSE 0,
                         on(IF two THEN <<values[1], values[2]>>
                            ELSE IF angle THEN <<values[2]>> ELSE <<values[1]>>)) >>
      ELSE IF s.method \notin Lib!Routines THEN << >>
      ELSE LET gates == Lib!Expansion(s.method, Len(wires), values)
               stmts == [k \in DOMAIN gates |-> [gates[k] EXCEPT !.qs = on(@)]]
           IN  M!WordOf(stmts, { k \in 1 .. 2 : k + IfsBefore(p, i) \in taken })

RECURSIVE Run(_, _, _, _, _), Repeat(_, _, _, _, _, _, _)

(* Statements i to j of p, from a state of the program: the word so far,   *)
(* the wires of each register, the variables, the qubits allocated.        *)
Run(p, i, j, st, taken) ==
  IF i > j THEN st
  ELSE
    LET s    == p[i]
        m    == EndOf(p, i)
        then(to, next) == Run(p, next, j, to, taken)
        val(k) == Value(s.args[k], st.ints)
    IN  CASE s.kind \in {"kernel", "def"} ->
               LET fresh == [st EXCEPT !.ints = [x \in {} |-> 0],
                                       !.regs = [x \in Range(s.args) |-> <<x>>]]
                   after == Run(p, i + 1, m - 1, fresh, taken)
               IN  then(IF s.kind = "kernel" /\ s.args = << >> THEN after
                        ELSE [after EXCEPT !.word = st.word], m + 1)
          [] s.kind = "qreg" ->
               then([st EXCEPT !.count = @ + val(1),
                               !.regs = SetTo(@, s.name,
                                   SubSeq(Register, st.count + 1, st.count + val(1)))], i + 1)
          [] s.kind \in {"int", "assign"} ->
               then([st EXCEPT !.ints = SetTo(@, s.name, val(1))], i + 1)
          [] s.kind = "call" ->
               then([st EXCEPT !.word = @ \o CallWord(p, i, st.regs[s.name],
                       [k \in DOMAIN s.args |-> val(k)], taken)], i + 1)
          [] s.kind \in {"measure", "return"} ->
               then([st EXCEPT !.word = @ \o
                       IF s.name = "" THEN << >>
                       ELSE [k \in DOMAIN st.regs[s.name] |->
                               Letter("measure", 0, <<st.regs[s.name][k]>>)]], i + 1)
          [] s.kind = "if" ->
               then(IF IfsBefore(p, i) + 1 \in taken
                    THEN Run(p, i + 1, ElseOf(p, i) - 1, st, taken)
                    ELSE Run(p, ElseOf(p, i) + 1, m - 1, st, taken), m + 1)
          [] s.kind = "for" ->
               LET after == Repeat(p, i, m, st, val(1), val(2), taken)
               IN  then([after EXCEPT !.ints =
                           IF s.name \in DOMAIN st.ints THEN SetTo(@, s.name, st.ints[s.name])
                           ELSE [x \in DOMAIN @ \ {s.name} |-> @[x]]], m + 1)

(* The iterations of the loop from i to m for the values v to hi - 1.      *)
Repeat(p, i, m, st, v, hi, taken) ==
  IF v >= hi THEN st
  ELSE Repeat(p, i, m,
         Run(p, i + 1, m - 1, [st EXCEPT !.ints = SetTo(@, p[i].name, v)], taken),
         v + 1, hi, taken)

Said(p, taken) ==
  Run(p, 1, Len(p), [word |-> << >>, regs |-> [x \in {} |-> << >>],
                     ints |-> [x \in {} |-> 0], count |-> 0], taken).word
-----------------------------------------------------------------------------
(* States of n qubits, the first the highest bit of their numbers, as      *)
(* amplitudes modulo Field without their positive normalising factor.      *)
Powers[k \in 0 .. 2 * Turn - 1] ==
  IF k = 0 THEN 1 ELSE (Zeta * Powers[k - 1]) % Field

E(a) == Powers[a % (2 * Turn)]

(* exp(2 i pi k / 2^n).                                                    *)
Root(n, k) == E(((2 * Turn) \div 2^n) * k)

BitOf(b, n, i)   == (b \div 2^(n - 1 - i)) % 2
Set(b, n, i, v)  == b + (v - BitOf(b, n, i)) * 2^(n - 1 - i)
Flip(b, n, i)    == Set(b, n, i, 1 - BitOf(b, n, i))

(* One gate or measurement, of which outcome says what was seen.           *)
Step(sv, n, g, outcome, b) ==
  LET i == g.qs[1]
      j == g.qs[2]
      one(k) == BitOf(b, n, k) = 1
  IN  CASE g.kind = "h"    -> sv[Set(b, n, i, 0)] + (IF one(i) THEN -1 ELSE 1) * sv[Set(b, n, i, 1)]
        [] g.kind = "x"    -> sv[Flip(b, n, i)]
        [] g.kind = "z"    -> IF one(i) THEN -sv[b] ELSE sv[b]
        [] g.kind = "rz"   -> E(IF one(i) THEN g.n ELSE -g.n) * sv[b]
        [] g.kind = "cx"   -> sv[IF one(i) THEN Flip(b, n, j) ELSE b]
        [] g.kind = "cz"   -> IF one(i) /\ one(j) THEN -sv[b] ELSE sv[b]
        [] g.kind = "swap" -> sv[Set(Set(b, n, i, BitOf(b, n, j)), n, j, BitOf(b, n, i))]
        [] g.kind = "measure" -> IF BitOf(b, n, i) = outcome[i] THEN sv[b] ELSE 0

Simulated(word, n, outcome, x) ==
  LET States == [0 .. 2^n - 1 -> 0 .. Field - 1]
      run[k \in 1 .. Len(word) + 1, sv \in States] ==
        IF k > Len(word) THEN sv
        ELSE run[k + 1, [b \in 0 .. 2^n - 1 |-> Step(sv, n, word[k], outcome, b) % Field]]
  IN  run[1, [b \in 0 .. 2^n - 1 |-> IF b = x THEN 1 ELSE 0]]

(* Columns that are equal up to one factor.                                *)
Proportional(u, v) ==
  \E x \in DOMAIN u : \E y \in DOMAIN u[x] :
    /\ u[x][y] # 0 /\ v[x][y] # 0
    /\ \A w \in DOMAIN u : \A z \in DOMAIN u[w] :
         (u[w][z] * v[x][y]) % Field = (v[w][z] * u[x][y]) % Field

(* What a routine promises of a register that starts in state x, for the   *)
(* starts it says something about.                                         *)
Starts(method, n) ==
  CASE method \in {"bell_pair", "ghz", "grover"} -> {0}
    [] method = "teleport" -> {0, 4}
    [] OTHER -> 0 .. 2^n - 1

Promise(method, n, outcome, x) ==
  [y \in 0 .. 2^n - 1 |->
    CASE method = "bell_pair" -> IF y \in {0, 2^n - 1} THEN 1 ELSE 0
      [] method = "ghz"       -> IF y \in {0, 2^n - 1} THEN 1 ELSE 0
      [] method = "grover"    -> 1
      [] method = "qft"       -> Root(n, x * y)
      [] method = "iqft"      -> Root(n, -(x * y))
      [] method = "teleport"  -> IF y = outcome[0] * 4 + outcome[1] * 2 + x \div 4 THEN 1 ELSE 0]

(* The word of a module that is one call, with indices for wires.          *)
Indexed(word) ==
  [k \in DOMAIN word |->
     [word[k] EXCEPT !.qs = [l \in DOMAIN @ |->
        (CHOOSE i \in DOMAIN Register : Register[i] = @[l]) - 1]]]

KeepsPromise(method, n, word, outcome) ==
  Proportional([x \in Starts(method, n) |-> Simulated(Indexed(word), n, outcome, x)],
               [x \in Starts(method, n) |-> Promise(method, n, outcome, x)])
=============================================================================
