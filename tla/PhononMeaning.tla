--------------------------- MODULE PhononMeaning ----------------------------
(***************************************************************************)
(* What a Phonon program does, for the properties: the word of quantum     *)
(* operations it performs on the register, for each outcome of its ifs.    *)
(* Nothing here is code; an iteration of a loop takes the branches the     *)
(* first one took.                                                         *)
(***************************************************************************)
EXTENDS PhononIR

(* The else of the if opened at i, its end if it has none.                 *)
ElseOf(p, i) ==
  LET elses == { j \in i + 1 .. MatchOf(p, i) :
                   p[j].kind = "else" /\ Depth(p, "if", i, j) = 1 }
  IN  IF elses = {} THEN MatchOf(p, i) ELSE CHOOSE j \in elses : TRUE

IfsUpTo(p, i) == Cardinality({ j \in 1 .. i : p[j].kind = "if" })

(* Statements first to last of p, of whose ifs those numbered in `taken`   *)
(* are taken, with `names` saying which wire a name stands for.            *)
Word(p, first, last, names, taken) ==
  LET word[i \in 1 .. Len(p) + 1, j \in 0 .. Len(p), env \in [Names -> Names]] ==
        IF i > j THEN << >>
        ELSE
          LET s == p[i]
              m == MatchOf(p, i)
          IN  CASE s.kind = "def" -> word[m + 1, j, env]
                [] s.kind = "for" ->
                     FlattenSeq([k \in 1 .. s.n |-> word[i + 1, m - 1, env]])
                       \o word[m + 1, j, env]
                [] s.kind = "if" ->
                     (IF IfsUpTo(p, i) \in taken THEN word[i + 1, ElseOf(p, i) - 1, env]
                      ELSE word[ElseOf(p, i) + 1, m - 1, env]) \o word[m + 1, j, env]
                [] s.kind = "call" ->
                     LET d == DefOf(p, s.name)
                         inner == [x \in Names |->
                                     IF d # 0 /\ x \in Range(p[d].qs)
                                     THEN env[s.qs[CHOOSE k \in DOMAIN p[d].qs :
                                                     p[d].qs[k] = x]]
                                     ELSE env[x]]
                     IN  (IF d = 0 THEN << >>
                          ELSE word[d + 1, MatchOf(p, d) - 1, inner]) \o word[i + 1, j, env]
                [] OTHER ->
                     << [kind |-> s.kind, n |-> s.n,
                         qs |-> [k \in DOMAIN s.qs |-> env[s.qs[k]]]] >>
                       \o word[i + 1, j, env]
  IN  word[first, last, names]

WordOf(p, taken) == Word(p, 1, Len(p), [x \in Names |-> x], taken)
-----------------------------------------------------------------------------
(* A module read back as statements: every value belongs to the register   *)
(* element or parameter it was made from.                                  *)

Passed(lineage, op) ==
  [v \in DOMAIN lineage |->
     IF v \notin Range(op.out) THEN lineage[v]
     ELSE LET k == CHOOSE k \in DOMAIN op.out : op.out[k] = v
          IN  IF op.kind \in {"alloc", "def"} THEN op.qs[k] ELSE lineage[op.in[k]]]

(* Op i ends the then branch of an if that has an else.                    *)
BeforeElse(ops, i) ==
  \E b \in 1 .. i : /\ ops[b].kind = "if" /\ b + ops[b].n = i
                    /\ i + 1 < MatchOf(ops, b)

StatementsOf(ops) ==
  LET read(st, i) ==
        LET op == ops[i]
            s  == [kind |-> op.kind, n |-> op.n, name |-> op.name,
                   qs |-> IF op.kind = "def" THEN op.qs
                          ELSE [k \in DOMAIN op.in |-> st.lineage[op.in[k]]]]
            else == [kind |-> "else", n |-> 0, name |-> "", qs |-> << >>]
        IN  [lineage |-> Passed(st.lineage, op),
             text |-> st.text \o (IF op.kind = "alloc" THEN << >> ELSE <<s>>)
                              \o (IF BeforeElse(ops, i) THEN <<else>> ELSE << >>)]
  IN  FoldLeft(read, [lineage |-> [v \in ValuesOf(ops) |-> ""], text |-> << >>],
               [i \in 1 .. Len(ops) |-> i]).text
-----------------------------------------------------------------------------
(* Equal effect: words equal once inverses have cancelled and rotations    *)
(* have been added, whatever the order of operations on different wires.   *)

Touches(a, w) == w \in Range(a.qs)

Undoes(a, b) ==
  /\ a.qs = b.qs
  /\ \/ a.kind = b.kind /\ a.kind \in {"h", "x", "z", "cx", "cz", "swap"}
     \/ {a.kind, b.kind} = {"s", "sdg"}

(* The last letter of u that shares a wire with a, 0 if there is none.     *)
LastMet(u, a) ==
  LET met == { i \in DOMAIN u : Range(u[i].qs) \cap Range(a.qs) # {} }
  IN  IF met = {} THEN 0 ELSE CHOOSE i \in met : \A j \in met : j <= i

Extended(u, a) ==
  LET i == LastMet(u, a)
  IN  IF i # 0 /\ Undoes(u[i], a) THEN RemoveAt(u, i)
      ELSE IF i # 0 /\ a.kind \in {"rx", "ry", "rz"} /\ u[i].kind = a.kind /\ u[i].qs = a.qs
      THEN IF (u[i].n + a.n) % Turn = 0 THEN RemoveAt(u, i)
           ELSE [u EXCEPT ![i].n = (u[i].n + a.n) % Turn]
      ELSE Append(u, IF a.kind \in {"rx", "ry", "rz"} THEN [a EXCEPT !.n = @ % Turn] ELSE a)

ReducedWord(word) == FoldLeft(Extended, << >>, word)

SameEffect(u, v) ==
  \A w \in Wires :
    SelectSeq(ReducedWord(u), LAMBDA a : Touches(a, w))
      = SelectSeq(ReducedWord(v), LAMBDA a : Touches(a, w))
=============================================================================
