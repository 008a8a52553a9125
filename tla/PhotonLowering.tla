--------------------------- MODULE PhotonLowering ---------------------------
(***************************************************************************)
(* The Photon parser and its lowering to Phonon, statement by statement.   *)
(* The parser reads a whole text before any of it is lowered; an error of  *)
(* either leaves no module, so the two are taken together.                 *)
(*                                                                         *)
(* A statement has a kind, a name (of a function, a register or a          *)
(* variable), a method and arguments, which are expressions but for the    *)
(* parameters of a function; "end" closes the innermost block.             *)
(*                                                                         *)
(* An expression is a sequence of tokens, parsed by descent into a tree    *)
(* and folded to an integer.  Comparisons, calls and reals are left out:   *)
(* they fold to nothing.  A name is a token like any other.                *)
(***************************************************************************)
EXTENDS PhononIR

CONSTANTS
  Literals,      \* the value of each integer token
  Identifiers,   \* tokens that are names
  NoValue,       \* of an expression that does not fold
  MaxStatements, \* bound on those that close no block
  MaxNesting     \* bound on open blocks

(* A parse: the tree of what was read and the position after it, which is  *)
(* none after an error.                                                    *)
Parsed(tree, at) == [tree |-> tree, at |-> at]
Tree(op, kids)   == [op |-> op, kids |-> kids]
Failed           == Parsed(Tree("error", << >>), 0)
Token(t, at)     == IF at \in 1 .. Len(t) THEN t[at] ELSE ""

RECURSIVE ParseAdd(_, _), ParseMul(_, _), ParseUnary(_, _)
RECURSIVE AddTail(_, _), MulTail(_, _)

ParsePrimary(t, at) ==
  CASE Token(t, at) \in DOMAIN Literals \cup Identifiers ->
         Parsed(Tree(t[at], << >>), at + 1)
    [] Token(t, at) = "(" ->
         LET inner == ParseAdd(t, at + 1)
         IN  IF Token(t, inner.at) = ")" THEN Parsed(inner.tree, inner.at + 1)
             ELSE Failed
    [] OTHER -> Failed

ParseUnary(t, at) ==
  IF Token(t, at) = "-"
  THEN LET r == ParseUnary(t, at + 1) IN Parsed(Tree("neg", <<r.tree>>), r.at)
  ELSE ParsePrimary(t, at)

MulTail(t, lhs) ==
  IF Token(t, lhs.at) \notin {"*", "/"} THEN lhs
  ELSE LET r == ParseUnary(t, lhs.at + 1)
       IN  MulTail(t, Parsed(Tree(t[lhs.at], <<lhs.tree, r.tree>>), r.at))

ParseMul(t, at) == MulTail(t, ParseUnary(t, at))

AddTail(t, lhs) ==
  IF Token(t, lhs.at) \notin {"+", "-"} THEN lhs
  ELSE LET r == ParseMul(t, lhs.at + 1)
       IN  AddTail(t, Parsed(Tree(t[lhs.at], <<lhs.tree, r.tree>>), r.at))

ParseAdd(t, at) == AddTail(t, ParseMul(t, at))

(* Division drops the fraction.                                            *)
Quotient(a, b) ==
  LET q == (IF a < 0 THEN -a ELSE a) \div (IF b < 0 THEN -b ELSE b)
  IN  IF (a < 0) = (b < 0) THEN q ELSE -q

RECURSIVE FoldTree(_, _)

(* foldInt, with consts the integer variables known by now.                *)
FoldTree(e, consts) ==
  LET kid(k) == FoldTree(e.kids[k], consts)
  IN  CASE e.op \in DOMAIN Literals -> Literals[e.op]
        [] e.op \in Identifiers ->
             IF e.op \in DOMAIN consts THEN consts[e.op] ELSE NoValue
        [] \E k \in DOMAIN e.kids : kid(k) = NoValue -> NoValue
        [] e.op = "neg" -> -kid(1)
        [] e.op = "+" -> kid(1) + kid(2)
        [] e.op = "-" -> kid(1) - kid(2)
        [] e.op = "*" -> kid(1) * kid(2)
        [] e.op = "/" -> IF kid(2) = 0 THEN NoValue ELSE Quotient(kid(1), kid(2))

(* A statement goes on after its expression with a token that ends it.     *)
Parses(t) == ParseAdd(t, 1).at = Len(t) + 1

FoldInt(t, consts) == FoldTree(ParseAdd(t, 1).tree, consts)
-----------------------------------------------------------------------------
Lib == INSTANCE PhotonLibrary

VARIABLES
  text,       \* the statements read
  ops,        \* out, the Phonon module
  qslots,     \* the values of the registers declared
  intConsts,  \* the integer variables known
  blocks,     \* the blocks being read, the function first
  fatal,      \* an error that ends the work
  errors      \* an error was reported

photonVars == <<text, ops, qslots, intConsts, blocks, fatal, errors>>

NoNames == [x \in {} |-> x]

Init ==
  /\ text = << >> /\ ops = << >>
  /\ qslots = NoNames /\ intConsts = NoNames
  /\ blocks = << >>
  /\ fatal = FALSE /\ errors = FALSE

Room == Len(SelectSeq(text, LAMBDA s : s.kind # "end")) < MaxStatements

InDef == blocks # << >> /\ blocks[1].kind = "def"

Block(kind, var, saved) ==
  [kind |-> kind, at |-> Len(ops) + 1, var |-> var, saved |-> saved]

Bind(f, name, v) == [x \in DOMAIN f \cup {name} |-> IF x = name THEN v ELSE f[x]]
Unbind(f, name)  == [x \in DOMAIN f \ {name} |-> f[x]]

Fold(e) == FoldInt(e, intConsts)

(* A slip: the error ends the work and is not reported.                    *)
FailSilently ==
  /\ fatal' = TRUE
  /\ UNCHANGED <<ops, qslots, intConsts, blocks, errors>>

(* err, which sets fatal.                                                  *)
Fail ==
  /\ fatal' = TRUE /\ errors' = TRUE
  /\ UNCHANGED <<ops, qslots, intConsts, blocks>>

Fine == UNCHANGED <<fatal, errors>>
-----------------------------------------------------------------------------
(* An op on elements of a register: st holds the module and the values of  *)
(* the register, and the values made replace those taken.                  *)
Applied(st, g) ==
  LET made == FreshValues(st.ops, Results(g))
      in   == [k \in DOMAIN g.qs |-> st.slots[g.qs[k] + 1]]
      new(i) == { k \in DOMAIN made : g.qs[k] = i - 1 }
  IN  [ops   |-> Append(st.ops, Op(g.kind, in, made, g.n, g.name, << >>)),
       slots |-> [i \in DOMAIN st.slots |->
                    IF new(i) = {} THEN st.slots[i]
                    ELSE made[CHOOSE k \in new(i) : \A l \in new(i) : l <= k]]]

Applying(reg, gates) ==
  LET st == FoldLeft(Applied, [ops |-> ops, slots |-> qslots[reg]], gates)
  IN  /\ ops' = st.ops
      /\ qslots' = [qslots EXCEPT ![reg] = st.slots]

Emit(s) == ops' = Append(ops, s)

Marker(kind, n) == Op(kind, << >>, << >>, n, "", << >>)
-----------------------------------------------------------------------------
(* A slip: what the last function declared is still known.                 *)
KeepTables(s) ==
  LET made == FreshValues(ops, Len(s.args))
  IN  /\ qslots' = [x \in DOMAIN qslots \cup Range(s.args) |->
                      IF x \in Range(s.args)
                      THEN <<made[CHOOSE k \in DOMAIN s.args : s.args[k] = x]>>
                      ELSE qslots[x]]
      /\ UNCHANGED intConsts

(* The tables of a function begin with its parameters: a register passed   *)
(* is one qubit, whatever its size.                                        *)
Tables(s) ==
  LET made == FreshValues(ops, Len(s.args))
  IN  /\ qslots' = [x \in Range(s.args) |->
                      <<made[CHOOSE k \in DOMAIN s.args : s.args[k] = x]>>]
      /\ intConsts' = NoNames

BeginsFunction(s) == s.kind \in {"kernel", "def"} /\ blocks = << >>

(* A kernel without parameters is flattened: its body is not in a def.     *)
Function(s) ==
  /\ BeginsFunction(s)
  /\ Tables(s)
  /\ LET flatten == s.kind = "kernel" /\ s.args = << >>
     IN  /\ IF flatten THEN UNCHANGED ops
            ELSE Emit(Op("def", << >>, FreshValues(ops, Len(s.args)), 0, s.name, s.args))
         /\ blocks' = <<Block(IF flatten THEN "kernel" ELSE "def", "", NoValue)>>
  /\ Fine

(* The k-th qubit a module allocates is called Register[k].                *)
Allocated == Cardinality({ i \in 1 .. Len(ops) : ops[i].kind = "alloc" })

QRegDecl(s) ==
  /\ s.kind = "qreg"
  /\ LET n    == Fold(s.args[1])
         made == FreshValues(ops, n)
     IN  IF n = 0 THEN Fail
         ELSE /\ Allocated + n <= Len(Register)
              /\ ops' = ops \o [k \in 1 .. n |->
                   Op("alloc", << >>, <<made[k]>>, 0, "", <<Register[Allocated + k]>>)]
              /\ qslots' = Bind(qslots, s.name, made)
              /\ Fine /\ UNCHANGED <<intConsts, blocks>>

IntDecl(s) ==
  /\ s.kind = "int"
  /\ IF Fold(s.args[1]) = NoValue THEN Fail
     ELSE /\ intConsts' = Bind(intConsts, s.name, Fold(s.args[1]))
          /\ Fine /\ UNCHANGED <<ops, qslots, blocks>>

(* An assignment that does not fold changes nothing and is no error.       *)
Assign(s) ==
  /\ s.kind = "assign"
  /\ intConsts' = IF Fold(s.args[1]) = NoValue THEN intConsts
                  ELSE Bind(intConsts, s.name, Fold(s.args[1]))
  /\ Fine /\ UNCHANGED <<ops, qslots, blocks>>
-----------------------------------------------------------------------------
Kind(method) == CASE method = "cnot"     -> "cx"
                  [] method = "hadamard" -> "h"
                  [] method = "phase"    -> "s"
                  [] OTHER               -> method

GateMethods == GateKinds \cup {"cnot", "hadamard", "phase"}

Skip(kind)  == IF kind \in {"rx", "ry", "rz", "gpi"} THEN 1 ELSE 0
Arity(kind) == IF kind \in TwoQubitGates THEN 2 ELSE 1

(* Arguments past the last index are not looked at, and the two indices    *)
(* of a gate may be the same.                                              *)
GateCall(s) ==
  /\ s.kind = "call" /\ s.method \in GateMethods
  /\ LET kind  == Kind(s.method)
         used  == [k \in 1 .. Skip(kind) + Arity(kind) |-> Fold(s.args[k])]
         idx   == SubSeq(used, Skip(kind) + 1, Len(used))
         angle == IF Skip(kind) = 1 THEN used[1] ELSE 0
     IN  IF \/ Len(s.args) < Skip(kind) + Arity(kind)
            \/ NoValue \in Range(used)
            \/ s.name \notin DOMAIN qslots
            \/ \E k \in DOMAIN idx : idx[k] \notin 0 .. Len(qslots[s.name]) - 1
         THEN Fail
         ELSE /\ Applying(s.name,
                   <<[kind |-> kind, qs |-> idx, n |-> angle, name |-> ""]>>)
              /\ Fine /\ UNCHANGED <<intConsts, blocks>>

Measures(reg) == [i \in DOMAIN qslots[reg] |->
                    [kind |-> "measure", qs |-> <<i - 1>>, n |-> 0, name |-> ""]]

(* A parameter has no bits: the write to them ends the program.            *)
IsParameter(name) ==
  \E i \in DOMAIN text :
    /\ text[i].kind \in {"kernel", "def"} /\ name \in Range(text[i].args)
    /\ \A j \in i + 1 .. Len(text) :
         /\ text[j].kind \notin {"kernel", "def"}
         /\ ~(text[j].kind = "qreg" /\ text[j].name = name)

(* The slots stay bound to the values measured.                            *)
Measure(s) ==
  /\ s.kind = "measure"
  /\ IF s.name \notin DOMAIN qslots \/ IsParameter(s.name) THEN Fail
     ELSE Applying(s.name, Measures(s.name)) /\ Fine /\ UNCHANGED <<intConsts, blocks>>

(* A return of a measurement measures; only in a def is there an op for    *)
(* the return itself.  What follows a return is lowered like the rest.     *)
Return(s) ==
  /\ s.kind = "return"
  /\ IF s.name # "" /\ s.name \notin DOMAIN qslots THEN Fail
     ELSE LET measures == IF s.name = "" THEN << >> ELSE Measures(s.name)
              in(m)    == [m EXCEPT !.qs = <<qslots[s.name][m.qs[1] + 1]>>]
          IN  /\ ops' = ops \o [i \in DOMAIN measures |->
                                  Op("measure", in(measures[i]).qs, << >>, 0, "", << >>)]
                            \o (IF InDef THEN <<Marker("return", 0)>> ELSE << >>)
              /\ Fine /\ UNCHANGED <<qslots, intConsts, blocks>>

(* A routine that does not expand is left to the platform as a call; if it *)
(* is one of the library the reason was reported, which is not fatal.      *)
LibCall(s) ==
  /\ s.kind = "call" /\ s.method \notin GateMethods
  /\ LET args == [k \in DOMAIN s.args |-> Fold(s.args[k])]
         known == s.name \in DOMAIN qslots
     IN  IF known /\ Lib!Expands(s.method, args)
         THEN Applying(s.name, Lib!Expansion(s.method, Len(qslots[s.name]), args)) /\ Fine
         ELSE /\ Emit(Op("call", << >>, << >>, 0, "lib", << >>))
              /\ errors' = (errors \/ s.method \in Lib!Routines)
              /\ UNCHANGED <<qslots, fatal>>
  /\ UNCHANGED <<intConsts, blocks>>
-----------------------------------------------------------------------------
(* The body is lowered once, with the variable at the lower bound.         *)
ForLoop(s) ==
  /\ s.kind = "for" /\ Len(blocks) < MaxNesting
  /\ LET lo == Fold(s.args[1])
         hi == Fold(s.args[2])
     IN  IF NoValue \in {lo, hi} THEN Fail
         ELSE /\ Emit(Marker("for", IF hi > lo THEN hi - lo ELSE 0))
              /\ intConsts' = Bind(intConsts, s.name, lo)
              /\ blocks' = Append(blocks, Block("for", s.name,
                             IF s.name \in DOMAIN intConsts THEN intConsts[s.name]
                             ELSE NoValue))
              /\ Fine /\ UNCHANGED qslots

(* The condition is a constant but when it compares an integer variable;   *)
(* no measurement is ever one.  It makes no qubit and is left out.         *)
IfStmt(s) ==
  /\ s.kind = "if" /\ Len(blocks) < MaxNesting
  /\ Emit(Marker("if", -1))
  /\ blocks' = Append(blocks, Block("if", "", NoValue))
  /\ Fine /\ UNCHANGED <<qslots, intConsts>>

(* A slip: the count is from the start of the module.                      *)
CountFromStart(counted) ==
  LET at == Last(blocks).at
  IN  IF counted[at].n # -1 THEN counted ELSE [counted EXCEPT ![at].n = Len(counted)]

(* elseIf and endIf: the first of them sets the count.                     *)
WithThenCount(counted) ==
  LET at == Last(blocks).at
  IN  IF counted[at].n # -1 THEN counted
      ELSE [counted EXCEPT ![at].n = Len(counted) - at]

ElseStmt(s) ==
  /\ s.kind = "else"
  /\ Last(blocks).kind = "if" /\ ops[Last(blocks).at].n = -1
  /\ ops' = WithThenCount(ops)
  /\ Fine /\ UNCHANGED <<qslots, intConsts, blocks>>

(* The end of a loop gives its variable back what it was.                  *)
End(s) ==
  /\ s.kind = "end"
  /\ LET b == Last(blocks)
     IN  /\ ops' = CASE b.kind = "kernel" -> ops
                     [] b.kind = "def"    -> Append(ops, Marker("enddef", 0))
                     [] b.kind = "for"    -> Append(ops, Marker("endfor", 0))
                     [] b.kind = "if"     -> Append(WithThenCount(ops), Marker("endif", 0))
         /\ intConsts' = CASE b.kind # "for"     -> intConsts
                           [] b.saved = NoValue  -> Unbind(intConsts, b.var)
                           [] OTHER              -> Bind(intConsts, b.var, b.saved)
  /\ blocks' = Front(blocks)
  /\ Fine /\ UNCHANGED qslots

(* Expressions of a statement; a parameter is not one.                     *)
Expressions(s) == IF s.kind \in {"kernel", "def"} THEN {} ELSE Range(s.args)

Unreadable(s) == \E e \in Expressions(s) : ~Parses(e)

LowerStmt(s) ==
  \/ QRegDecl(s) \/ IntDecl(s) \/ Assign(s)
  \/ GateCall(s) \/ LibCall(s) \/ Measure(s) \/ Return(s)
  \/ ForLoop(s) \/ IfStmt(s) \/ ElseStmt(s) \/ End(s)

ReadStatement(s) ==
  /\ ~fatal
  /\ s.kind # "end" => Room
  /\ s.kind \notin {"kernel", "def"} => blocks # << >>
  /\ text' = Append(text, s)
  /\ \/ Unreadable(s) /\ Fail
     \/ ~Unreadable(s) /\ (Function(s) \/ LowerStmt(s))
=============================================================================
