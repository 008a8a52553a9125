--------------------------- MODULE PhononParser ----------------------------
(***************************************************************************)
(* The Phonon parser: each statement is turned into ops as it is read, and *)
(* the registers are rebound to the values the ops produce.                *)
(***************************************************************************)
EXTENDS PhononIR

CONSTANTS
  Statements,       \* the statements a program is written from
  MaxStatements,    \* bound on those that are not closing braces
  MaxNesting        \* bound on open blocks

(* A gate is written on as many qubits as it acts on.                      *)
ASSUME StatementsAssumption ==
  \A s \in Statements :
    /\ s.qs \in Seq(Names) /\ s.n \in Int
    /\ s.kind \in GateKinds => Len(s.qs) = Results(s)

Unbound == 0

VARIABLES
  source,   \* the statements read
  ops,      \* mod
  slot,     \* qreg: the value each register element or parameter is bound to
  open      \* the ops that opened the blocks being read

parserVars == <<source, ops, slot, open>>

Bound(names) == \A k \in 1 .. Len(names) : slot[names[k]] # Unbound

Values(names) == [k \in 1 .. Len(names) |-> slot[names[k]]]

(* Every name is bound to the last of the results made for it.             *)
Rebound(names, out) ==
  [x \in Names |->
     IF \E k \in DOMAIN names \cap DOMAIN out : names[k] = x
     THEN out[CHOOSE k \in DOMAIN names \cap DOMAIN out :
                names[k] = x /\ \A l \in DOMAIN names \cap DOMAIN out : l > k => names[l] # x]
     ELSE slot[x]]

Room == Len(SelectSeq(source, LAMBDA s : s.kind \notin {"endif", "endfor", "enddef"}))
          < MaxStatements

Innermost == IF open = << >> THEN "none" ELSE ops[Last(open)].kind

(* The declaration of the register comes first.                            *)
Init ==
  /\ source = << >>
  /\ ops  = [k \in 1 .. Len(Register) |->
               Op("alloc", << >>, <<k>>, 0, "", <<Register[k]>>)]
  /\ slot = [x \in Names |->
               IF x \in Wires THEN CHOOSE k \in 1 .. Len(Register) : Register[k] = x
               ELSE Unbound]
  /\ open = << >>

(* Gates, measure, reset and barrier.  A measure and a barrier have no     *)
(* qubit result, and leave the slots bound to the values they consume.     *)
QuantumStmt(s) ==
  /\ s.kind \in GateKinds \cup FenceKinds
  /\ Room /\ Bound(s.qs)
  /\ LET out == FreshValues(ops, Results(s))
     IN  /\ ops' = Append(ops, Op(s.kind, Values(s.qs), out, s.n, "", << >>))
         /\ slot' = Rebound(s.qs, out)
  /\ source' = Append(source, s)
  /\ UNCHANGED open

Opened(s, n, out) ==
  /\ Room /\ Len(open) < MaxNesting
  /\ ops' = Append(ops, Op(s.kind, << >>, out, n, s.name, s.qs))
  /\ open' = Append(open, Len(ops) + 1)
  /\ source' = Append(source, s)

Closed(s, patched) ==
  /\ Innermost = CHOOSE k \in {"if", "for", "def"} : Closing(k) = s.kind
  /\ ops' = Append(patched, Op(s.kind, << >>, << >>, 0, "", << >>))
  /\ open' = Front(open)
  /\ source' = Append(source, s)

(* The comparison before an if and the bounds before a for make no qubit   *)
(* and are left out.  then_count is -1 until elseIf or endIf sets it.      *)
IfStmt(s) ==
  /\ s.kind = "if"
  /\ Opened(s, -1, << >>)
  /\ UNCHANGED slot

(* A slip: the ops of the else are counted as well.                       *)
ThenCountFromModule ==
  IF ops[Last(open)].n # -1 THEN ops
  ELSE [ops EXCEPT ![Last(open)].n = Len(ops)]

Counted(op, n) == Op(op.kind, op.in, op.out, n, op.name, op.qs)

WithThenCount ==
  IF ops[Last(open)].n # -1 THEN ops
  ELSE [ops EXCEPT ![Last(open)] = Counted(@, Len(ops) - Last(open))]

ElseIf(s) ==
  /\ s.kind = "else"
  /\ Innermost = "if" /\ ops[Last(open)].n = -1
  /\ ops' = WithThenCount
  /\ source' = Append(source, s)
  /\ UNCHANGED <<slot, open>>

EndIf(s) ==
  /\ s.kind = "endif" /\ Innermost = "if"
  /\ Closed(s, WithThenCount)
  /\ UNCHANGED slot

ForStmt(s) ==
  /\ s.kind = "for"
  /\ Opened(s, s.n, << >>)
  /\ UNCHANGED slot

EndFor(s) ==
  /\ s.kind = "endfor"
  /\ Closed(s, ops)
  /\ UNCHANGED slot

(* The parameters are values of the def, and names of its body only.  Defs *)
(* are read outside any block and have names of their own.                 *)
DefStmt(s) ==
  /\ s.kind = "def"
  /\ open = << >> /\ DefOf(ops, s.name) = 0
  /\ LET out == FreshValues(ops, Results(s))
     IN  Opened(s, s.n, out) /\ slot' = Rebound(s.qs, out)

EndDef(s) ==
  /\ s.kind = "enddef"
  /\ Closed(s, ops)
  /\ slot' = [x \in Names |-> IF x \in Params THEN Unbound ELSE slot[x]]

(* A call has one result per parameter of a function already declared, and *)
(* none while its name is not known yet, as in its own body.               *)
CallStmt(s) ==
  /\ s.kind = "call"
  /\ Room /\ Bound(s.qs)
  /\ LET d     == DefOf(ops, s.name)
         known == d # 0 /\ d \notin { open[k] : k \in 1 .. Len(open) }
         out   == FreshValues(ops, IF known THEN Len(ops[d].out) ELSE 0)
     IN  /\ ops' = Append(ops, Op("call", Values(s.qs), out, 0, s.name, << >>))
         /\ slot' = Rebound(s.qs, out)
  /\ source' = Append(source, s)
  /\ UNCHANGED open

ReadStatement(s) ==
  \/ QuantumStmt(s) \/ CallStmt(s)
  \/ IfStmt(s) \/ ElseIf(s) \/ EndIf(s)
  \/ ForStmt(s) \/ EndFor(s)
  \/ DefStmt(s) \/ EndDef(s)
=============================================================================
