---------------------------- MODULE SpinorParser ----------------------------
(***************************************************************************)
(* Spinor programs as text: the lines photonc makes of a Phonon module,    *)
(* and the Spinor parser that reads them.                                  *)
(*                                                                         *)
(* The parser takes a line at a time: registers are declared, and each     *)
(* operation takes the live values of its operands and makes new ones.     *)
(* Spinor ops are records like those of Phonon; the qs of a measurement is *)
(* the bit it writes.  An operand in a line is a register and an index.    *)
(***************************************************************************)
EXTENDS PhononIR

Line(kind, angles, operands) == [kind |-> kind, angles |-> angles, operands |-> operands]

Q(i) == <<"q", i>>
C(i) == <<"__c_q", i>>

(* A register of n bits is allocated with every register of n qubits.      *)
NumQubits(m) == Cardinality({ i \in 1 .. Len(m) : m[i].kind = "alloc" })

Header(m) ==
  << Line("target", << >>, << >>) >>
  \o (IF NumQubits(m) = 0 THEN << >>
      ELSE << Line("qubit", << >>, <<Q(NumQubits(m))>>),
              Line("bit", << >>, <<C(NumQubits(m))>>) >>)

NoSlot == -1

(* slotOf after the first pass.                                            *)
AllocSlots(m) ==
  [v \in ValuesOf(m) |->
     IF \E i \in 1 .. Len(m) : m[i].kind = "alloc" /\ m[i].out = <<v>>
     THEN Cardinality({ i \in 1 .. Len(m) : m[i].kind = "alloc" /\ m[i].out[1] < v })
     ELSE NoSlot]

(* A slip: the results of a two-qubit gate get each other's slots.         *)
CrossedSlots(slots, op) ==
  [v \in DOMAIN slots |->
     IF v \in Range(op.out)
     THEN slots[op.in[Len(op.in) + 1 - CHOOSE k \in DOMAIN op.out : op.out[k] = v]]
     ELSE slots[v]]

Inherited(slots, op) ==
  [v \in DOMAIN slots |->
     IF v \in Range(op.out) THEN slots[op.in[CHOOSE k \in DOMAIN op.out : op.out[k] = v]]
     ELSE slots[v]]

(* The second pass, op by op: markers, calls and what works on a parameter *)
(* are skipped, angles are not written, and measurements fill the bits in  *)
(* their order.                                                            *)
EmitLine(st, op) ==
  LET at == [k \in DOMAIN op.in |-> st.slots[op.in[k]]]
      qs == [k \in DOMAIN at |-> Q(at[k])]
  IN  IF op.kind \notin GateKinds \cup {"measure", "reset"} \/ NoSlot \in Range(at) THEN st
      ELSE IF op.kind = "measure"
      THEN [st EXCEPT !.lines = Append(@, Line("measure", << >>, <<C(st.measured)>> \o qs)),
                      !.measured = @ + 1]
      ELSE [st EXCEPT !.lines = Append(@, Line(op.kind, << >>, qs)),
                      !.slots = Inherited(@, op)]

EmitSpinorText(m) ==
  FoldLeft(EmitLine, [lines |-> Header(m), slots |-> AllocSlots(m), measured |-> 0], m).lines
-----------------------------------------------------------------------------
VARIABLES
  lines,    \* the lines of the text
  at,       \* the line to be read
  regs,     \* registers declared: are they of qubits, their live values
  spinor,   \* the module
  refused   \* an error was thrown, and the module dropped

spinorVars == <<lines, at, regs, spinor, refused>>

NoRegs == [x \in {} |-> x]

ParserInit ==
  /\ lines = << >> /\ at = 1
  /\ regs = NoRegs /\ spinor = << >> /\ refused = FALSE

Throw == refused' = TRUE /\ UNCHANGED <<at, regs, spinor>>

Accept == at' = at + 1 /\ UNCHANGED refused

IsRegister(o, qubit) == o[1] \in DOMAIN regs /\ regs[o[1]].qubit = qubit

(* When resolveQubit, or updateLatestBit, does not throw.                  *)
Resolves(o, qubit) ==
  IsRegister(o, qubit) /\ o[2] \in 0 .. Len(regs[o[1]].live) - 1

Live(operands) == [k \in DOMAIN operands |-> regs[operands[k][1]].live[operands[k][2] + 1]]

(* A slip: only the first operand gets a new value.                        *)
UpdatedFirst(operands, made) ==
  [r \in DOMAIN regs |->
     [regs[r] EXCEPT !.live = [i \in DOMAIN @ |->
        IF made # << >> /\ operands[1] = <<r, i - 1>> THEN made[1] ELSE @[i]]]]

(* updateLiveQubit, for one operand after another.                         *)
Updated(operands, made) ==
  [r \in DOMAIN regs |->
     [regs[r] EXCEPT !.live = [i \in DOMAIN @ |->
        LET new == { k \in DOMAIN made : operands[k] = <<r, i - 1>> }
        IN  IF new = {} THEN @[i] ELSE made[CHOOSE k \in new : \A l \in new : l <= k]]]]

TargetDecl(l) ==
  /\ l.kind = "target" /\ at = 1
  /\ Accept /\ UNCHANGED <<regs, spinor>>

(* The target comes first, and only there.                                 *)
Misplaced(l) == (l.kind = "target") # (at = 1)

NumQubitsMade == Cardinality({ i \in 1 .. Len(spinor) : spinor[i].kind = "alloc" })

Declared(o, qubit, live) ==
  [x \in DOMAIN regs \cup {o[1]} |->
     IF x = o[1] THEN [qubit |-> qubit, live |-> live] ELSE regs[x]]

QubitDecl(l) ==
  /\ l.kind = "qubit"
  /\ LET o    == l.operands[1]
         made == FreshValues(spinor, o[2])
     IN  IF o[1] \in DOMAIN regs THEN Throw
         ELSE /\ regs' = Declared(o, TRUE, made)
              /\ spinor' = spinor \o [k \in DOMAIN made |->
                   Op("alloc", << >>, <<made[k]>>, 0, "", <<Register[NumQubitsMade + k]>>)]
              /\ Accept

(* A bit is written anew by a measurement; its values are not kept.        *)
BitDecl(l) ==
  /\ l.kind = "bit"
  /\ LET o == l.operands[1]
     IN  IF o[1] \in DOMAIN regs THEN Throw
         ELSE /\ regs' = Declared(o, FALSE, [k \in 1 .. o[2] |-> 0])
              /\ Accept /\ UNCHANGED spinor

TakesAngle == {"rx", "ry", "rz", "gpi"}

Appended(kind, operands, n, bits) ==
  LET made == FreshValues(spinor, Results([kind |-> kind]))
  IN  /\ spinor' = Append(spinor, Op(kind, Live(operands), made, n, "", bits))
      /\ regs' = Updated(operands, made)

(* The angles of a gate that takes none are not counted.                   *)
GateStmt(l) ==
  /\ l.kind \in GateKinds
  /\ IF \/ Len(l.operands) # IF l.kind \in TwoQubitGates THEN 2 ELSE 1
        \/ l.kind \in TakesAngle /\ Len(l.angles) # 1
        \/ \E o \in Range(l.operands) : ~Resolves(o, TRUE)
     THEN Throw
     ELSE /\ Appended(l.kind, l.operands, IF l.kind \in TakesAngle THEN l.angles[1] ELSE 0, << >>)
          /\ Accept

ResetStmt(l) ==
  /\ l.kind = "reset"
  /\ IF ~Resolves(l.operands[1], TRUE) THEN Throw
     ELSE Appended("reset", l.operands, 0, << >>) /\ Accept

BarrierStmt(l) ==
  /\ l.kind = "barrier"
  /\ IF \E o \in Range(l.operands) : ~Resolves(o, TRUE) THEN Throw
     ELSE Appended("barrier", l.operands, 0, << >>) /\ Accept

MeasureStmt(l) ==
  /\ l.kind = "measure"
  /\ LET bit == l.operands[1]
         q   == l.operands[2]
     IN  IF ~Resolves(q, TRUE) \/ ~Resolves(bit, FALSE) THEN Throw
         ELSE Appended("measure", <<q>>, 0, <<bit>>) /\ Accept

(* The form for whole registers, of the same size.                         *)
MeasureAll(l) ==
  /\ l.kind = "measureall"
  /\ LET bits == l.operands[1]
         qs   == l.operands[2]
     IN  IF \/ ~IsRegister(bits, FALSE) \/ ~IsRegister(qs, TRUE)
            \/ Len(regs[bits[1]].live) # Len(regs[qs[1]].live)
         THEN Throw
         ELSE /\ spinor' = spinor \o [k \in DOMAIN regs[qs[1]].live |->
                   Op("measure", <<regs[qs[1]].live[k]>>, << >>, 0, "", <<<<bits[1], k - 1>>>>)]
              /\ Accept /\ UNCHANGED regs

ReadLine ==
  /\ at <= Len(lines) /\ ~refused
  /\ LET l == lines[at]
     IN  \/ Misplaced(l) /\ Throw
         \/ /\ ~Misplaced(l)
            /\ \/ TargetDecl(l) \/ QubitDecl(l) \/ BitDecl(l)
               \/ GateStmt(l) \/ ResetStmt(l) \/ BarrierStmt(l)
               \/ MeasureStmt(l) \/ MeasureAll(l)
  /\ UNCHANGED lines

Accepted == at > Len(lines) /\ lines # << >> /\ ~refused
=============================================================================
