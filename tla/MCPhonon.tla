------------------------------ MODULE MCPhonon ------------------------------
(* Small Phonon programs for the runs of PhononPipeline.                   *)
EXTENDS PhononPipeline

St(kind, qs, n, name) == [kind |-> kind, qs |-> qs, n |-> n, name |-> name]
On(kind, qs)   == St(kind, qs, 0, "")
Mark(kind)     == St(kind, << >>, 0, "")

TwoQubits == <<"q0", "q1">>

(* Gates the passes rewrite, and the fences, on two qubits.                *)
Gates ==
  { On("h", <<"q0">>), On("s", <<"q0">>), On("sdg", <<"q0">>),
    St("rx", <<"q0">>, 1, ""), St("rx", <<"q0">>, 3, ""), St("rz", <<"q0">>, 3, ""),
    On("cx", <<"q0", "q1">>), On("cx", <<"q1", "q0">>),
    On("measure", <<"q0">>), On("reset", <<"q0">>), On("barrier", <<"q1", "q0">>) }

(* Blocks around gates no pass touches.                                    *)
Blocks ==
  { On("gpi", <<"q0">>), On("ms", <<"q0", "q1">>), On("gpi", <<"a">>),
    Mark("if"), Mark("else"), Mark("endif"),
    St("for", << >>, 0, ""), St("for", << >>, 2, ""), Mark("endfor"),
    St("def", <<"a">>, 0, "f"), Mark("enddef"),
    St("call", <<"q0">>, 0, "f"), St("call", <<"q1">>, 0, "f"),
    St("call", <<"q1">>, 0, "g") }

GatesAndBlocks == Gates \cup Blocks

InDef(p, i) ==
  \E d \in 1 .. i - 1 : p[d].kind = "def" /\ \A j \in d .. i : p[j].kind # "enddef"

(* The body of a function is a straight line of gates on its parameters.   *)
PlainBodies(p) ==
  \A i \in 1 .. Len(p) :
    InDef(p, i) /\ p[i].kind # "enddef" => p[i].qs # << >> /\ Range(p[i].qs) \subseteq Params

Unclosed == OpKinds \ {"endif", "endfor", "enddef"}

StraightOrBlocks(p) ==
  \/ Range(p) \subseteq Gates
  \/ /\ Range(p) \subseteq Blocks /\ PlainBodies(p)
     /\ Cardinality({ i \in DOMAIN p : p[i].kind \in Unclosed }) <= 3

AnyProgram(p) == TRUE

(* A loop of a gate that is its own inverse.                               *)
LoopOfH == { On("h", <<"q0">>), St("for", << >>, 2, ""), Mark("endfor") }
=============================================================================
