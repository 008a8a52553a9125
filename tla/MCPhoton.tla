------------------------------ MODULE MCPhoton ------------------------------
(* Small Photon programs and Spinor texts for the runs of PhotonPipeline.  *)
EXTENDS PhotonPipeline

MCLiterals == [t \in {"0", "1", "2", "3"} |->
                 CASE t = "0" -> 0 [] t = "1" -> 1 [] t = "2" -> 2 [] t = "3" -> 3]

ThreeQubits == <<"w0", "w1", "w2">>

St(kind, name, method, args) == [kind |-> kind, name |-> name, method |-> method, args |-> args]
Call(method, args) == St("call", "q", method, args)
EndSt       == St("end", "", "", << >>)
Main        == St("kernel", "main", "", << >>)
QReg(n)     == St("qreg", "q", "", << <<n>> >>)
IntIs(e)    == St("int", "i", "", <<e>>)
For(lo, hi) == St("for", "i", "", << <<lo>>, <<hi>> >>)
MeasureAllQ == St("measure", "q", "", << >>)
ReturnQ     == St("return", "q", "", << >>)

(* Straight lines: gates of every shape, aliases, measurements.            *)
Gates ==
  { Call("h", << <<"0">> >>), Call("cnot", << <<"0">>, <<"1">> >>),
    Call("rx", << <<"1">>, <<"0">> >>), Call("rx", << <<"-", "1">>, <<"0">> >>),
    Call("phase", << <<"1">> >>), Call("cx", << <<"1">>, <<"0">> >>),
    Call("h", << <<"2">> >>), MeasureAllQ, ReturnQ }

(* Blocks around gates no pass touches, and a variable as an index.        *)
Variable == Call("gpi", << <<"1">>, <<"i">> >>)
Bump     == St("assign", "i", "", << <<"i", "+", "1">> >>)

Blocks ==
  { Call("gpi", << <<"1">>, <<"0">> >>), Call("ms", << <<"0">>, <<"1">> >>),
    Call("ms", << <<"1">>, <<"1">> >>), St("if", "", "", << >>), St("else", "", "", << >>),
    For("0", "2"), For("1", "1"), Bump, Variable, MeasureAllQ }

Expr == UNION { [1 .. k -> {"1", "3", "(", ")", "-", "*", "/"}] : k \in 1 .. 5 }

(* The library on the registers its promises are about.                    *)
Routine(n) ==
  CASE n = "1" -> { Call(m, << >>) : m \in {"ghz", "qft", "iqft", "grover", "vqe_ansatz"} }
    [] n = "2" -> { Call(m, << >>) : m \in {"bell_pair", "ghz", "qft", "iqft"} } \cup
                  { Call("bell_pair", << <<"1">>, <<"0">> >>), Call("vqe_ansatz", << <<"2">> >>),
                    Call("grover", << <<"2">> >>), Call("oracle", << >>),
                    St("call", "r", "ghz", << >>) }
    [] n = "3" -> { Call(m, << >>) : m \in {"ghz", "qft", "iqft", "teleport"} }
    [] OTHER   -> {}

(* Functions with a parameter, and a kernel behind them.                   *)
OnA == { St("call", "a", "h", << <<"0">> >>), St("call", "a", "cx", << <<"0">>, <<"1">> >>),
         St("return", "a", "", << >>), St("return", "", "", << >>),
         St("measure", "a", "", << >>) }

Unclosed(p) == PM!Level(p, 1, Len(p))
InLoop(p) ==
  \E i \in DOMAIN p : /\ p[i].kind = "for" /\ p[i].args[2] = <<"2">>
                      /\ \A j \in i .. Len(p) : PM!Level(p, i, j) > 0

Families(p) ==
  CASE p = << >> -> {Main, St("def", "f", "", <<"a">>), St("kernel", "k", "", <<"a">>)}
    [] p = <<Main>> -> { QReg(n) : n \in {"0", "1", "2", "3"} } \cup { IntIs(e) : e \in Expr }
    [] p[1] # Main -> CASE Unclosed(p) = 0 -> IF Last(p) = EndSt THEN {Main} ELSE {}
                        [] Main \in Range(p) -> OnA \cup {EndSt, QReg("1")}
                        [] OTHER -> OnA \cup {EndSt, QReg("1")}
    [] p[2].kind = "int" -> <<{QReg("2")}, {Call("h", << <<"i">> >>)}, {EndSt}, {}>>[Len(p) - 1]
    [] Len(p) = 2 -> Routine(p[2].args[1][1])
                       \cup (IF p[2] = QReg("2") THEN Gates \cup {IntIs(<<"0">>)} ELSE {})
    [] Unclosed(p) = 0 -> {}
    [] Last(p).kind = "return" -> {EndSt}
    [] p[3] = Call("teleport", << >>) -> {EndSt, ReturnQ}
    [] p[3] = IntIs(<<"0">>) ->
         {EndSt} \cup { s \in Blocks :
           /\ s = Bump => Unclosed(p) = 1
           /\ s.kind = "else" => Unclosed(p) > 1
           /\ s = Variable => ~InLoop(p) }
    [] p[3] \in Routine(p[2].args[1][1]) -> {EndSt}
    [] OTHER -> Gates \cup {EndSt}

(* A loop over the elements of a register.                                 *)
Loop(p) ==
  << {Main}, {QReg("3")}, {For("0", "2")},
     {Call("cx", << <<"i">>, <<"i", "+", "1">> >>)}, {EndSt}, {EndSt}, {} >>[Len(p) + 1]

B(i) == <<"c", i>>
R(i) == <<"r", i>>
Operations ==
  { Line("h", << >>, <<Q(0)>>), Line("h", << >>, <<R(0)>>), Line("rz", <<1>>, <<Q(1)>>),
    Line("rz", << >>, <<Q(0)>>), Line("cx", << >>, <<Q(0), Q(1)>>),
    Line("cx", << >>, <<R(0), Q(1)>>), Line("cz", << >>, <<Q(0)>>),
    Line("reset", << >>, <<Q(2)>>), Line("reset", << >>, <<Q(0)>>),
    Line("barrier", << >>, << >>), Line("barrier", << >>, <<Q(0), R(0)>>),
    Line("measure", << >>, <<B(0), Q(1)>>), Line("measure", << >>, <<B(1), R(0)>>),
    Line("measure", << >>, <<Q(0), Q(1)>>), Line("measureall", << >>, <<B(0), Q(0)>>),
    Line("target", << >>, << >>) }

Declarations ==
  { Line("qubit", << >>, <<Q(2)>>), Line("qubit", << >>, <<R(1)>>),
    Line("bit", << >>, <<B(2)>>), Line("bit", << >>, <<B(1)>>) }

Texts(t) ==
  CASE t = << >>    -> { Line("target", << >>, << >>), Line("h", << >>, <<Q(0)>>) }
    [] Len(t) <= 3  -> Declarations
    [] OTHER        -> Operations

NoTexts(t) == {}
=============================================================================
