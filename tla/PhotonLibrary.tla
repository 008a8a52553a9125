--------------------------- MODULE PhotonLibrary ---------------------------
(***************************************************************************)
(* The routines of photon.lib: the gates a call expands to on a register   *)
(* of n qubits.  Indices are those of the program, from 0.  Angles count   *)
(* parts of a turn, but for vqe_ansatz, where they count tenths of a       *)
(* radian.                                                                 *)
(***************************************************************************)
EXTENDS Integers, Sequences, SequencesExt

CONSTANTS Turn, NoValue

Gate(kind, qs)      == [kind |-> kind, qs |-> qs, n |-> 0, name |-> ""]
Turned(kind, q, n)  == [Gate(kind, <<q>>) EXCEPT !.n = n]
OnEach(kind, n)     == [i \in 1 .. n |-> Gate(kind, <<i - 1>>)]
Chain(n)            == [i \in 1 .. n - 1 |-> Gate("cx", <<i - 1, i>>)]

Routines == {"bell_pair", "ghz", "qft", "iqft", "grover", "teleport", "vqe_ansatz"}

(* applyCRz, from half its angle.                                          *)
CRz(c, t, half) ==
  << Turned("rz", c, half), Gate("cx", <<c, t>>), Turned("rz", t, -half),
     Gate("cx", <<c, t>>), Turned("rz", t, half) >>

BellPair(a, b) == << Gate("h", <<a>>), Gate("cx", <<a, b>>) >>

Ghz(n) == <<Gate("h", <<0>>)>> \o Chain(n)

Reversal(n) == [i \in 1 .. n \div 2 |-> Gate("swap", <<i - 1, n - i>>)]

(* Half of pi / 2^d.                                                       *)
HalfAngle(d) == (Turn \div 4) \div 2^d

Qft(n) ==
  FlattenSeq([j \in 1 .. n |->
    <<Gate("h", <<j - 1>>)>>
      \o FlattenSeq([d \in 1 .. n - j |-> CRz(j - 1 + d, j - 1, HalfAngle(d))])])
  \o Reversal(n)

(* A slip: the angles are not negated.                                     *)
IqftUnnegated(n) ==
  Reversal(n)
  \o FlattenSeq([i \in 1 .. n |->
       FlattenSeq([e \in 1 .. i - 1 |-> CRz(n - e, n - i, HalfAngle(i - e))])
         \o <<Gate("h", <<n - i>>)>>])

Iqft(n) ==
  Reversal(n)
  \o FlattenSeq([i \in 1 .. n |->
       FlattenSeq([e \in 1 .. i - 1 |-> CRz(n - e, n - i, -HalfAngle(i - e))])
         \o <<Gate("h", <<n - i>>)>>])

(* On three qubits and more a row of cz, which is another gate than the z  *)
(* with many controls.                                                     *)
ManyCz(n) == IF n = 1 THEN <<Gate("z", <<0>>)>>
             ELSE [i \in 1 .. n - 1 |-> Gate("cz", <<i - 1, n - 1>>)]

Diffusion(n) ==
  OnEach("h", n) \o OnEach("x", n) \o ManyCz(n) \o OnEach("x", n) \o OnEach("h", n)

Oracle == [Gate("call", << >>) EXCEPT !.name = "oracle"]

(* The last argument that folds is the number of rounds.                   *)
Rounds(args) ==
  LET folded == SelectSeq(args, LAMBDA a : a # NoValue)
  IN  IF folded = << >> \/ Last(folded) < 1 THEN 1 ELSE Last(folded)

Grover(n, rounds) ==
  OnEach("h", n) \o FlattenSeq([r \in 1 .. rounds |-> <<Oracle>> \o Diffusion(n)])

Corrected(kind, q) ==
  << [Gate("if", << >>) EXCEPT !.n = 1], Gate(kind, <<q>>), Gate("endif", << >>) >>

Teleport(src, anc, dst) ==
  << Gate("h", <<anc>>), Gate("cx", <<anc, dst>>),
     Gate("cx", <<src, anc>>), Gate("h", <<src>>),
     Gate("measure", <<src>>), Gate("measure", <<anc>>) >>
  \o Corrected("x", dst) \o Corrected("z", dst)

VqeAnsatz(n, depth) ==
  FlattenSeq([d \in 1 .. depth |->
    [i \in 1 .. n |-> Turned("ry", i - 1, (d - 1) * n + i - 1)] \o Chain(n)])

(* The indices and counts given, the defaults when too few are.            *)
Given(args, k, default) == IF Len(args) >= k THEN SubSeq(args, 1, k) ELSE default

Arguments(method, args) ==
  CASE method = "bell_pair"  -> Given(args, 2, <<0, 1>>)
    [] method = "teleport"   -> Given(args, 3, <<0, 1, 2>>)
    [] method = "vqe_ansatz" -> Given(args, 1, <<1>>)
    [] method = "grover"     -> <<Rounds(args)>>
    [] OTHER                 -> << >>

Expands(method, args) ==
  method \in Routines /\ \A k \in DOMAIN Arguments(method, args) :
                           Arguments(method, args)[k] # NoValue

Expansion(method, n, args) ==
  LET a == Arguments(method, args)
  IN  CASE method = "bell_pair"  -> BellPair(a[1], a[2])
        [] method = "ghz"        -> Ghz(n)
        [] method = "qft"        -> Qft(n)
        [] method = "iqft"       -> Iqft(n)
        [] method = "grover"     -> Grover(n, a[1])
        [] method = "teleport"   -> Teleport(a[1], a[2], a[3])
        [] method = "vqe_ansatz" -> VqeAnsatz(n, a[1])
=============================================================================
