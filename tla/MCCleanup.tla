----------------------------- MODULE MCCleanup -----------------------------
(* Small native modules for the runs of CleanupWalk.                       *)
EXTENDS CleanupWalk

Op(kind, qs, n) == [kind |-> kind, qs |-> qs, n |-> n]

(* Rotations by a quarter, a half and three quarters of a turn, both ways  *)
(* of the square root of X, an op nothing is known about, and an entangler *)
(* and a barrier between two qubits.                                       *)
TwoQubitOps ==
  { Op("rz", <<0>>, 1), Op("rz", <<0>>, 2), Op("rz", <<0>>, 3),
    Op("sx", <<0>>, 0), Op("sxdg", <<0>>, 0), Op("reset", <<0>>, 0),
    Op("rz", <<1>>, 2), Op("cz", <<0, 1>>, 0), Op("barrier", <<1, 0>>, 0) }

(* The rotations Decomposition emits on a Quantinuum chip.                 *)
U1qOps == { Op("u1q", <<p>>, n) : p \in Qubits, n \in 0 .. Turn - 1 }
=============================================================================
