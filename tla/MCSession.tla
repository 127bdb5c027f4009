------------------------------ MODULE MCSession ------------------------------
(* Two keyboards and the keys of one client, for model checking. *)
EXTENDS Session

CONSTANTS d1, d2, k1, k2

BothTypes == {"Portal", "Plasma"}
TwoKeys   == {k1, k2}
TwoBoards == {d1, d2}
=============================================================================
