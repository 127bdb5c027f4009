--------------------------- MODULE MCRdpConnection ---------------------------
(* Two connections, which are interchangeable, for model checking. *)
EXTENDS RdpConnection, TLC

CONSTANTS c1, c2

TwoConns == {c1, c2}
OneConn  == {c1}
Symmetry == Permutations(TwoConns)
=============================================================================
