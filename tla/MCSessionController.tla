------------------------- MODULE MCSessionController -------------------------
(* The clients of a controller, for model checking. *)
EXTENDS SessionController

CONSTANTS c1, c2

TwoConns == {c1, c2}
=============================================================================
