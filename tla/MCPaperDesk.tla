---------------------------- MODULE MCPaperDesk ----------------------------
(* Inputs for the run of PaperDesk: an edge for either side, and one at an  *)
(* extreme price.                                                          *)
EXTENDS PaperDesk

EitherEdge == {[spot |-> 3, up |-> 1], [spot |-> 1, up |-> 3], [spot |-> 2, up |-> 4]}
Moderate == {1, 2}
\* 200 s and 30.5 s from the end
TwoTimes == {400, 61}
Fragile == {"tick", "close", "audit2", "closing"}
=============================================================================
