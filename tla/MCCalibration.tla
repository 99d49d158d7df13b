--------------------------- MODULE MCCalibration ---------------------------
(* A small instance of Calibration: two sessions of one project, a session *)
(* of six records, four units in batches of three, one turn with spans     *)
(* that nest, cross and touch.                                             *)
EXTENDS Calibration, TLC

CONSTANTS a, b

MCProject == a :> "p" @@ b :> "p"
MCHashOrder == a :> 1 @@ b :> 0
MCParity == "p" :> 1
MCFilePlace == <<2, 3, 1, 4>>
MCSpans == {<<0, 0>>, <<0, 4>>, <<2, 6>>, <<4, 6>>}
=============================================================================
