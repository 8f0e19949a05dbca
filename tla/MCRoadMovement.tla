--------------------------- MODULE MCRoadMovement ---------------------------
(***************************************************************************)
(* Routes for model checking: a loop with a stop, a way with two stops one *)
(* of which a vehicle can reach from the other in one step, and a loop     *)
(* shorter than the way a vehicle can make between two packets.            *)
(***************************************************************************)
EXTENDS RoadMovement

MCRoutes ==
    {[length |-> 16, stops |-> <<3>>, closed |-> TRUE],
     [length |-> 9, stops |-> <<2, 4>>, closed |-> FALSE],
     [length |-> 3, stops |-> <<>>, closed |-> TRUE]}
=============================================================================
