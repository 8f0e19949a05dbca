----------------------------- MODULE MCAppShell -----------------------------
(* A region with two packs, the second an extension of the first, and a     *)
(* region with one: a call for one region can overwrite what another did    *)
(* for the other, and two packs share a route.                              *)
EXTENDS AppShell

MCRegions == {"north", "south"}
MCBlobs == {"n1", "n2", "s1"}
MCPacks == {[region |-> "north", blobs |-> {"n1"}],
            [region |-> "north", blobs |-> {"n1", "n2"}],
            [region |-> "south", blobs |-> {"s1"}]}
MCCallers == {"select", "prepare"}
=============================================================================
