---------------------------- MODULE MCLocalRouting ----------------------------
(* A region that is moved, to where two extracts are needed, and a second   *)
(* one; a pool of one service, which two regions of a preparation overrun.  *)
EXTENDS LocalRouting

Here == [id |-> "home", place |-> 1]
There == [id |-> "home", place |-> 2]
Other == [id |-> "other", place |-> 1]

MCExtracts == {"east", "west", "all"}
MCRegions == {Here, There, Other}
MCConfigs == {{Here}, {There, Other}}
MCCover(r) == IF r = There THEN {"east", "west"} ELSE {"east"}
MCSingle(r) == IF r = There THEN "all" ELSE "east"
=============================================================================
