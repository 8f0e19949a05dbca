--------------------------- MODULE MCRoadAllocator ---------------------------
(* Two regions of unequal weight whose roads come close to each other, and a *)
(* pack whose second region has no anchor.                                   *)
EXTENDS RoadAllocator

Pair == [weight |-> <<1, 2>>,
         routes |-> <<[region |-> 1, slots |-> 2, closed |-> TRUE],
                      [region |-> 2, slots |-> 1, closed |-> FALSE],
                      [region |-> 2, slots |-> 1, closed |-> TRUE]>>,
         anchors |-> <<[route |-> 1, places |-> <<1, 2, 3>>],
                       [route |-> 2, places |-> <<4, 5>>]>>,
         near |-> {{1, 2}, {2, 3}, {2, 4}, {4, 5}}]

Bare == [weight |-> <<1, 1>>,
         routes |-> <<[region |-> 1, slots |-> 3, closed |-> TRUE],
                      [region |-> 2, slots |-> 1, closed |-> FALSE]>>,
         anchors |-> <<[route |-> 1, places |-> <<1>>]>>,
         near |-> {}]

MCPacks == {Pair, Bare}
MCSeeds == {1, -1}

Fleet(n, m, c) == [vehicles |-> n, moving |-> m, continuous |-> c]
MCFleets == {Fleet(3, 0, FALSE), Fleet(3, 1, FALSE), Fleet(3, 3, FALSE), Fleet(4, 1, FALSE),
             Fleet(4, 2, FALSE), Fleet(4, 2, TRUE), Fleet(4, 3, TRUE), Fleet(4, 4, FALSE)}
=============================================================================
