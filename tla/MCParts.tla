-------------------------------- MODULE MCParts --------------------------------
(* Values for model checking Parts.                                           *)
EXTENDS Parts

\* Objects inside, across the edges of and outside a picture of 10.
MCSpans == {[x |-> -2, w |-> 3], [x |-> 0, w |-> 0], [x |-> 0, w |-> 3], [x |-> 4, w |-> 3],
            [x |-> 9, w |-> 4], [x |-> 10, w |-> 1], [x |-> 12, w |-> 2]}

\* The inference frame, and a larger one of which the detector sees the right half.
MCFrames == {[size |-> 4, view |-> [x |-> 0, w |-> 10]],
             [size |-> 10, view |-> [x |-> 5, w |-> 5]]}

MCBorders == {[before |-> 0, after |-> 0], [before |-> 2, after |-> 1]}

\* Boxes of which neighbours overlap by more than half and others do not, and a small one.
MCCorners ==
  {[x |-> x, y |-> 0, w |-> 4, h |-> 4] : x \in 0 .. 2} \cup {[x |-> 5, y |-> 5, w |-> 1, h |-> 1]}

Everywhere == [x1 |-> 0, y1 |-> 0, x2 |-> 9, y2 |-> 9]
Nowhere == [x1 |-> 9, y1 |-> 9, x2 |-> 9, y2 |-> 9]
Square(a, b) == <<<<a, a>>, <<b, a>>, <<b, b>>, <<a, b>>>>

MCFilters ==
  {[confidence |-> 50, nms |-> 50, area |-> Everywhere, polygon |-> <<>>,
    excluded |-> {}, exclude |-> Nowhere, ignored |-> {2}],
   [confidence |-> 25, nms |-> 50, area |-> Everywhere, polygon |-> Square(0, 4),
    excluded |-> {[active |-> TRUE, polygon |-> Square(3, 9)]}, exclude |-> Nowhere,
    ignored |-> {}]}
=============================================================================
