------------------------------ MODULE Detections ------------------------------
(***************************************************************************)
(* From the tensors of one inference to the detections that are put out:    *)
(* decoding and non-maximum suppression (Model.c), the user's filters       *)
(* (main.c).  Pictures are Size x Size, scores are raw values of a tensor   *)
(* whose zero point is Zero and whose full scale is 100 percent.            *)
(***************************************************************************)
EXTENDS Integers, Sequences, FiniteSets, Functions

CONSTANTS
  Corners,      \* boxes the model finds: [x, y, w, h]
  Scores,       \* raw scores
  Classes,      \* number of classes
  Zero,         \* zero point of the scores
  Full,         \* raw values from zero to 100 percent
  MaxBoxes,     \* bound: boxes of an inference
  Filters       \* settings: [confidence, nms, area, polygon, excluded, ignored]

VARIABLES
  filter,       \* the settings of this frame
  tensor,       \* what the model wrote: boxes, each with a score per class
  found,        \* what Model_Inference() returns
  output        \* what ImageProcess() hands to Output()

vars == <<filter, tensor, found, output>>

Boxes == [corner : Corners, scores : [1 .. Classes -> Scores]]

Init ==
  /\ filter \in Filters
  /\ tensor = <<>> /\ found = <<>> /\ output = <<>>

LesserOf(a, b) == IF a < b THEN a ELSE b
GreaterOf(a, b) == IF a > b THEN a ELSE b
-----------------------------------------------------------------------------
(* Model_Inference(): decoding.                                            *)

Best(b) == LET s == Range(b.scores) IN CHOOSE v \in s : \A u \in s : u <= v
\* The first class with the best score.
ClassOf(b) ==
  CHOOSE c \in 1 .. Classes :
    b.scores[c] = Best(b) /\ \A d \in 1 .. c - 1 : b.scores[d] # Best(b)

\* The threshold in raw values, truncated.
RawThreshold(confidence) == (confidence * Full) \div 100 + Zero

\* A score of 0 is no class at all.
Decoded(b) == Best(b) > 0 /\ Best(b) >= RawThreshold(filter.confidence)

\* The confidence as ImageProcess() has it, in whole percent.
Percent(b) == ((Best(b) - Zero) * 100) \div Full
-----------------------------------------------------------------------------
(* non_maximum_suppression(): whatever the class, in the order of the list. *)

Shared(ax, aw, bx, bw) == GreaterOf(0, LesserOf(ax + aw, bx + bw) - GreaterOf(ax, bx))

\* iou() is above the threshold.
Overlap(a, b) ==
  LET inter == Shared(a.x, a.w, b.x, b.w) * Shared(a.y, a.h, b.y, b.h)
      union == a.w * a.h + b.w * b.h - inter
  IN  union > 0 /\ inter * 100 > filter.nms * union

Clash(list, i, j) == Overlap(list[i].corner, list[j].corner)

\* A fault of Turn: of two equally confident boxes, both go.
TurnOnTies(list, kept, i) ==
  LET rivals == {j \in kept : j > i /\ Clash(list, i, j)}
      atLeast == {j \in rivals : Best(list[j]) >= Best(list[i])}
      even == {j \in rivals : Best(list[j]) = Best(list[i])}
  IN  IF i \notin kept THEN kept
      ELSE kept \ ((rivals \ atLeast) \cup even \cup (IF atLeast # {} THEN {i} ELSE {}))

\* The turn of box i: those behind it that overlap it go, until one of them is at least as
\* confident; then i goes.
Turn(list, kept, i) ==
  LET rivals == {j \in kept : j > i /\ Clash(list, i, j)}
      atLeast == {j \in rivals : Best(list[j]) >= Best(list[i])}
      beaten == {j \in rivals : \A k \in atLeast : j < k}
  IN  IF i \notin kept THEN kept
      ELSE kept \ (beaten \cup (IF atLeast # {} THEN {i} ELSE {}))

Kept(list) ==
  LET after[n \in 0 .. Len(list)] ==
        IF n = 0 THEN DOMAIN list ELSE Turn(list, after[n - 1], n)
  IN  after[Len(list)]

\* The list without what is not kept.
Select(list, kept) ==
  LET index[n \in 0 .. Len(list)] ==
        IF n = 0 THEN <<>>
        ELSE IF n \in kept THEN Append(index[n - 1], list[n]) ELSE index[n - 1]
  IN  index[Len(list)]

\* What Model_Inference() returns of the tensors.
Returned(boxes) ==
  LET list == Select(boxes, {i \in DOMAIN boxes : Decoded(boxes[i])})
  IN  Select(list, Kept(list))
-----------------------------------------------------------------------------
(* ImageProcess(): the filters, on the centre of a box.                    *)

Centre(corner) == <<corner.x + corner.w \div 2, corner.y + corner.h \div 2>>

InRectangle(p, r) == p[1] >= r.x1 /\ p[1] <= r.x2 /\ p[2] >= r.y1 /\ p[2] <= r.y2

\* point_in_polygon(): a ray to the right crosses an odd number of edges.
Crosses(p, a, b) ==
  /\ (a[2] > p[2]) # (b[2] > p[2])
  /\ LET run == (b[1] - a[1]) * (p[2] - a[2])
         rise == b[2] - a[2]
         left == (p[1] - a[1]) * rise
     IN  IF rise > 0 THEN left < run ELSE left > run

InPolygon(p, points) ==
  /\ Len(points) >= 3
  /\ Cardinality({i \in DOMAIN points :
       Crosses(p, points[i], points[IF i = 1 THEN Len(points) ELSE i - 1])}) % 2 = 1

InArea(p) ==
  IF Len(filter.polygon) >= 3 THEN InPolygon(p, filter.polygon) ELSE InRectangle(p, filter.area)

Excluded(p) ==
  \/ \E e \in filter.excluded : e.active /\ InPolygon(p, e.polygon)
  \/ InRectangle(p, filter.exclude)

Wanted(b) ==
  /\ Percent(b) >= filter.confidence
  /\ InArea(Centre(b.corner)) /\ ~Excluded(Centre(b.corner))
  /\ ClassOf(b) \notin filter.ignored
-----------------------------------------------------------------------------
\* One inference of ImageProcess().
Infer ==
  /\ tensor = <<>> /\ UNCHANGED filter
  /\ \E n \in 1 .. MaxBoxes : tensor' \in [1 .. n -> Boxes]
  /\ found' = Returned(tensor')
  /\ output' = SelectSeq(found', Wanted)

\* The lists of the frame are freed; the settings may be others for the next.
FrameEnds ==
  /\ tensor # <<>> /\ tensor' = <<>> /\ found' = <<>> /\ output' = <<>>
  /\ filter' \in Filters

Next == Infer \/ FrameEnds

Spec == Init /\ [][Next]_vars
-----------------------------------------------------------------------------
Confident(b) == Percent(b) >= filter.confidence /\ Best(b) > 0

\* No object is put out twice and none is lost to suppression: what Model_Inference()
\* returns does not overlap; a confident box is missing only if it overlaps one at least as
\* confident; and the most confident ones are not all lost, however the boxes form
\* chains (Model.c:983-1040, Model.c:397-415).
SuppressionIsSound ==
  LET confident == {i \in DOMAIN tensor : Confident(tensor[i])} IN
  /\ \A i, j \in DOMAIN found : i < j => ~Clash(found, i, j)
  /\ \A i \in confident :
       \/ tensor[i] \in Range(found)
       \/ \E j \in confident \ {i} : Clash(tensor, i, j) /\ Best(tensor[j]) >= Best(tensor[i])
  /\ \A i \in confident :
       (\A j \in confident : Best(tensor[j]) <= Best(tensor[i]))
         => \E k \in DOMAIN found : Best(found[k]) = Best(tensor[i])
=============================================================================
