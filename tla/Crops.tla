--------------------------------- MODULE Crops ---------------------------------
(***************************************************************************)
(* Detection crops: where a crop is cut from the frame (Model_GetImageData), *)
(* how often (Output), and the ring of the latest ones that the HTTP        *)
(* endpoint "crops" shows (Output_crop_cache.c, under its mutex).  The two  *)
(* axes of a picture are treated alike; there is one here.                  *)
(***************************************************************************)
EXTENDS Integers, Sequences

CONSTANTS
  Labels,       \* labels of detections
  None,         \* no entry, no crop
  Unit,         \* the whole picture in coordinates of detections: 1000
  Spans,        \* [x, w]: where detections are, in these coordinates
  Frames,       \* frames cut from: [size, view], the view in Unit-ths of the frame
  Borders,      \* settings of the borders: [before, after]
  Throttle,     \* least time between two crops
  RingSize,     \* CROP_HISTORY_SIZE: 10
  CacheSize,    \* MODEL_MAX_CACHED_CROPS: 5
  MaxTime       \* bound: the clock

ASSUME CropsAssumption ==
  /\ Unit \in Nat \ {0} /\ RingSize \in Nat \ {0} /\ CacheSize \in Nat
  /\ Spans \subseteq [x : Int, w : Int]
  /\ Frames \subseteq [size : Nat \ {0}, view : [x : Int, w : Int]]
  /\ Borders \subseteq [before : Nat, after : Nat]
  /\ Throttle \in Nat /\ MaxTime \in Nat

VARIABLES
  ring,     \* crop_history
  head,     \* crop_history_head
  count,    \* crop_history_count
  last,     \* last_output_time_ms
  cached,   \* numCropCache: the crops of this frame that Model.c frees with it
  now,      \* the clock
  crop      \* history: the crop cut last, with what it was cut for

history == <<ring, head, count>>
vars == <<history, last, cached, now, crop>>

Init ==
  /\ ring = [i \in 0 .. RingSize - 1 |-> None] /\ head = 0 /\ count = 0
  /\ last = 0 /\ cached = 0 /\ now = 0 /\ crop = None
-----------------------------------------------------------------------------
(* Model_GetImageData().                                                   *)

AtLeast(a, b) == IF a < b THEN b ELSE a
AtMost(a, b) == IF a > b THEN b ELSE a

\* round() of n / d, half away from zero.
Round(n, d) == IF n >= 0 THEN (2 * n + d) \div (2 * d) ELSE -((d - 2 * n) \div (2 * d))

\* A detection in pixels of the frame; the detector's picture is its view.
Pixels(span, frame) ==
  [at |-> Round((frame.view.x * Unit + span.x * frame.view.w) * frame.size, Unit * Unit),
   w |-> Round(span.w * frame.view.w * frame.size, Unit * Unit)]

\* A fault of Cut: what is cut off in front is not taken from the length.
CutUnclipped(object, border, size) ==
  LET from == AtLeast(object.at - border.before, 0)
  IN  [at |-> from, w |-> AtLeast(object.w + border.before + border.after, 1)]

\* The piece of the frame from the border before an object to the border after it.
Cut(object, border, size) ==
  LET start == object.at - border.before
      length == object.w + border.before + border.after
      from == AtLeast(start, 0)
      clipped == IF start < 0 THEN length + start ELSE length
  IN  [at |-> from,
       w |-> AtLeast(IF from + clipped > size THEN size - from ELSE clipped, 1)]

\* The object within the piece.
Within(object, piece) ==
  LET start == object.at - piece.at
      from == AtLeast(start, 0)
      clipped == IF start < 0 THEN object.w + start ELSE object.w
  IN  [at |-> from, w |-> AtLeast(IF from + clipped > piece.w THEN piece.w - from ELSE clipped, 1)]

\* A piece that starts behind the frame is not cut.
InFrame(piece, size) == piece.at < size

\* The box that Output() puts in the message and in the ring: the borders, whatever was
\* clipped.
Shown(border, piece) == [at |-> border.before, w |-> piece.w - border.before - border.after]
-----------------------------------------------------------------------------
(* output_crop_cache_add(), output_crop_cache_reset().                     *)

\* A fault of Add: the place to write next stays when the ring is full.
AddStays(entry) ==
  /\ ring' = [ring EXCEPT ![head] = entry]
  /\ head' = IF count < RingSize THEN (head + 1) % RingSize ELSE head
  /\ count' = IF count < RingSize THEN count + 1 ELSE count

Add(entry) ==
  /\ ring' = [ring EXCEPT ![head] = entry]
  /\ head' = (head + 1) % RingSize
  /\ count' = IF count < RingSize THEN count + 1 ELSE count

\* Output_init(): the ring is emptied.
Reset ==
  /\ ring' = [i \in 0 .. RingSize - 1 |-> None] /\ head' = 0 /\ count' = 0
  /\ UNCHANGED <<last, cached, now, crop>>

\* output_crop_cache_http_callback(): from the latest entry backwards.
Listed == [i \in 1 .. count |-> ring[(head - i + RingSize) % RingSize]]
-----------------------------------------------------------------------------
\* Output(): a detection of the frame, when the throttle lets one out.
Export(label, span, frame, border) ==
  LET object == Pixels(span, frame)
      piece == Cut(object, border, frame.size)
  IN  /\ now - last > Throttle
      /\ IF InFrame(piece, frame.size)
         THEN /\ crop' = [object |-> object, border |-> border, size |-> frame.size,
                          piece |-> piece, inside |-> Within(object, piece)]
              /\ cached' = AtMost(cached + 1, CacheSize)
              /\ Add([label |-> label, box |-> Shown(border, piece), size |-> piece.w])
              /\ last' = now
         ELSE UNCHANGED <<history, last, cached, crop>>
      /\ UNCHANGED now

\* Model_Reset(): the end of a frame.
FrameEnds == cached' = 0 /\ UNCHANGED <<history, last, now, crop>>

Tick == now < MaxTime /\ now' = now + 1 /\ UNCHANGED <<history, last, cached, crop>>

Next ==
  \/ \E label \in Labels, span \in Spans, frame \in Frames, border \in Borders :
       Export(label, span, frame, border)
  \/ Reset \/ FrameEnds \/ Tick

Spec == Init /\ [][Next]_vars
-----------------------------------------------------------------------------
\* A crop lies in the frame it is cut from, wherever the model puts the object and however
\* wide the borders are (hires_crop_rgb() does not check, Model.c:574-596); an object that
\* starts in the frame lies in its crop; and when the frame clips nothing, the box that
\* Output() shows is that object (Output.c:264-267, Model.c:694-728).
CropFits ==
  crop # None =>
    LET o == crop.object  b == crop.border  p == crop.piece  i == crop.inside IN
    /\ p.at >= 0 /\ p.w >= 1 /\ p.at + p.w <= crop.size
    /\ o.w >= 1 /\ o.at < crop.size => i.at >= 0 /\ i.w >= 1 /\ i.at + i.w <= p.w
    /\ o.w >= 1 /\ o.at >= b.before /\ o.at + o.w + b.after <= crop.size
         => Shown(b, p) = i /\ i.w = o.w

\* The list that the page shows starts with the crop cut last and keeps the others in their
\* order, of which the oldest goes when the ring is full ("Show most recent to least
\* recent", Output_crop_cache.c:103).
NewestFirst ==
  [][\/ Listed' = Listed
     \/ count' = 0
     \/ \E label \in Labels :
          LET entry == [label |-> label, box |-> Shown(crop'.border, crop'.piece),
                        size |-> crop'.piece.w]
          IN  Listed' = SubSeq(<<entry>> \o Listed, 1, AtMost(count + 1, RingSize))]_vars
=============================================================================
