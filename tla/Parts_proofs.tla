------------------------------ MODULE Parts_proofs ------------------------------
(***************************************************************************)
(* The parts that share no state: where crops are cut and how the latest    *)
(* ones are listed, the certificates in use, what the web server reads and  *)
(* the shutdown frees, what suppression returns for any number of boxes, and *)
(* the names that are read from any text.                                  *)
(***************************************************************************)
EXTENDS Parts, FiniteSetTheorems, SequenceTheorems, WellFoundedInduction, TLAPS
-----------------------------------------------------------------------------
(* Induction over the natural numbers, for sets of them.                   *)

LEMMA Least ==
  ASSUME NEW A \in SUBSET Nat, A # {}
  PROVE  \E m \in A : \A k \in A : m <= k
<1>. DEFINE T == {0 .. m : m \in A}
<1>1. T \subseteq FiniteSubsetsOf(Nat)
  <2>1. ASSUME NEW m \in A PROVE 0 .. m \in SUBSET Nat /\ IsFiniteSet(0 .. m)
    BY FS_Interval
  <2>. QED  BY <2>1 DEF FiniteSubsetsOf
<1>2. T # {}
  OBVIOUS
<1>3. PICK x \in T : \A y \in T : <<y, x>> \notin StrictSubsetOrdering(Nat)
  BY <1>1, <1>2, FS_StrictSubsetOrderingWellFounded, WFMin
<1>4. PICK m \in A : x = 0 .. m
  BY <1>3
<1>5. ASSUME NEW k \in A, k < m PROVE FALSE
  <2>1. k \in Nat /\ m \in Nat
    OBVIOUS
  <2>2. m \in 0 .. m /\ m \notin 0 .. k
    BY <1>5, <2>1
  <2>3. <<0 .. k, 0 .. m>> \in StrictSubsetOrdering(Nat)
    BY <1>5, <2>1, <2>2 DEF StrictSubsetOrdering
  <2>. QED  BY <1>3, <1>4, <2>3
<1>. QED  BY <1>5

LEMMA Induct ==
  ASSUME NEW S, 0 \in S, \A n \in Nat : n \in S => n + 1 \in S
  PROVE  Nat \subseteq S
<1>. SUFFICES ASSUME Nat \ S # {} PROVE FALSE
  OBVIOUS
<1>1. PICK m \in Nat \ S : \A k \in Nat \ S : m <= k
  <2>1. Nat \ S \in SUBSET Nat
    OBVIOUS
  <2>. QED  BY <2>1, Least
<1>2. m - 1 \in Nat /\ m - 1 \notin S
  BY <1>1
<1>. QED  BY <1>1, <1>2

\* There is a function that starts so and goes on so.
Recursive(L, S, base, step) ==
  \E f \in [0 .. L -> S] : f[0] = base /\ \A n \in 1 .. L : f[n] = step[n][f[n - 1]]

\* What is defined by recursion is there.
LEMMA Recursion ==
  ASSUME NEW L \in Nat, NEW S, NEW base \in S, NEW step \in [1 .. L -> [S -> S]]
  PROVE  Recursive(L, S, base, step)
<1>. DEFINE Starts(f) == f[0] = base
            Steps(f, k) == \A n \in 1 .. k : f[n] = step[n][f[n - 1]]
            Defined(k) == \E f \in [0 .. k -> S] : Starts(f) /\ Steps(f, k)
            A == {k \in Nat : k <= L => Defined(k)}
<1>1. 0 \in A
  <2>. DEFINE f == [n \in 0 .. 0 |-> base]
  <2>1. f \in [0 .. 0 -> S] /\ Starts(f) /\ Steps(f, 0)
    OBVIOUS
  <2>. HIDE DEF f, Starts, Steps
  <2>. QED  BY <2>1
<1>2. ASSUME NEW k \in Nat, k \in A PROVE k + 1 \in A
  <2>. SUFFICES ASSUME k + 1 <= L PROVE Defined(k + 1)
    OBVIOUS
  <2>1. PICK f \in [0 .. k -> S] : Starts(f) /\ Steps(f, k)
    <3>. HIDE DEF Starts, Steps
    <3>. QED  BY <1>2
  <2>. DEFINE g == [n \in 0 .. k + 1 |-> IF n <= k THEN f[n] ELSE step[k + 1][f[k]]]
  <2>2. step[k + 1][f[k]] \in S
    <3>1. k + 1 \in 1 .. L /\ f[k] \in S
      OBVIOUS
    <3>. QED  BY <3>1
  <2>3. g \in [0 .. k + 1 -> S]
    BY <2>2
  <2>4. /\ \A n \in 0 .. k : g[n] = f[n]
        /\ g[k + 1] = step[k + 1][f[k]]
    OBVIOUS
  <2>. HIDE DEF g
  <2>5. Starts(g) /\ Steps(g, k + 1)
    BY <2>1, <2>4
  <2>. HIDE DEF Starts, Steps
  <2>. QED  BY <2>3, <2>5
<1>3. L \in A
  <2>. HIDE DEF A
  <2>. QED  BY <1>1, <1>2, Induct
<1>. QED  BY <1>3 DEF Recursive
-----------------------------------------------------------------------------
(* The crops (Model.c, Output.c, Output_crop_cache.c).                     *)

Places == [at : Int, w : Int]

\* round() gives a number of pixels.
LEMMA RoundIsInt ==
  ASSUME NEW n \in Int, NEW d \in Nat \ {0}
  PROVE  Round(n, d) \in Int
<1>1. 2 * d \in Nat \ {0} /\ 2 * n + d \in Int /\ d - 2 * n \in Int
  OBVIOUS
<1>2. ASSUME NEW a \in Int, NEW b \in Nat \ {0} PROVE a \div b \in Int
  OBVIOUS
<1>3. (2 * n + d) \div (2 * d) \in Int /\ (d - 2 * n) \div (2 * d) \in Int
  BY <1>1, <1>2
<1>. QED  BY <1>3 DEF Round

\* A detection is somewhere, in whole pixels.
LEMMA PixelsAreInt ==
  ASSUME NEW span \in Spans, NEW frame \in Frames
  PROVE  Pixels(span, frame) \in Places
<1>1. span.x \in Int /\ span.w \in Int
  BY CropsAssumption
<1>2. frame.size \in Int /\ frame.view.x \in Int /\ frame.view.w \in Int
  BY CropsAssumption
<1>3. Unit * Unit \in Nat \ {0}
  <2>1. Unit \in Nat /\ Unit > 0
    BY CropsAssumption
  <2>. QED  BY <2>1
<1>4. ASSUME NEW a \in Int, NEW b \in Int PROVE a * b \in Int /\ a + b \in Int
  OBVIOUS
<1>5. Unit \in Int
  BY CropsAssumption
<1>6. (frame.view.x * Unit + span.x * frame.view.w) * frame.size \in Int
  BY <1>1, <1>2, <1>4, <1>5
<1>7. span.w * frame.view.w * frame.size \in Int
  BY <1>1, <1>2, <1>4
<1>. QED  BY <1>3, <1>6, <1>7, RoundIsInt DEF Pixels, Places

\* What is cut for a detection lies in the frame and holds what of the detection starts
\* in it; unclipped, the box shown is the detection's.
LEMMA CutFits ==
  ASSUME NEW o \in Places, NEW b \in [before : Nat, after : Nat], NEW size \in Nat,
         InFrame(Cut(o, b, size), size)
  PROVE  LET p == Cut(o, b, size)  i == Within(o, p) IN
         /\ p.at >= 0 /\ p.w >= 1 /\ p.at + p.w <= size
         /\ o.w >= 1 /\ o.at < size => i.at >= 0 /\ i.w >= 1 /\ i.at + i.w <= p.w
         /\ o.w >= 1 /\ o.at >= b.before /\ o.at + o.w + b.after <= size
              => Shown(b, p) = i /\ i.w = o.w
<1>. DEFINE p == Cut(o, b, size)
            i == Within(o, p)
<1>1. /\ o.at \in Int /\ o.w \in Int
      /\ b.before \in Nat /\ b.after \in Nat
  BY DEF Places
<1>2. p.at \in Int /\ p.w \in Int /\ i.at \in Int /\ i.w \in Int
  <2>1. p.at = AtLeast(o.at - b.before, 0)
    BY DEF Cut
  <2>2. p.at \in Int
    BY <1>1, <2>1 DEF AtLeast
  <2>3. PICK length \in Int :
          p.w = AtLeast(IF p.at + length > size THEN size - p.at ELSE length, 1)
    <3>1. CASE o.at - b.before < 0
      BY <1>1, <2>1, <3>1 DEF Cut
    <3>2. CASE ~(o.at - b.before < 0)
      BY <1>1, <2>1, <3>2 DEF Cut
    <3>. QED  BY <3>1, <3>2
  <2>4. p.w \in Int
    BY <2>2, <2>3 DEF AtLeast
  <2>. HIDE DEF p
  <2>5. i.at = AtLeast(o.at - p.at, 0)
    BY DEF Within
  <2>6. i.at \in Int
    BY <1>1, <2>2, <2>5 DEF AtLeast
  <2>7. PICK rest \in Int :
          i.w = AtLeast(IF i.at + rest > p.w THEN p.w - i.at ELSE rest, 1)
    <3>1. CASE o.at - p.at < 0
      BY <1>1, <2>2, <2>5, <3>1 DEF Within
    <3>2. CASE ~(o.at - p.at < 0)
      BY <1>1, <2>2, <2>5, <3>2 DEF Within
    <3>. QED  BY <3>1, <3>2
  <2>. QED  BY <2>2, <2>4, <2>6, <2>7 DEF AtLeast
<1>3. p.at < size
  BY DEF InFrame
<1>4. p.at >= 0 /\ p.w >= 1 /\ p.at + p.w <= size
  BY <1>1, <1>3 DEF Cut, AtLeast
<1>5. ASSUME o.w >= 1, o.at < size
      PROVE  i.at >= 0 /\ i.w >= 1 /\ i.at + i.w <= p.w
  <2>1. o.at - p.at < p.w
    BY <1>1, <1>3, <1>5 DEF Cut, AtLeast
  <2>. QED  BY <1>1, <1>2, <1>4, <1>5, <2>1 DEF Within, AtLeast
<1>6. ASSUME o.w >= 1, o.at >= b.before, o.at + o.w + b.after <= size
      PROVE  Shown(b, p) = i /\ i.w = o.w
  <2>1. p = [at |-> o.at - b.before, w |-> o.w + b.before + b.after]
    BY <1>1, <1>6 DEF Cut, AtLeast
  <2>2. i = [at |-> b.before, w |-> o.w]
    BY <1>1, <1>6, <2>1 DEF Within, AtLeast
  <2>. QED  BY <1>1, <2>1, <2>2 DEF Shown
<1>. QED  BY <1>4, <1>5, <1>6

\* Every crop that is ever exported fits: CropFits for every unit, frame, border and place
\* of a detection (Model_GetImageData, Model.c:651).  A step either leaves the last crop alone
\* or cuts one.
THEOREM CropsFit == Spec => []CropFits
<1>1. Init => CropFits
  BY DEF Init, CropFits
<1>2. CropFits /\ [Next]_vars => CropFits'
  <2>. SUFFICES ASSUME CropFits, [Next]_vars PROVE CropFits'
    OBVIOUS
  <2>1. ASSUME NEW label \in Labels, NEW span \in Spans, NEW frame \in Frames,
               NEW border \in Borders, Export(label, span, frame, border)
        PROVE  CropFits'
    <3>. DEFINE object == Pixels(span, frame)
                piece == Cut(object, border, frame.size)
    <3>1. CASE ~InFrame(piece, frame.size)
      BY <2>1, <3>1 DEF Export, CropFits
    <3>2. CASE InFrame(piece, frame.size)
      <4>1. object \in Places /\ border \in [before : Nat, after : Nat] /\ frame.size \in Nat
        BY PixelsAreInt, CropsAssumption
      <4>2. crop' = [object |-> object, border |-> border, size |-> frame.size,
                     piece |-> piece, inside |-> Within(object, piece)]
        BY <2>1, <3>2 DEF Export
      <4>. HIDE DEF object
      <4>3. LET p == Cut(object, border, frame.size)  i == Within(object, p) IN
            /\ p.at >= 0 /\ p.w >= 1 /\ p.at + p.w <= frame.size
            /\ object.w >= 1 /\ object.at < frame.size
                 => i.at >= 0 /\ i.w >= 1 /\ i.at + i.w <= p.w
            /\ object.w >= 1 /\ object.at >= border.before
               /\ object.at + object.w + border.after <= frame.size
                 => Shown(border, p) = i /\ i.w = object.w
        BY <3>2, <4>1, CutFits
      <4>. QED  BY <4>2, <4>3 DEF CropFits
    <3>. QED  BY <3>1, <3>2
  <2>2. CASE Reset
    BY <2>2 DEF Reset, CropFits
  <2>3. CASE FrameEnds
    BY <2>3 DEF FrameEnds, CropFits
  <2>4. CASE Tick
    BY <2>4 DEF Tick, CropFits
  <2>5. CASE UNCHANGED vars
    BY <2>5 DEF vars, CropFits
  <2>. QED  BY <2>1, <2>2, <2>3, <2>4, <2>5 DEF Next
<1>. QED  BY <1>1, <1>2, PTL DEF Spec
-----------------------------------------------------------------------------
(* The list of the latest crops.                                           *)

\* The ring and the places in it that the code reads and writes.
RingTyped ==
  /\ ring = [i \in 0 .. RingSize - 1 |-> ring[i]]
  /\ head \in 0 .. RingSize - 1
  /\ count \in 0 .. RingSize

\* A place less than two rounds on.
LEMMA RoundTheRing ==
  ASSUME NEW a \in Nat, a < 2 * RingSize
  PROVE  a % RingSize = IF a < RingSize THEN a ELSE a - RingSize
<1>1. RingSize \in Nat \ {0}
  BY CropsAssumption
<1>2. CASE a < RingSize
  BY <1>1, <1>2
<1>3. CASE a >= RingSize
  <2>1. a - RingSize \in Nat /\ a - RingSize < RingSize
    BY <1>1, <1>3
  <2>2. a = RingSize * 1 + (a - RingSize)
    BY <1>1
  <2>. QED  BY <1>1, <1>3, <2>1, <2>2
<1>. QED  BY <1>1, <1>2, <1>3

\* A crop that is added is listed first; those that were listed move one place on, and the
\* oldest is the one that is overwritten.
LEMMA AddedFirst ==
  ASSUME RingTyped, NEW entry, Add(entry)
  PROVE  /\ RingTyped'
         /\ Listed' = SubSeq(<<entry>> \o Listed, 1, AtMost(count + 1, RingSize))
<1> DEFINE n == AtMost(count + 1, RingSize)
           both == <<entry>> \o Listed
           place(i) == (head - i + RingSize) % RingSize
<1>1. /\ RingSize \in Nat \ {0} /\ head \in Nat /\ head < RingSize
      /\ count \in Nat /\ count <= RingSize
      /\ DOMAIN ring = 0 .. RingSize - 1
  BY CropsAssumption DEF RingTyped
<1>2. /\ ring' = [ring EXCEPT ![head] = entry]
      /\ head' = IF head + 1 < RingSize THEN head + 1 ELSE 0
      /\ count' = n /\ n \in 1 .. RingSize /\ n <= count + 1
  <2>1. (head + 1) % RingSize = IF head + 1 < RingSize THEN head + 1 ELSE 0
    <3>1. head + 1 \in Nat /\ head + 1 < 2 * RingSize
      BY <1>1
    <3>2. (head + 1) % RingSize = IF head + 1 < RingSize THEN head + 1 ELSE (head + 1) - RingSize
      BY <3>1, RoundTheRing
    <3>. QED  BY <1>1, <3>2
  <2>. QED  BY <1>1, <2>1 DEF Add, AtMost
<1>3. RingTyped'
  <2>1. ring' = [i \in 0 .. RingSize - 1 |-> ring'[i]]
    BY <1>1, <1>2
  <2>2. head' \in 0 .. RingSize - 1 /\ count' \in 0 .. RingSize
    <3>. HIDE DEF n
    <3>. QED  BY <1>1, <1>2
  <2>. QED  BY <2>1, <2>2 DEF RingTyped
<1>4. /\ Listed \in Seq({ring[i] : i \in 0 .. RingSize - 1}) /\ Len(Listed) = count
      /\ DOMAIN Listed = 1 .. count
      /\ \A i \in 1 .. count : Listed[i] = ring[place(i)]
  <2>1. \A i \in 1 .. count : place(i) \in 0 .. RingSize - 1
    <3>. TAKE i \in 1 .. count
    <3>1. head - i + RingSize \in Nat /\ head - i + RingSize < 2 * RingSize
      BY <1>1
    <3>. QED  BY <1>1, <3>1, RoundTheRing
  <2>. QED  BY <1>1, <2>1 DEF Listed
<1>5. /\ both \in Seq({ring[i] : i \in 0 .. RingSize - 1} \cup {entry})
      /\ Len(both) = count + 1
      /\ both[1] = entry
      /\ \A i \in 2 .. n : both[i] = Listed[i - 1]
  BY <1>1, <1>2, <1>4
<1>6. SubSeq(both, 1, n) = [i \in 1 .. n |-> both[i]]
  BY <1>1, <1>2, <1>5
<1>7. Listed' = [i \in 1 .. n |-> ring'[(head' - i + RingSize) % RingSize]]
  BY <1>2 DEF Listed
<1>8. ASSUME NEW i \in 1 .. n
      PROVE  ring'[(head' - i + RingSize) % RingSize] = both[i]
  <2>1. (head' - i + RingSize) % RingSize =
          IF head' < i THEN head' - i + RingSize ELSE head' - i
    <3>1. head' - i + RingSize \in Nat /\ head' - i + RingSize < 2 * RingSize
      BY <1>1, <1>2
    <3>. DEFINE a == head' - i + RingSize
    <3>2. a % RingSize = IF a < RingSize THEN a ELSE a - RingSize
      <4>. HIDE DEF a
      <4>1. a \in Nat /\ a < 2 * RingSize
        BY <3>1 DEF a
      <4>. QED  BY <4>1, RoundTheRing
    <3>3. head' \in Nat /\ i \in Nat /\ RingSize \in Nat
      BY <1>1, <1>2
    <3>4. \A h, r \in Nat : /\ (h - i) + r < r <=> h < i
                            /\ ((h - i) + r) - r = h - i
      BY <3>3
    <3>5. (a < RingSize <=> head' < i) /\ a - RingSize = head' - i
      BY <3>3, <3>4
    <3>. HIDE DEF a
    <3>6. a % RingSize = IF head' < i THEN a ELSE head' - i
      BY <3>2, <3>5
    <3>. QED  BY <3>6 DEF a
  <2>2. CASE i = 1
    <3>1. (head' - i + RingSize) % RingSize = head
      BY <1>1, <1>2, <2>1, <2>2
    <3>. QED  BY <1>1, <1>2, <1>5, <2>2, <3>1
  <2>3. CASE i # 1
    <3>1. i - 1 \in 1 .. count /\ i \in 2 .. n
      BY <1>1, <1>2, <2>3
    <3>2. place(i - 1) = IF head < i - 1 THEN head - (i - 1) + RingSize ELSE head - (i - 1)
      <4>1. head - (i - 1) + RingSize \in Nat /\ head - (i - 1) + RingSize < 2 * RingSize
        BY <1>1, <3>1
      <4>. DEFINE a == head - (i - 1) + RingSize
      <4>2. a % RingSize = IF a < RingSize THEN a ELSE a - RingSize
        <5>. HIDE DEF a
        <5>1. a \in Nat /\ a < 2 * RingSize
          BY <4>1 DEF a
        <5>. QED  BY <5>1, RoundTheRing
      <4>3. head \in Nat /\ i \in Nat /\ RingSize \in Nat
        BY <1>1, <3>1
      <4>. QED  BY <4>2, <4>3
    <3>3. (head' - i + RingSize) % RingSize = place(i - 1)
      BY <1>1, <1>2, <2>1, <3>1, <3>2
    <3>4. place(i - 1) # head /\ place(i - 1) \in 0 .. RingSize - 1
      BY <1>1, <1>2, <3>1, <3>2
    <3>5. ring'[place(i - 1)] = ring[place(i - 1)]
      BY <1>1, <1>2, <3>4
    <3>. QED  BY <1>4, <1>5, <3>1, <3>3, <3>5
  <2>. QED  BY <2>2, <2>3
<1> HIDE DEF n, both, place
<1>9. Listed' = SubSeq(both, 1, n)
  BY <1>6, <1>7, <1>8
<1>. QED  BY <1>3, <1>9 DEF n, both

\* What the page lists changes with what is in the ring, and with nothing else.
LEMMA ListKeeps == UNCHANGED history => Listed' = Listed
BY DEF history, Listed

\* The newest crop is first for any number of crops, any size of the ring, and however often
\* it is emptied (output_crop_cache_add, Output_crop_cache.c; its index wraps around).
THEOREM NewestAreFirst == Spec => NewestFirst
<1>. DEFINE AddsFirst ==
       \/ Listed' = Listed
       \/ count' = 0
       \/ \E label \in Labels :
            LET entry == [label |-> label, box |-> Shown(crop'.border, crop'.piece),
                          size |-> crop'.piece.w]
            IN  Listed' = SubSeq(<<entry>> \o Listed, 1, AtMost(count + 1, RingSize))
<1>1. Init => RingTyped
  BY CropsAssumption DEF Init, RingTyped
<1>2. ASSUME RingTyped, [Next]_vars
      PROVE  RingTyped' /\ AddsFirst
  <2>1. ASSUME NEW label \in Labels, NEW span \in Spans, NEW frame \in Frames,
               NEW border \in Borders, Export(label, span, frame, border)
        PROVE  RingTyped' /\ AddsFirst
    <3>. DEFINE object == Pixels(span, frame)
                piece == Cut(object, border, frame.size)
                entry == [label |-> label, box |-> Shown(border, piece), size |-> piece.w]
    <3>1. CASE ~InFrame(piece, frame.size)
      BY <1>2, <2>1, <3>1, ListKeeps DEF Export, RingTyped, history
    <3>2. CASE InFrame(piece, frame.size)
      <4>1. Add(entry) /\ crop'.border = border /\ crop'.piece = piece
        <5>. HIDE DEF object, piece
        <5>. QED  BY <2>1, <3>2 DEF Export, object, piece
      <4>. HIDE DEF object, piece
      <4>2. entry = [label |-> label, box |-> Shown(crop'.border, crop'.piece),
                     size |-> crop'.piece.w]
        BY <4>1
      <4>. HIDE DEF entry
      <4>3. RingTyped' /\ Listed' = SubSeq(<<entry>> \o Listed, 1, AtMost(count + 1, RingSize))
        BY <1>2, <4>1, AddedFirst
      <4>. QED  BY <4>2, <4>3
    <3>. QED  BY <3>1, <3>2
  <2>2. CASE Reset
    BY <2>2, CropsAssumption DEF Reset, RingTyped
  <2>3. CASE FrameEnds \/ Tick \/ UNCHANGED vars
    BY <1>2, <2>3, ListKeeps DEF FrameEnds, Tick, vars, RingTyped, history
  <2>. QED  BY <1>2, <2>1, <2>2, <2>3 DEF Next
<1>3. RingTyped /\ [Next]_vars => RingTyped' /\ [AddsFirst]_vars
  BY <1>2
<1>. QED  BY <1>1, <1>3, PTL DEF Spec, NewestFirst
-----------------------------------------------------------------------------
(* The certificates (CERTS.c).                                             *)

Consistent(f) ==
  /\ f \in known => file[f] # "none"
  /\ file[f] = "whole" => f \in known

\* The steps of a request between the file of its item and the item, and the step between
\* the file of a key and the key.
OfItem == {"write", "enter", "forget"}
Steps == OfItem \cup {"idle", "password", "phrase", "key", "forget key"}

RequestTyped ==
  /\ running \in BOOLEAN
  /\ file \in [Certificate!Files -> Certificate!Contents]
  /\ known \subseteq Certificate!Files
  /\ ~running => known = {} /\ request = "idle"
  /\ request \in Steps
  /\ item \in Certificate!Certs

\* The file of the item, where the request has left it.
FileIsLeft ==
  /\ request \in {"write", "enter", "password", "phrase"} => file[item] # "none"
  /\ request = "forget" => file[item] = "none"
  /\ request = "forget key" => file["keyfile"] = "none"
  /\ request \in {"password", "phrase"} => item = "keyfile"

\* Every certificate is consistent, but for that of the request.
OthersConsistent ==
  running =>
    \A f \in Certificate!Certs :
      \/ Consistent(f)
      \/ request \in OfItem /\ f = item
      \/ request = "forget key" /\ f = "keyfile"

CertificatesInv == RequestTyped /\ FileIsLeft /\ OthersConsistent

\* A POST or a DELETE begins.
LEMMA RequestKeeps ==
  ASSUME CertificatesInv, NEW f \in Certificate!Certs,
         Certificate!Post(f) \/ Certificate!Delete(f)
  PROVE  CertificatesInv'
<1>. USE DEF CertificatesInv, Certificate!At, Certificate!Goto, Certificate!Answer,
             Certificate!Holds, Certificate!Files, Certificate!Certs, Steps, OfItem
<1>1. CASE Certificate!Post(f)
  <2>1. RequestTyped'
    BY <1>1 DEF RequestTyped, FileIsLeft, Certificate!Contents, Certificate!Post
  <2>2. FileIsLeft'
    BY <1>1 DEF RequestTyped, FileIsLeft, Certificate!Post
  <2>3. OthersConsistent'
    BY <1>1 DEF RequestTyped, FileIsLeft, OthersConsistent, Consistent, Certificate!Post
  <2>. QED  BY <2>1, <2>2, <2>3
<1>2. CASE Certificate!Delete(f)
  <2>1. RequestTyped'
    BY <1>2 DEF RequestTyped, FileIsLeft, Certificate!Contents, Certificate!Delete
  <2>2. FileIsLeft'
    BY <1>2 DEF RequestTyped, FileIsLeft, Certificate!Delete
  <2>3. OthersConsistent'
    BY <1>2 DEF RequestTyped, FileIsLeft, OthersConsistent, Consistent, Certificate!Delete
  <2>. QED  BY <2>1, <2>2, <2>3
<1>. QED  BY <1>1, <1>2

\* A POST goes on.
LEMMA PostKeeps ==
  ASSUME CertificatesInv,
         \/ Certificate!Write \/ Certificate!Enter
         \/ Certificate!OpenPassword \/ Certificate!WritePassword
  PROVE  CertificatesInv'
<1>. USE DEF CertificatesInv, Certificate!At, Certificate!Goto, Certificate!Answer,
             Certificate!Holds, Certificate!Files, Certificate!Certs, Steps, OfItem
<1>1. CASE Certificate!Write
  <2>1. PICK left \in Certificate!Contents \ {"none"} : Certificate!Holds(item, left)
    <3>. DEFINE Gets(c) == file' = [file EXCEPT ![item] = c]
    <3>1. \/ \E c \in Certificate!Contents \ {"none"} : Gets(c)
          \/ \E c \in {"empty", "cut"} : Gets(c)
      BY <1>1 DEF Certificate!Write
    <3>. HIDE DEF Gets
    <3>2. \E c \in Certificate!Contents \ {"none"} : Gets(c)
      BY <3>1 DEF Certificate!Contents
    <3>. QED  BY <3>2 DEF Gets
  <2>2. running /\ request' \in {"enter", "idle"} /\ UNCHANGED <<running, known, item>>
    BY <1>1 DEF Certificate!Write
  <2>3. RequestTyped'
    <3>1. file' \in [Certificate!Files -> Certificate!Contents]
      BY <2>1 DEF RequestTyped
    <3>. QED  BY <2>2, <3>1 DEF RequestTyped
  <2>4. FileIsLeft'
    BY <2>1, <2>2 DEF RequestTyped, FileIsLeft
  <2>5. OthersConsistent'
    BY <1>1 DEF RequestTyped, FileIsLeft, OthersConsistent, Consistent, Certificate!Write
  <2>. QED  BY <2>3, <2>4, <2>5
<1>2. CASE Certificate!Enter
  <2>1. RequestTyped'
    BY <1>2 DEF RequestTyped, FileIsLeft, Certificate!Contents, Certificate!Enter
  <2>2. FileIsLeft'
    BY <1>2 DEF RequestTyped, FileIsLeft, Certificate!Enter
  <2>3. OthersConsistent'
    BY <1>2 DEF RequestTyped, FileIsLeft, OthersConsistent, Consistent, Certificate!Enter
  <2>. QED  BY <2>1, <2>2, <2>3
<1>3. CASE Certificate!OpenPassword
  <2>1. RequestTyped'
    BY <1>3 DEF RequestTyped, FileIsLeft, Certificate!Contents, Certificate!OpenPassword
  <2>2. FileIsLeft'
    BY <1>3 DEF RequestTyped, FileIsLeft, Certificate!OpenPassword
  <2>3. OthersConsistent'
    BY <1>3
       DEF RequestTyped, FileIsLeft, OthersConsistent, Consistent, Certificate!OpenPassword
  <2>. QED  BY <2>1, <2>2, <2>3
<1>4. CASE Certificate!WritePassword
  <2>1. RequestTyped'
    BY <1>4 DEF RequestTyped, FileIsLeft, Certificate!Contents, Certificate!WritePassword
  <2>2. FileIsLeft'
    BY <1>4 DEF RequestTyped, FileIsLeft, Certificate!WritePassword
  <2>3. OthersConsistent'
    BY <1>4
       DEF RequestTyped, FileIsLeft, OthersConsistent, Consistent, Certificate!WritePassword
  <2>. QED  BY <2>1, <2>2, <2>3
<1>. QED  BY <1>1, <1>2, <1>3, <1>4

\* A DELETE goes on.
LEMMA DeleteKeeps ==
  ASSUME CertificatesInv, Certificate!Forget \/ Certificate!DeleteKey \/ Certificate!ForgetKey
  PROVE  CertificatesInv'
<1>. USE DEF CertificatesInv, Certificate!At, Certificate!Goto, Certificate!Answer,
             Certificate!Holds, Certificate!Files, Certificate!Certs, Steps, OfItem
<1>1. CASE Certificate!Forget
  <2>1. RequestTyped'
    BY <1>1 DEF RequestTyped, FileIsLeft, Certificate!Contents, Certificate!Forget
  <2>2. FileIsLeft'
    BY <1>1 DEF RequestTyped, FileIsLeft, Certificate!Forget
  <2>3. OthersConsistent'
    BY <1>1 DEF RequestTyped, FileIsLeft, OthersConsistent, Consistent, Certificate!Forget
  <2>. QED  BY <2>1, <2>2, <2>3
<1>2. CASE Certificate!DeleteKey
  <2>1. RequestTyped'
    BY <1>2 DEF RequestTyped, FileIsLeft, Certificate!Contents, Certificate!DeleteKey
  <2>2. FileIsLeft'
    BY <1>2 DEF RequestTyped, FileIsLeft, Certificate!DeleteKey
  <2>3. OthersConsistent'
    BY <1>2 DEF RequestTyped, FileIsLeft, OthersConsistent, Consistent, Certificate!DeleteKey
  <2>. QED  BY <2>1, <2>2, <2>3
<1>3. CASE Certificate!ForgetKey
  <2>1. RequestTyped'
    BY <1>3 DEF RequestTyped, FileIsLeft, Certificate!Contents, Certificate!ForgetKey
  <2>2. FileIsLeft'
    BY <1>3 DEF RequestTyped, FileIsLeft, Certificate!ForgetKey
  <2>3. OthersConsistent'
    BY <1>3 DEF RequestTyped, FileIsLeft, OthersConsistent, Consistent, Certificate!ForgetKey
  <2>. QED  BY <2>1, <2>2, <2>3
<1>. QED  BY <1>1, <1>2, <1>3

\* The process starts and ends.
LEMMA ProcessKeeps ==
  ASSUME CertificatesInv, Certificate!Start \/ Certificate!Stop
  PROVE  CertificatesInv'
<1>. USE DEF CertificatesInv, Certificate!At, Certificate!Goto, Certificate!Answer,
             Certificate!Holds, Certificate!Files, Certificate!Certs, Steps, OfItem
<1>1. CASE Certificate!Start
  <2>1. RequestTyped'
    BY <1>1
       DEF RequestTyped, FileIsLeft, Certificate!Contents, Certificate!Start, Certificate!Loads
  <2>2. FileIsLeft'
    BY <1>1 DEF RequestTyped, FileIsLeft, Certificate!Start, Certificate!Loads
  <2>3. OthersConsistent'
    BY <1>1 DEF RequestTyped, FileIsLeft, OthersConsistent, Consistent, Certificate!Start,
       Certificate!Loads
  <2>. QED  BY <2>1, <2>2, <2>3
<1>2. CASE Certificate!Stop
  <2>1. RequestTyped'
    BY <1>2 DEF RequestTyped, FileIsLeft, Certificate!Contents, Certificate!Stop
  <2>2. FileIsLeft'
    BY <1>2 DEF RequestTyped, FileIsLeft, Certificate!Stop
  <2>3. OthersConsistent'
    BY <1>2 DEF RequestTyped, FileIsLeft, OthersConsistent, Consistent, Certificate!Stop
  <2>. QED  BY <2>1, <2>2, <2>3
<1>. QED  BY <1>1, <1>2

\* Between requests the certificates in use are those in the files, so that a restart neither
\* brings one back nor loses one that was saved whole (CERTS_HTTP_Callback, CERTS.c:106;
\* CERTS_Init, CERTS.c:315).
THEOREM UsedAsStored == Certificate!Spec => []Certificate!InUseAsStored
<1>1. Certificate!Init => CertificatesInv
  BY
     DEF Certificate!Init, CertificatesInv, RequestTyped, FileIsLeft, OthersConsistent,
         Certificate!Files, Certificate!Certs, Certificate!Contents, Steps,
     OfItem
<1>2. CertificatesInv /\ [Certificate!Next]_(Certificate!vars) => CertificatesInv'
  <2>. SUFFICES ASSUME CertificatesInv, [Certificate!Next]_(Certificate!vars)
                PROVE  CertificatesInv'
    OBVIOUS
  <2>1. CASE UNCHANGED Certificate!vars
    BY <2>1
       DEF Certificate!vars, CertificatesInv, RequestTyped, FileIsLeft, OthersConsistent,
           Consistent
  <2>. QED
    BY <2>1, RequestKeeps, PostKeeps, DeleteKeeps, ProcessKeeps DEF Certificate!Next
<1>3. CertificatesInv => Certificate!InUseAsStored
  BY DEF CertificatesInv, OthersConsistent, Consistent, Certificate!InUseAsStored, OfItem
<1>. QED  BY <1>1, <1>2, <1>3, PTL DEF Certificate!Spec
-----------------------------------------------------------------------------
(* The web server and the end of the process (ACAP.c).                     *)

\* The main thread before the HTTP thread is started, and after it is joined.
Early == {"create", "http"}
Late == {"modelStatus", "modelState", "mqttEnds", "detach",
         "freeStatus", "freeApp", "freeDevice", "done"}
Middle == {"status", "device", "app", "settings", "mqtt", "mqttConfig", "loop",
           "close", "tell", "cancel", "join"}
SetsStatus == {"loop", "modelStatus", "modelState"}
InHandler == {"handler", "holding", "answer"}

WebTyped ==
  /\ main \in Early \cup Middle \cup Late
  /\ http \in {"none", "between", "waiting", "dispatch", "over"} \cup InHandler
  /\ http \in InHandler \cup {"dispatch"} => asked \in Web!Nodes
  /\ mutex = "main" => main \in SetsStatus
  /\ memory \in [Web!Objects -> {"absent", "live", "freed", "twice"}]
  /\ owned \subseteq {"status", "device", "mqtt"}

\* The HTTP thread is there only while the main thread thinks so.
ThreadIsKnown ==
  /\ main \in Early => http = "none" /\ ~initialized
  /\ main \in Late => ~initialized
  /\ ~initialized => http \in {"none", "over"}

\* Each object lives from where it is made to where it is freed.
Lives ==
  /\ main \notin {"create", "freeDevice", "done"} => memory["app"] = "live"
  /\ main \notin Early \cup {"status", "freeApp", "freeDevice", "done"} =>
       memory["status"] = "live"
  /\ main \notin Early \cup {"status", "device", "done"} => memory["device"] = "live"
  /\ main \notin {"freeApp", "freeDevice", "done"} =>
       \A o \in Web!Objects : memory[o] \in {"absent", "live"}

\* What `app` holds lives, and what is freed by itself is not held any more.
OwnedLives ==
  /\ \A o \in owned : memory[o] = "live"
  /\ main \in {"freeStatus", "freeApp", "freeDevice"} => owned \subseteq {"mqtt"}

WebInv ==
  /\ WebTyped /\ ThreadIsKnown /\ Lives /\ OwnedLives
  /\ \A o \in Web!Objects : memory[o] # "twice"

\* A handler runs only in the middle of the process, where nothing is freed.
LEMMA WebInvIsEnough == WebInv => Web!MemoryIsSound
<1>. SUFFICES ASSUME WebInv, http \in InHandler
              PROVE  \A o \in Web!Reads[asked] : memory[o] \in {"absent", "live"}
  BY DEF WebInv, Web!MemoryIsSound, InHandler
<1>1. main \in Middle
  BY DEF WebInv, WebTyped, ThreadIsKnown, InHandler
<1>2. \A o \in Web!Objects : memory[o] \in {"absent", "live"}
  BY <1>1 DEF WebInv, Lives, Middle
<1>3. Web!Reads[asked] \subseteq Web!Objects
  <2>1. asked \in Web!Nodes /\ owned \subseteq Web!Objects
    BY DEF WebInv, WebTyped, InHandler, Web!Objects
  <2>2. /\ Web!Reads["status"] = {"status"} /\ Web!Reads["app"] = {"app"} \cup owned
        /\ Web!Reads["settings"] = {"app"} /\ Web!Reads["mqtt"] = {"mqtt"}
    BY DEF Web!Reads
  <2>. QED  BY <2>1, <2>2 DEF Web!Nodes, Web!Objects
<1>. QED  BY <1>2, <1>3

\* Where the main thread sets the status, and where it goes from there.
LEMMA WhereStatusIsSet ==
  /\ DOMAIN Web!AfterStatus = SetsStatus
  /\ Web!AfterStatus["loop"] = "loop"
  /\ Web!AfterStatus["modelStatus"] = "modelState"
  /\ Web!AfterStatus["modelState"] = "mqttEnds"
BY DEF Web!AfterStatus, SetsStatus

\* The main thread sets up.
LEMMA SetUpKeeps == ASSUME WebInv, Web!SetUp PROVE WebInv'
<1>. USE DEF WebInv, WebTyped, ThreadIsKnown, Lives, OwnedLives, Early, Middle, Late,
             SetsStatus, InHandler, Web!Goto, Web!Objects, Web!Nobody
<1>1. CASE Web!Create
  <2>1. WebTyped'
    BY <1>1 DEF Web!Create, Web!serverVars
  <2>2. ThreadIsKnown'
    BY <1>1 DEF Web!Create, Web!serverVars
  <2>3. Lives'
    BY <1>1 DEF Web!Create, Web!serverVars
  <2>4. OwnedLives'
    BY <1>1 DEF Web!Create, Web!serverVars
  <2>5. \A o \in Web!Objects : memory'[o] # "twice"
    BY <1>1 DEF Web!Create, Web!serverVars
  <2>. QED  BY <2>1, <2>2, <2>3, <2>4, <2>5
<1>2. CASE Web!StartThread
  <2>1. WebTyped'
    BY <1>2 DEF Web!StartThread
  <2>2. ThreadIsKnown'
    BY <1>2 DEF Web!StartThread
  <2>3. Lives'
    BY <1>2 DEF Web!StartThread
  <2>4. OwnedLives'
    BY <1>2 DEF Web!StartThread
  <2>5. \A o \in Web!Objects : memory'[o] # "twice"
    BY <1>2 DEF Web!StartThread
  <2>. QED  BY <2>1, <2>2, <2>3, <2>4, <2>5
<1>3. CASE Web!AddStatus
  <2>1. WebTyped'
    BY <1>3 DEF Web!AddStatus
  <2>2. ThreadIsKnown'
    BY <1>3 DEF Web!AddStatus
  <2>3. Lives'
    BY <1>3 DEF Web!AddStatus
  <2>4. OwnedLives'
    BY <1>3 DEF Web!AddStatus
  <2>5. \A o \in Web!Objects : memory'[o] # "twice"
    BY <1>3 DEF Web!AddStatus
  <2>. QED  BY <2>1, <2>2, <2>3, <2>4, <2>5
<1>4. CASE Web!AddDevice
  <2>1. WebTyped'
    BY <1>4 DEF Web!AddDevice, Web!serverVars
  <2>2. ThreadIsKnown'
    BY <1>4 DEF Web!AddDevice, Web!serverVars
  <2>3. Lives'
    BY <1>4 DEF Web!AddDevice, Web!serverVars
  <2>4. OwnedLives'
    BY <1>4 DEF Web!AddDevice, Web!serverVars
  <2>5. \A o \in Web!Objects : memory'[o] # "twice"
    BY <1>4 DEF Web!AddDevice, Web!serverVars
  <2>. QED  BY <2>1, <2>2, <2>3, <2>4, <2>5
<1>5. CASE Web!AddMqtt
  <2>1. WebTyped'
    BY <1>5, WhereStatusIsSet DEF Web!AddMqtt, Web!serverVars
  <2>2. ThreadIsKnown'
    BY <1>5, WhereStatusIsSet DEF Web!AddMqtt, Web!serverVars
  <2>3. Lives'
    BY <1>5, WhereStatusIsSet DEF Web!AddMqtt, Web!serverVars
  <2>4. OwnedLives'
    BY <1>5, WhereStatusIsSet DEF Web!AddMqtt, Web!serverVars
  <2>5. \A o \in Web!Objects : memory'[o] # "twice"
    BY <1>5, WhereStatusIsSet DEF Web!AddMqtt, Web!serverVars
  <2>. QED  BY <2>1, <2>2, <2>3, <2>4, <2>5
<1>6. CASE \/ Web!Register("app", "settings") \/ Web!Register("settings", "mqtt")
           \/ Web!Register("mqtt", "mqttConfig")
  <2>1. WebTyped'
    BY <1>6 DEF Web!Register
  <2>2. ThreadIsKnown'
    BY <1>6 DEF Web!Register
  <2>3. Lives'
    BY <1>6 DEF Web!Register
  <2>4. OwnedLives'
    BY <1>6 DEF Web!Register
  <2>5. \A o \in Web!Objects : memory'[o] # "twice"
    BY <1>6 DEF Web!Register
  <2>. QED  BY <2>1, <2>2, <2>3, <2>4, <2>5
<1>. QED  BY <1>1, <1>2, <1>3, <1>4, <1>5, <1>6 DEF Web!SetUp

\* The status is set, and the main loop ends.
LEMMA StatusKeeps == ASSUME WebInv, Web!LockStatus \/ Web!StatusIsSet \/ Web!Quit PROVE WebInv'
<1>. USE DEF WebInv, WebTyped, ThreadIsKnown, Lives, OwnedLives, Early, Middle, Late,
             SetsStatus, InHandler, Web!Goto, Web!Objects, Web!Nobody
<1>1. CASE Web!LockStatus
  <2>1. WebTyped'
    BY <1>1, WhereStatusIsSet DEF Web!LockStatus, Web!serverVars
  <2>2. ThreadIsKnown'
    BY <1>1, WhereStatusIsSet DEF Web!LockStatus, Web!serverVars
  <2>3. Lives'
    BY <1>1, WhereStatusIsSet DEF Web!LockStatus, Web!serverVars
  <2>4. OwnedLives'
    BY <1>1, WhereStatusIsSet DEF Web!LockStatus, Web!serverVars
  <2>5. \A o \in Web!Objects : memory'[o] # "twice"
    BY <1>1, WhereStatusIsSet DEF Web!LockStatus, Web!serverVars
  <2>. QED  BY <2>1, <2>2, <2>3, <2>4, <2>5
<1>2. CASE Web!StatusIsSet
  <2>1. WebTyped'
    BY <1>2, WhereStatusIsSet DEF Web!StatusIsSet, Web!serverVars
  <2>2. ThreadIsKnown'
    BY <1>2, WhereStatusIsSet DEF Web!StatusIsSet, Web!serverVars
  <2>3. Lives'
    BY <1>2, WhereStatusIsSet DEF Web!StatusIsSet, Web!serverVars
  <2>4. OwnedLives'
    BY <1>2, WhereStatusIsSet DEF Web!StatusIsSet, Web!serverVars
  <2>5. \A o \in Web!Objects : memory'[o] # "twice"
    BY <1>2, WhereStatusIsSet DEF Web!StatusIsSet, Web!serverVars
  <2>. QED  BY <2>1, <2>2, <2>3, <2>4, <2>5
<1>3. CASE Web!Quit
  <2>1. WebTyped'
    BY <1>3, WhereStatusIsSet DEF Web!Quit, Web!serverVars
  <2>2. ThreadIsKnown'
    BY <1>3, WhereStatusIsSet DEF Web!Quit, Web!serverVars
  <2>3. Lives'
    BY <1>3, WhereStatusIsSet DEF Web!Quit, Web!serverVars
  <2>4. OwnedLives'
    BY <1>3, WhereStatusIsSet DEF Web!Quit, Web!serverVars
  <2>5. \A o \in Web!Objects : memory'[o] # "twice"
    BY <1>3, WhereStatusIsSet DEF Web!Quit, Web!serverVars
  <2>. QED  BY <2>1, <2>2, <2>3, <2>4, <2>5
<1>. QED  BY <1>1, <1>2, <1>3

\* The process is taken down.
LEMMA ShutDownKeeps == ASSUME WebInv, Web!ShutDown PROVE WebInv'
<1>. USE DEF WebInv, WebTyped, ThreadIsKnown, Lives, OwnedLives, Early, Middle, Late,
             SetsStatus, InHandler, Web!Goto, Web!Objects, Web!Nobody
<1>1. CASE Web!CloseSocket \/ Web!TellThread \/ Web!Cancel
  <2>1. WebTyped'
    BY <1>1 DEF Web!CloseSocket, Web!TellThread, Web!Cancel
  <2>2. ThreadIsKnown'
    BY <1>1 DEF Web!CloseSocket, Web!TellThread, Web!Cancel
  <2>3. Lives'
    BY <1>1 DEF Web!CloseSocket, Web!TellThread, Web!Cancel
  <2>4. OwnedLives'
    BY <1>1 DEF Web!CloseSocket, Web!TellThread, Web!Cancel
  <2>5. \A o \in Web!Objects : memory'[o] # "twice"
    BY <1>1 DEF Web!CloseSocket, Web!TellThread, Web!Cancel
  <2>. QED  BY <2>1, <2>2, <2>3, <2>4, <2>5
<1>2. CASE Web!Join
  <2>1. WebTyped'
    BY <1>2, WhereStatusIsSet DEF Web!Join
  <2>2. ThreadIsKnown'
    BY <1>2, WhereStatusIsSet DEF Web!Join
  <2>3. Lives'
    BY <1>2, WhereStatusIsSet DEF Web!Join
  <2>4. OwnedLives'
    BY <1>2, WhereStatusIsSet DEF Web!Join
  <2>5. \A o \in Web!Objects : memory'[o] # "twice"
    BY <1>2, WhereStatusIsSet DEF Web!Join
  <2>. QED  BY <2>1, <2>2, <2>3, <2>4, <2>5
<1>3. CASE Web!MqttEnds
  <2>1. WebTyped'
    BY <1>3, WhereStatusIsSet DEF Web!MqttEnds, Web!serverVars
  <2>2. ThreadIsKnown'
    BY <1>3, WhereStatusIsSet DEF Web!MqttEnds, Web!serverVars
  <2>3. Lives'
    BY <1>3, WhereStatusIsSet DEF Web!MqttEnds, Web!serverVars
  <2>4. OwnedLives'
    BY <1>3, WhereStatusIsSet DEF Web!MqttEnds, Web!serverVars
  <2>5. \A o \in Web!Objects : memory'[o] # "twice"
    BY <1>3, WhereStatusIsSet DEF Web!MqttEnds, Web!serverVars
  <2>. QED  BY <2>1, <2>2, <2>3, <2>4, <2>5
<1>4. CASE Web!Detach
  <2>1. WebTyped'
    BY <1>4 DEF Web!Detach, Web!Detached, Web!serverVars
  <2>2. ThreadIsKnown'
    BY <1>4 DEF Web!Detach, Web!Detached, Web!serverVars
  <2>3. Lives'
    BY <1>4 DEF Web!Detach, Web!Detached, Web!serverVars
  <2>4. OwnedLives'
    BY <1>4 DEF Web!Detach, Web!Detached, Web!serverVars
  <2>5. \A o \in Web!Objects : memory'[o] # "twice"
    BY <1>4 DEF Web!Detach, Web!Detached, Web!serverVars
  <2>. QED  BY <2>1, <2>2, <2>3, <2>4, <2>5
<1>5. CASE Web!FreeObjects
  <2>1. WebTyped'
    <3>1. memory' \in [Web!Objects -> {"absent", "live", "freed", "twice"}]
      BY <1>5 DEF Web!FreeObjects, Web!Freed
    <3>2. /\ main' \in Late /\ mutex' = mutex /\ http' = http /\ asked' = asked
          /\ main \notin SetsStatus /\ owned' \subseteq owned
      BY <1>5 DEF Web!FreeObjects
    <3>. QED  BY <3>1, <3>2
  <2>2. ThreadIsKnown'
    BY <1>5 DEF Web!FreeObjects, Web!Freed
  <2>3. Lives'
    BY <1>5 DEF Web!FreeObjects, Web!Freed
  <2>4. OwnedLives'
    BY <1>5 DEF Web!FreeObjects, Web!Freed
  <2>5. \A o \in Web!Objects : memory'[o] # "twice"
    BY <1>5 DEF Web!FreeObjects, Web!Freed
  <2>. QED  BY <2>1, <2>2, <2>3, <2>4, <2>5
<1>. QED  BY <1>1, <1>2, <1>3, <1>4, <1>5 DEF Web!ShutDown

\* The HTTP thread changes nothing that the main thread goes by.
LEMMA ServeKeeps == ASSUME WebInv, Web!Serve \/ Web!Request \/ Web!NoRequest PROVE WebInv'
<1>. USE DEF WebInv, WebTyped, ThreadIsKnown, Lives, OwnedLives, Early, Middle, Late,
             SetsStatus, InHandler, Web!Goto, Web!Objects, Web!Nobody
<1>1. CASE Web!TurnAround
  <2>1. WebTyped'
    BY <1>1 DEF Web!TurnAround
  <2>2. ThreadIsKnown'
    BY <1>1 DEF Web!TurnAround
  <2>3. Lives'
    BY <1>1 DEF Web!TurnAround
  <2>4. OwnedLives'
    BY <1>1 DEF Web!TurnAround
  <2>5. \A o \in Web!Objects : memory'[o] # "twice"
    BY <1>1 DEF Web!TurnAround
  <2>. QED  BY <2>1, <2>2, <2>3, <2>4, <2>5
<1>2. CASE Web!Request \/ Web!NoRequest
  <2>1. WebTyped'
    BY <1>2 DEF Web!Request, Web!NoRequest, Web!serverVars
  <2>2. ThreadIsKnown'
    BY <1>2 DEF Web!Request, Web!NoRequest, Web!serverVars
  <2>3. Lives'
    BY <1>2 DEF Web!Request, Web!NoRequest, Web!serverVars
  <2>4. OwnedLives'
    BY <1>2 DEF Web!Request, Web!NoRequest, Web!serverVars
  <2>5. \A o \in Web!Objects : memory'[o] # "twice"
    BY <1>2 DEF Web!Request, Web!NoRequest, Web!serverVars
  <2>. QED  BY <2>1, <2>2, <2>3, <2>4, <2>5
<1>3. CASE Web!Dispatch \/ Web!Answer
  <2>1. WebTyped'
    BY <1>3 DEF Web!Dispatch, Web!Answer, Web!serverVars
  <2>2. ThreadIsKnown'
    BY <1>3 DEF Web!Dispatch, Web!Answer, Web!serverVars
  <2>3. Lives'
    BY <1>3 DEF Web!Dispatch, Web!Answer, Web!serverVars
  <2>4. OwnedLives'
    BY <1>3 DEF Web!Dispatch, Web!Answer, Web!serverVars
  <2>5. \A o \in Web!Objects : memory'[o] # "twice"
    BY <1>3 DEF Web!Dispatch, Web!Answer, Web!serverVars
  <2>. QED  BY <2>1, <2>2, <2>3, <2>4, <2>5
<1>4. CASE Web!LocksStatus \/ Web!UnlocksStatus
  <2>1. WebTyped'
    BY <1>4 DEF Web!LocksStatus, Web!UnlocksStatus, Web!serverVars
  <2>2. ThreadIsKnown'
    BY <1>4 DEF Web!LocksStatus, Web!UnlocksStatus, Web!serverVars
  <2>3. Lives'
    BY <1>4 DEF Web!LocksStatus, Web!UnlocksStatus, Web!serverVars
  <2>4. OwnedLives'
    BY <1>4 DEF Web!LocksStatus, Web!UnlocksStatus, Web!serverVars
  <2>5. \A o \in Web!Objects : memory'[o] # "twice"
    BY <1>4 DEF Web!LocksStatus, Web!UnlocksStatus, Web!serverVars
  <2>. QED  BY <2>1, <2>2, <2>3, <2>4, <2>5
<1>5. CASE Web!Cancelled
  <2>1. WebTyped'
    BY <1>5 DEF Web!Cancelled, Web!Cancellable, Web!serverVars
  <2>2. ThreadIsKnown'
    BY <1>5 DEF Web!Cancelled, Web!Cancellable, Web!serverVars
  <2>3. Lives'
    BY <1>5 DEF Web!Cancelled, Web!Cancellable, Web!serverVars
  <2>4. OwnedLives'
    BY <1>5 DEF Web!Cancelled, Web!Cancellable, Web!serverVars
  <2>5. \A o \in Web!Objects : memory'[o] # "twice"
    BY <1>5 DEF Web!Cancelled, Web!Cancellable, Web!serverVars
  <2>. QED  BY <2>1, <2>2, <2>3, <2>4, <2>5
<1>. QED  BY <1>1, <1>2, <1>3, <1>4, <1>5 DEF Web!Serve

\* No object is freed twice, and no handler runs on a freed one, however far start-up had
\* got and wherever a request is when the process is told to stop (ACAP.c:315, ACAP.c:2499).
THEOREM MemorySound == Web!Spec => []Web!MemoryIsSound
<1>. USE DEF WebInv, WebTyped, ThreadIsKnown, Lives, OwnedLives
<1>. USE DEF Early, Middle, Late, InHandler, Web!Objects, Web!Nobody
<1>1. Web!Init => WebInv
  BY DEF Web!Init
<1>2. WebInv /\ [Web!Next]_(Web!vars) => WebInv'
  <2>. SUFFICES ASSUME WebInv, [Web!Next]_(Web!vars) PROVE WebInv'
    OBVIOUS
  <2>1. CASE Web!Boot
    BY <2>1 DEF Web!Boot
  <2>2. CASE UNCHANGED Web!vars
    BY <2>2 DEF Web!vars, Web!serverVars
  <2>. QED
    BY <2>1, <2>2, SetUpKeeps, StatusKeeps, ShutDownKeeps, ServeKeeps
       DEF Web!Next, Web!MainSteps
<1>. QED  BY <1>1, <1>2, WebInvIsEnough, PTL DEF Web!Spec
-----------------------------------------------------------------------------
(* Boxes.                                                                  *)

\* A box has a best score, which is a number.
LEMMA BestIsInt ==
  ASSUME NEW b \in Frame!Boxes
  PROVE  Frame!Best(b) \in Int
<1>. DEFINE s == b.scores
            Highest(n) == \E m \in 1 .. n : \A k \in 1 .. n : s[k] <= s[m]
            S == {n \in Nat : n \in 1 .. Classes => Highest(n)}
<1>1. s \in [1 .. Classes -> Int] /\ Classes \in Nat \ {0}
  BY DetectionsAssumption DEF Frame!Boxes
<1>. HIDE DEF s
<1>2. 0 \in S
  OBVIOUS
<1>3. ASSUME NEW n \in Nat, n \in S PROVE n + 1 \in S
  <2>. SUFFICES ASSUME n + 1 \in 1 .. Classes PROVE Highest(n + 1)
    OBVIOUS
  <2>1. CASE n = 0
    <3>1. \A k \in 1 .. n + 1 : s[k] <= s[1]
      BY <1>1, <2>1
    <3>. QED  BY <2>1, <3>1
  <2>2. CASE n # 0
    <3>1. PICK m \in 1 .. n : \A k \in 1 .. n : s[k] <= s[m]
      <4>1. n \in 1 .. Classes
        BY <1>1, <2>2
      <4>. QED  BY <1>3, <4>1
    <3>2. CASE s[n + 1] <= s[m]
      <4>1. \A k \in 1 .. n + 1 : s[k] <= s[m]
        BY <3>1, <3>2
      <4>. QED  BY <4>1
    <3>3. CASE ~(s[n + 1] <= s[m])
      <4>1. \A k \in 1 .. n + 1 : s[k] <= s[n + 1]
        BY <1>1, <3>1, <3>3
      <4>. QED  BY <4>1
    <3>. QED  BY <3>2, <3>3
  <2>. QED  BY <2>1, <2>2
<1>4. Nat \subseteq S
  <2>. HIDE DEF S
  <2>. QED  BY <1>2, <1>3, Induct
<1>5. PICK m \in 1 .. Classes : \A k \in 1 .. Classes : s[k] <= s[m]
  <2>1. Classes \in S
    <3>. HIDE DEF S
    <3>. QED  BY <1>1, <1>4
  <2>. QED  BY <1>1, <2>1
<1>6. s[m] \in Frame!Range(s) /\ \A u \in Frame!Range(s) : u <= s[m]
  BY <1>1, <1>5 DEF Frame!Range
<1>7. Frame!Best(b) \in Frame!Range(s)
  BY <1>6 DEF Frame!Best, s
<1>. QED  BY <1>1, <1>7 DEF Frame!Range

Lists == Seq(Frame!Boxes)

LEMMA ListsHaveBoxes ==
  ASSUME NEW list \in Lists
  PROVE  /\ Len(list) \in Nat /\ DOMAIN list = 1 .. Len(list)
         /\ \A i \in DOMAIN list : /\ list[i] \in Frame!Boxes
                                   /\ list[i].corner \in Corners
                                   /\ Frame!Best(list[i]) \in Int
<1>1. \A i \in DOMAIN list : list[i] \in Frame!Boxes
  BY DEF Lists
<1>2. \A b \in Frame!Boxes : b.corner \in Corners
  BY DEF Frame!Boxes
<1>. QED  BY <1>1, <1>2, BestIsInt DEF Lists

\* Two boxes overlap whichever is named first.
LEMMA ClashIsMutual ==
  ASSUME NEW list \in Lists, NEW i \in DOMAIN list, NEW j \in DOMAIN list
  PROVE  Frame!Clash(list, i, j) <=> Frame!Clash(list, j, i)
<1>1. ASSUME NEW ax \in Int, NEW aw \in Int, NEW bx \in Int, NEW bw \in Int
      PROVE  Frame!Shared(ax, aw, bx, bw) = Frame!Shared(bx, bw, ax, aw)
  BY DEF Frame!Shared, Frame!LesserOf, Frame!GreaterOf
<1>2. ASSUME NEW a \in Corners, NEW b \in Corners
      PROVE  Frame!Overlap(a, b) <=> Frame!Overlap(b, a)
  <2>1. /\ a.x \in Int /\ a.y \in Int /\ a.w \in Int /\ a.h \in Int
        /\ b.x \in Int /\ b.y \in Int /\ b.w \in Int /\ b.h \in Int
    BY DetectionsAssumption
  <2>2. /\ Frame!Shared(a.x, a.w, b.x, b.w) = Frame!Shared(b.x, b.w, a.x, a.w)
        /\ Frame!Shared(a.y, a.h, b.y, b.h) = Frame!Shared(b.y, b.h, a.y, a.h)
    BY <1>1, <2>1
  <2>. DEFINE common(c, d) ==
                Frame!Shared(c.x, c.w, d.x, d.w) * Frame!Shared(c.y, c.h, d.y, d.h)
              both(c, d) == c.w * c.h + d.w * d.h - common(c, d)
  <2>3. common(a, b) = common(b, a) /\ common(a, b) \in Int
    BY <2>1, <2>2 DEF Frame!Shared, Frame!LesserOf, Frame!GreaterOf
  <2>4. both(a, b) = both(b, a)
    <3>1. a.w * a.h \in Int /\ b.w * b.h \in Int
      BY <2>1
    <3>. HIDE DEF common
    <3>. QED  BY <2>3, <3>1
  <2>5. ASSUME NEW c, NEW d
        PROVE  Frame!Overlap(c, d) <=>
                 both(c, d) > 0 /\ common(c, d) * 100 > filter.nms * both(c, d)
    BY DEF Frame!Overlap
  <2>. HIDE DEF common, both
  <2>. QED  BY <2>3, <2>4, <2>5
<1>. QED  BY <1>2, ListsHaveBoxes DEF Frame!Clash
-----------------------------------------------------------------------------
(* non_maximum_suppression().                                              *)

\* What is promised of the boxes that are still kept when n of them have had their turn:
\* those do not overlap others that are kept; who is gone overlaps one as confident; and one of
\* the most confident boxes is left.
Promised(list, kept, n) ==
  /\ kept \subseteq DOMAIN list
  /\ \A i, j \in kept : i <= n /\ i < j => ~Frame!Clash(list, i, j)
  /\ \A i \in DOMAIN list \ kept :
       \E j \in DOMAIN list \ {i} :
         Frame!Clash(list, i, j) /\ Frame!Best(list[i]) <= Frame!Best(list[j])
  /\ \A i \in DOMAIN list :
       (\A j \in DOMAIN list : Frame!Best(list[j]) <= Frame!Best(list[i]))
         => \E k \in kept : Frame!Best(list[k]) = Frame!Best(list[i])

LEMMA TurnKeepsPromise ==
  ASSUME NEW list \in Lists, NEW n \in 1 .. Len(list), NEW kept,
         Promised(list, kept, n - 1)
  PROVE  Promised(list, Frame!Turn(list, kept, n), n)
<1>. DEFINE D == DOMAIN list
            best(i) == Frame!Best(list[i])
            clash(i, j) == Frame!Clash(list, i, j)
            rivals == {j \in kept : j > n /\ clash(n, j)}
            atLeast == {j \in rivals : best(j) >= best(n)}
            beaten == {j \in rivals : \A k \in atLeast : j < k}
            turned == Frame!Turn(list, kept, n)
            Top(i) == \A j \in D : best(j) <= best(i)
<1>1. /\ D \subseteq Int /\ n \in D
      /\ \A i \in D : best(i) \in Int
      /\ \A i, j \in D : clash(i, j) <=> clash(j, i)
  BY ListsHaveBoxes, ClashIsMutual
<1>2. turned = IF n \notin kept THEN kept
               ELSE kept \ (beaten \cup (IF atLeast # {} THEN {n} ELSE {}))
  BY DEF Frame!Turn
<1>3. /\ kept \subseteq D
      /\ \A i, j \in kept : i <= n - 1 /\ i < j => ~clash(i, j)
      /\ \A i \in D \ kept : \E j \in D \ {i} : clash(i, j) /\ best(i) <= best(j)
      /\ \A i \in D : Top(i) => \E k \in kept : best(k) = best(i)
  BY DEF Promised
<1>. SUFFICES /\ turned \subseteq D
              /\ \A i, j \in turned : i <= n /\ i < j => ~clash(i, j)
              /\ \A i \in D \ turned : \E j \in D \ {i} : clash(i, j) /\ best(i) <= best(j)
              /\ \A i \in D : Top(i) => \E k \in turned : best(k) = best(i)
  BY DEF Promised
<1>. HIDE DEF D, best, clash, turned
<1>4. CASE n \notin kept
  BY <1>1, <1>2, <1>3, <1>4
<1>5. CASE n \in kept /\ atLeast = {}
  <2>1. turned = kept \ rivals
    BY <1>2, <1>5
  <2>2. \A j \in rivals : j \in D \ {n} /\ clash(j, n) /\ best(j) < best(n)
    BY <1>1, <1>3, <1>5
  <2>3. \A i, j \in turned : i <= n /\ i < j => ~clash(i, j)
    BY <1>1, <1>3, <2>1
  <2>4. \A i \in D \ turned : \E j \in D \ {i} : clash(i, j) /\ best(i) <= best(j)
    BY <1>1, <1>3, <2>1, <2>2
  <2>5. ASSUME NEW i \in D, Top(i) PROVE \E k \in turned : best(k) = best(i)
    <3>1. PICK k \in kept : best(k) = best(i)
      BY <1>3, <2>5
    <3>2. k \notin rivals
      BY <1>1, <2>2, <2>5, <3>1
    <3>. QED  BY <2>1, <3>1, <3>2
  <2>. QED  BY <1>3, <2>1, <2>3, <2>4, <2>5
<1>6. CASE n \in kept /\ atLeast # {}
  <2>1. turned = kept \ (beaten \cup {n})
    BY <1>2, <1>6
  <2>2. PICK r \in kept : r > n /\ clash(n, r) /\ best(r) >= best(n) /\ r \in atLeast
    BY <1>6
  <2>3. \A j \in beaten : j \in D \ {n} /\ clash(j, n) /\ best(j) < best(n)
    <3>. TAKE j \in beaten
    <3>1. j \in rivals /\ j \notin atLeast
      BY <1>1, <1>3
    <3>. QED  BY <1>1, <1>3, <3>1
  <2>4. \A i, j \in turned : i <= n /\ i < j => ~clash(i, j)
    BY <1>1, <1>3, <2>1
  <2>5. \A i \in D \ turned : \E j \in D \ {i} : clash(i, j) /\ best(i) <= best(j)
    <3>. TAKE i \in D \ turned
    <3>1. CASE i = n
      BY <1>1, <1>3, <2>2, <3>1
    <3>2. CASE i \in beaten
      BY <1>1, <2>3, <3>2
    <3>. QED  BY <1>3, <2>1, <3>1, <3>2
  <2>6. ASSUME NEW i \in D, Top(i) PROVE \E k \in turned : best(k) = best(i)
    <3>1. PICK k \in kept : best(k) = best(i)
      BY <1>3, <2>6
    <3>2. CASE k = n
      <4>1. best(r) = best(i)
        BY <1>1, <1>3, <2>2, <2>6, <3>1, <3>2
      <4>2. r \notin beaten
        BY <1>1, <1>3, <2>2
      <4>. QED  BY <1>1, <1>3, <2>1, <2>2, <4>1, <4>2
    <3>3. CASE k # n
      <4>1. k \notin beaten
        BY <1>1, <2>3, <2>6, <3>1
      <4>. QED  BY <2>1, <3>1, <3>3, <4>1
    <3>. QED  BY <3>2, <3>3
  <2>. QED  BY <1>3, <2>1, <2>4, <2>5, <2>6
<1>. QED  BY <1>4, <1>5, <1>6

\* When every box has had its turn.
LEMMA KeptAsPromised ==
  ASSUME NEW list \in Lists
  PROVE  Promised(list, Frame!Kept(list), Len(list))
<1>. DEFINE L == Len(list)
            D == DOMAIN list
            IsAfter(f) == f = [n \in 0 .. L |-> IF n = 0 THEN D
                                               ELSE Frame!Turn(list, f[n - 1], n)]
            after == CHOOSE f : IsAfter(f)
            A == {n \in Nat : n <= L => Promised(list, after[n], n)}
<1>1. L \in Nat /\ D = 1 .. L
  BY ListsHaveBoxes
<1>2. \E f : IsAfter(f)
  <2>. DEFINE step == [n \in 1 .. L |-> [kept \in SUBSET D |-> Frame!Turn(list, kept, n)]]
  <2>1. step \in [1 .. L -> [SUBSET D -> SUBSET D]]
    <3>1. ASSUME NEW kept \in SUBSET D, NEW n \in 1 .. L
          PROVE  Frame!Turn(list, kept, n) \in SUBSET D
      BY DEF Frame!Turn
    <3>. QED  BY <3>1
  <2>2. ASSUME NEW n \in 1 .. L, NEW kept \in SUBSET D
        PROVE  step[n][kept] = Frame!Turn(list, kept, n)
    OBVIOUS
  <2>. HIDE DEF step
  <2>3. PICK f \in [0 .. L -> SUBSET D] :
          f[0] = D /\ \A n \in 1 .. L : f[n] = step[n][f[n - 1]]
    <3>1. D \in SUBSET D
      OBVIOUS
    <3>. HIDE DEF L, D
    <3>2. Recursive(L, SUBSET D, D, step)
      BY <1>1, <2>1, <3>1, Recursion
    <3>. QED  BY <3>2 DEF Recursive
  <2>4. \A n \in 1 .. L : step[n][f[n - 1]] = Frame!Turn(list, f[n - 1], n)
    BY <1>1, <2>2
  <2>5. IsAfter(f)
    <3>. HIDE DEF D
    <3>. QED  BY <1>1, <2>3, <2>4
  <2>. HIDE DEF IsAfter
  <2>. QED  BY <2>5
<1>3. IsAfter(after)
  <2>. HIDE DEF IsAfter
  <2>. QED  BY <1>2
<1>4. Frame!Kept(list) = after[L]
  BY DEF Frame!Kept
<1>. HIDE DEF after
<1>5. 0 \in A
  <2>1. after[0] = D
    BY <1>1, <1>3
  <2>. QED  BY <1>1, <2>1 DEF Promised
<1>6. ASSUME NEW n \in Nat, n \in A PROVE n + 1 \in A
  <2>. SUFFICES ASSUME n + 1 <= L PROVE Promised(list, after[n + 1], n + 1)
    OBVIOUS
  <2>1. after[n + 1] = Frame!Turn(list, after[n], n + 1)
    BY <1>1, <1>3
  <2>2. Promised(list, after[n], (n + 1) - 1) /\ n + 1 \in 1 .. Len(list)
    BY <1>1, <1>6
  <2>. QED  BY <2>1, <2>2, TurnKeepsPromise
<1>7. L \in A
  <2>. HIDE DEF A, L
  <2>. QED  BY <1>1, <1>5, <1>6, Induct
<1>. QED  BY <1>1, <1>4, <1>7

\* A list without what is not kept: the others, each once, in their order.
Selection(list, kept, n, selected) ==
  /\ selected \in Lists
  /\ \E at \in [DOMAIN selected -> Int] :
       /\ \A a \in DOMAIN selected :
            at[a] \in kept /\ at[a] <= n /\ selected[a] = list[at[a]]
       /\ \A a, b \in DOMAIN selected : a < b => at[a] < at[b]
       /\ \A i \in kept : i <= n => \E a \in DOMAIN selected : at[a] = i

LEMMA SelectSelects ==
  ASSUME NEW list \in Lists, NEW kept \in SUBSET DOMAIN list
  PROVE  Selection(list, kept, Len(list), Frame!Select(list, kept))
<1>. DEFINE L == Len(list)
            IsIndex(f) == f = [n \in 0 .. L |->
              IF n = 0 THEN <<>>
              ELSE IF n \in kept THEN Append(f[n - 1], list[n]) ELSE f[n - 1]]
            index == CHOOSE f : IsIndex(f)
            A == {n \in Nat : n <= L => Selection(list, kept, n, index[n])}
<1>1. L \in Nat /\ DOMAIN list = 1 .. L /\ \A i \in 1 .. L : list[i] \in Frame!Boxes
  BY ListsHaveBoxes
<1>2. \E f : IsIndex(f)
  <2>. DEFINE step == [n \in 1 .. L |->
                        [s \in Lists |-> IF n \in kept THEN Append(s, list[n]) ELSE s]]
  <2>1. step \in [1 .. L -> [Lists -> Lists]]
    <3>1. ASSUME NEW s \in Lists, NEW n \in 1 .. L PROVE Append(s, list[n]) \in Lists
      BY <1>1 DEF Lists
    <3>. QED  BY <3>1
  <2>2. ASSUME NEW n \in 1 .. L, NEW s \in Lists
        PROVE  step[n][s] = IF n \in kept THEN Append(s, list[n]) ELSE s
    OBVIOUS
  <2>3. <<>> \in Lists
    BY DEF Lists
  <2>. HIDE DEF step
  <2>4. PICK f \in [0 .. L -> Lists] :
          f[0] = <<>> /\ \A n \in 1 .. L : f[n] = step[n][f[n - 1]]
    <3>. HIDE DEF L
    <3>1. Recursive(L, Lists, <<>>, step)
      BY <1>1, <2>1, <2>3, Recursion
    <3>. QED  BY <3>1 DEF Recursive
  <2>5. \A n \in 1 .. L :
          step[n][f[n - 1]] = IF n \in kept THEN Append(f[n - 1], list[n]) ELSE f[n - 1]
    BY <1>1, <2>2
  <2>6. IsIndex(f)
    <3>1. \A n \in 0 .. L : f[n] =
            IF n = 0 THEN <<>>
            ELSE IF n \in kept THEN Append(f[n - 1], list[n]) ELSE f[n - 1]
      <4>. TAKE n \in 0 .. L
      <4>1. CASE n = 0
        BY <2>4, <4>1
      <4>2. CASE n \in 1 .. L
        BY <2>4, <2>5, <4>2
      <4>. QED  BY <1>1, <4>1, <4>2
    <3>2. f = [n \in 0 .. L |-> f[n]]
      BY <2>4
    <3>. QED  BY <3>1, <3>2
  <2>. HIDE DEF IsIndex
  <2>. QED  BY <2>6
<1>3. IsIndex(index)
  <2>. HIDE DEF IsIndex
  <2>. QED  BY <1>2
<1>4. Frame!Select(list, kept) = index[L]
  BY DEF Frame!Select
<1>. HIDE DEF index
<1>5. 0 \in A
  <2>1. index[0] = <<>>
    BY <1>1, <1>3
  <2>2. index[0] \in Lists /\ DOMAIN index[0] = {}
    BY <2>1 DEF Lists
  <2>3. [a \in {} |-> 0] \in [{} -> Int]
    OBVIOUS
  <2>4. \A i \in kept : ~(i <= 0)
    BY <1>1
  <2>. QED  BY <2>2, <2>3, <2>4 DEF Selection
<1>6. ASSUME NEW n \in Nat, n \in A PROVE n + 1 \in A
  <2>. SUFFICES ASSUME n + 1 <= L PROVE Selection(list, kept, n + 1, index[n + 1])
    OBVIOUS
  <2>1. index[n + 1] = IF n + 1 \in kept THEN Append(index[n], list[n + 1]) ELSE index[n]
    <3>1. n + 1 \in 0 .. L /\ n + 1 # 0 /\ (n + 1) - 1 = n
      BY <1>1
    <3>2. \A m \in 0 .. L : m # 0 =>
            index[m] = IF m \in kept THEN Append(index[m - 1], list[m]) ELSE index[m - 1]
      BY <1>3
    <3>. HIDE DEF IsIndex, L
    <3>. QED  BY <3>1, <3>2
  <2>. DEFINE s == index[n]
              Indices(at) ==
                /\ \A a \in DOMAIN s : at[a] \in kept /\ at[a] <= n /\ s[a] = list[at[a]]
                /\ \A a, b \in DOMAIN s : a < b => at[a] < at[b]
                /\ \A i \in kept : i <= n => \E a \in DOMAIN s : at[a] = i
  <2>2. s \in Lists /\ \E at \in [DOMAIN s -> Int] : Indices(at)
    BY <1>1, <1>6 DEF Selection
  <2>3. PICK at \in [DOMAIN s -> Int] : Indices(at)
    <3>. HIDE DEF Indices
    <3>. QED  BY <2>2
  <2>. HIDE DEF s
  <2>4. CASE n + 1 \notin kept
    <3>1. \A i \in kept : i <= n + 1 => i <= n
      BY <1>1, <2>4
    <3>2. \A a \in DOMAIN s : at[a] <= n + 1
      BY <2>3
    <3>3. index[n + 1] = s
      BY <2>1, <2>4 DEF s
    <3>4. Selection(list, kept, n + 1, s)
      BY <2>2, <2>3, <3>1, <3>2 DEF Selection
    <3>. QED  BY <3>3, <3>4
  <2>5. CASE n + 1 \in kept
    <3>. DEFINE l == Len(s)
                t == Append(s, list[n + 1])
                to == [a \in 1 .. l + 1 |-> IF a <= l THEN at[a] ELSE n + 1]
    <3>1. l \in Nat /\ DOMAIN s = 1 .. l
      BY <2>2 DEF Lists
    <3>2. /\ t \in Lists /\ DOMAIN t = 1 .. l + 1 /\ t[l + 1] = list[n + 1]
          /\ \A a \in 1 .. l : t[a] = s[a]
      BY <1>1, <2>2, <3>1 DEF Lists
    <3>. HIDE DEF l, t
    <3>3. /\ to \in [1 .. l + 1 -> Int] /\ to[l + 1] = n + 1
          /\ \A a \in 1 .. l : to[a] = at[a]
      BY <3>1
    <3>. HIDE DEF to
    <3>0. \A a \in 1 .. l :
            at[a] \in Int /\ at[a] \in kept /\ at[a] <= n /\ s[a] = list[at[a]]
      BY <2>3, <3>1
    <3>4. \A a \in 1 .. l + 1 : to[a] \in kept /\ to[a] <= n + 1 /\ t[a] = list[to[a]]
      <4>. TAKE a \in 1 .. l + 1
      <4>1. CASE a = l + 1
        BY <2>5, <3>1, <3>2, <3>3, <4>1
      <4>2. CASE a \in 1 .. l
        BY <3>0, <3>2, <3>3, <4>2
      <4>. QED  BY <3>1, <4>1, <4>2
    <3>5. \A a, b \in 1 .. l + 1 : a < b => to[a] < to[b]
      <4>. SUFFICES ASSUME NEW a \in 1 .. l + 1, NEW b \in 1 .. l + 1, a < b
                    PROVE  to[a] < to[b]
        OBVIOUS
      <4>0. a \in 1 .. l
        BY <3>1
      <4>1. to[a] = at[a] /\ at[a] <= n /\ at[a] \in Int
        BY <3>0, <3>3, <4>0
      <4>2. CASE b = l + 1
        BY <3>3, <4>1, <4>2
      <4>3. CASE b \in 1 .. l
        BY <2>3, <3>1, <3>3, <4>0, <4>3
      <4>. QED  BY <3>1, <4>2, <4>3
    <3>6. \A i \in kept : i <= n + 1 => \E a \in 1 .. l + 1 : to[a] = i
      <4>. SUFFICES ASSUME NEW i \in kept, i <= n + 1 PROVE \E a \in 1 .. l + 1 : to[a] = i
        OBVIOUS
      <4>1. CASE i = n + 1
        BY <3>1, <3>3, <4>1
      <4>2. CASE i <= n
        <5>1. PICK a \in 1 .. l : at[a] = i
          BY <2>3, <3>1, <4>2
        <5>. QED  BY <3>1, <3>3, <5>1
      <4>. QED  BY <1>1, <4>1, <4>2
    <3>7. Selection(list, kept, n + 1, t)
      <4>. DEFINE PlacesAfter(places) ==
                    /\ \A a \in DOMAIN t : /\ places[a] \in kept /\ places[a] <= n + 1
                                           /\ t[a] = list[places[a]]
                    /\ \A a, b \in DOMAIN t : a < b => places[a] < places[b]
                    /\ \A i \in kept : i <= n + 1 => \E a \in DOMAIN t : places[a] = i
      <4>1. to \in [DOMAIN t -> Int] /\ PlacesAfter(to)
        BY <3>2, <3>3, <3>4, <3>5, <3>6
      <4>2. \E places \in [DOMAIN t -> Int] : PlacesAfter(places)
        <5>. HIDE DEF PlacesAfter
        <5>. QED  BY <4>1
      <4>. QED  BY <3>2, <4>2 DEF Selection
    <3>. QED  BY <2>1, <2>5, <3>7 DEF s, t
  <2>. QED  BY <2>4, <2>5
<1>7. L \in A
  <2>. HIDE DEF A, L
  <2>. QED  BY <1>1, <1>5, <1>6, Induct
<1>. QED  BY <1>1, <1>4, <1>7
-----------------------------------------------------------------------------
(* What is confident.                                                      *)

\* A box as confident as one that is confident enough, is so too.
LEMMA ConfidenceGrows ==
  ASSUME filter.confidence \in Int, NEW b \in Frame!Boxes, NEW c \in Frame!Boxes,
         Frame!Confident(b), Frame!Best(b) <= Frame!Best(c)
  PROVE  Frame!Confident(c)
<1>1. /\ Frame!Best(b) \in Int /\ Frame!Best(c) \in Int
      /\ Zero \in Int /\ Full \in Int /\ Full > 0
  BY BestIsInt, DetectionsAssumption
<1>2. ASSUME NEW x \in Int, NEW y \in Int, x <= y
      PROVE  x \div Full <= y \div Full
  <2>. DEFINE p == x \div Full
              q == y \div Full
  <2>1. /\ p \in Int /\ q \in Int
        /\ Full * p <= x /\ y < Full * (q + 1)
    BY <1>1
  <2>. HIDE DEF p, q
  <2>2. Full * p < Full * (q + 1)
    BY <1>1, <1>2, <2>1
  <2>3. p < q + 1
    BY <1>1, <2>1, <2>2
  <2>4. p <= q
    BY <2>1, <2>3
  <2>. QED  BY <2>4 DEF p, q
<1>3. /\ Frame!Percent(b) \in Int /\ Frame!Percent(c) \in Int
      /\ Frame!Percent(b) <= Frame!Percent(c)
  <2>. DEFINE x == (Frame!Best(b) - Zero) * 100
              y == (Frame!Best(c) - Zero) * 100
  <2>1. x \in Int /\ y \in Int /\ x <= y
    BY <1>1
  <2>2. Frame!Percent(b) = x \div Full /\ Frame!Percent(c) = y \div Full
    BY DEF Frame!Percent
  <2>. HIDE DEF x, y
  <2>3. x \div Full \in Int /\ y \div Full \in Int
    BY <1>1, <2>1
  <2>. QED  BY <1>2, <2>1, <2>2, <2>3
<1>. QED  BY <1>1, <1>3 DEF Frame!Confident

\* What is confident enough for ImageProcess() passes the threshold of Model_Inference().
LEMMA ConfidentIsDecoded ==
  ASSUME filter.confidence \in Int, NEW b \in Frame!Boxes, Frame!Confident(b)
  PROVE  Frame!Decoded(b)
<1>. DEFINE y == Frame!Best(b) - Zero
            q == (y * 100) \div Full
<1>1. /\ Frame!Best(b) \in Int /\ Zero \in Int /\ Full \in Int /\ Full > 0 /\ y \in Int
  BY BestIsInt, DetectionsAssumption
<1>2. filter.confidence <= q /\ Frame!Best(b) > 0
  BY DEF Frame!Confident, Frame!Percent
<1>3. q \in Int /\ Full * q <= y * 100
  BY <1>1
<1>. HIDE DEF q
<1>4. filter.confidence * Full <= Full * q /\ filter.confidence * Full \in Int
  BY <1>1, <1>2, <1>3
<1>5. (filter.confidence * Full) \div 100 <= y
  BY <1>1, <1>3, <1>4
<1>. QED  BY <1>1, <1>2, <1>4, <1>5 DEF Frame!Decoded, Frame!RawThreshold
-----------------------------------------------------------------------------
(* Model_Inference().                                                      *)

\* SuppressionIsSound, of any boxes and what is returned of them.
Sound(boxes, returned) ==
  LET confident == {i \in DOMAIN boxes : Frame!Confident(boxes[i])} IN
  /\ \A i, j \in DOMAIN returned : i < j => ~Frame!Clash(returned, i, j)
  /\ \A i \in confident :
       \/ boxes[i] \in Frame!Range(returned)
       \/ \E j \in confident \ {i} :
            Frame!Clash(boxes, i, j) /\ Frame!Best(boxes[j]) >= Frame!Best(boxes[i])
  /\ \A i \in confident :
       (\A j \in confident : Frame!Best(boxes[j]) <= Frame!Best(boxes[i]))
         => \E k \in DOMAIN returned : Frame!Best(returned[k]) = Frame!Best(boxes[i])

LEMMA ReturnedIsSound ==
  ASSUME filter.confidence \in Int, NEW boxes \in Lists
  PROVE  Sound(boxes, Frame!Returned(boxes))
<1>. DEFINE D == {i \in DOMAIN boxes : Frame!Decoded(boxes[i])}
            list == Frame!Select(boxes, D)
            kept == Frame!Kept(list)
            returned == Frame!Select(list, kept)
            confident == {i \in DOMAIN boxes : Frame!Confident(boxes[i])}
            best(i) == Frame!Best(boxes[i])
<1>1. /\ \A i \in DOMAIN boxes : boxes[i] \in Frame!Boxes /\ best(i) \in Int
      /\ confident \subseteq D /\ D \subseteq DOMAIN boxes
  <2>1. \A i \in DOMAIN boxes : boxes[i] \in Frame!Boxes /\ best(i) \in Int
    BY ListsHaveBoxes
  <2>. QED  BY <2>1, ConfidentIsDecoded
<1>2. \A i \in confident, j \in DOMAIN boxes : best(i) <= best(j) => j \in confident
  BY <1>1, ConfidenceGrows
<1>3. Selection(boxes, D, Len(boxes), list)
  BY <1>1, SelectSelects
<1>4. PICK at \in [DOMAIN list -> Int] :
        /\ \A a \in DOMAIN list : at[a] \in D /\ list[a] = boxes[at[a]]
        /\ \A a, b \in DOMAIN list : a < b => at[a] < at[b]
        /\ \A i \in D : \E a \in DOMAIN list : at[a] = i
  <2>1. \A i \in D : i <= Len(boxes)
    BY ListsHaveBoxes
  <2>. HIDE DEF D, list
  <2>. QED  BY <1>3, <2>1 DEF Selection
<1>. HIDE DEF list
<1>5. list \in Lists /\ DOMAIN list \subseteq Int
  <2>1. list \in Lists
    BY <1>3 DEF Selection
  <2>. QED  BY <2>1, ListsHaveBoxes
<1>6. Promised(list, kept, Len(list))
  BY <1>5, KeptAsPromised
<1>7. Selection(list, kept, Len(list), returned)
  BY <1>5, <1>6, SelectSelects DEF Promised
<1>. HIDE DEF kept
<1>8. PICK to \in [DOMAIN returned -> Int] :
        /\ \A a \in DOMAIN returned : to[a] \in kept /\ returned[a] = list[to[a]]
        /\ \A a, b \in DOMAIN returned : a < b => to[a] < to[b]
        /\ \A i \in kept : \E a \in DOMAIN returned : to[a] = i
  <2>1. \A i \in kept : i <= Len(list)
    BY <1>5, <1>6, ListsHaveBoxes DEF Promised
  <2>. HIDE DEF returned
  <2>. QED  BY <1>7, <2>1 DEF Selection
<1>9. Frame!Returned(boxes) = returned
  BY DEF Frame!Returned, returned, kept, list
<1>. HIDE DEF returned, D, best, confident
<1>10. \A i, j \in DOMAIN returned : i < j => ~Frame!Clash(returned, i, j)
  <2>. SUFFICES ASSUME NEW i \in DOMAIN returned, NEW j \in DOMAIN returned, i < j
                PROVE  ~Frame!Clash(returned, i, j)
    OBVIOUS
  <2>1. to[i] \in kept /\ to[j] \in kept /\ to[i] < to[j] /\ to[i] <= Len(list)
    BY <1>5, <1>6, <1>8, ListsHaveBoxes DEF Promised
  <2>2. ~Frame!Clash(list, to[i], to[j])
    BY <1>6, <2>1 DEF Promised
  <2>3. returned[i] = list[to[i]] /\ returned[j] = list[to[j]]
    BY <1>8
  <2>. QED  BY <2>2, <2>3 DEF Frame!Clash
<1>11. \A i \in confident :
         \/ boxes[i] \in Frame!Range(returned)
         \/ \E j \in confident \ {i} : Frame!Clash(boxes, i, j) /\ best(j) >= best(i)
  <2>. TAKE i \in confident
  <2>1. PICK a \in DOMAIN list : at[a] = i /\ list[a] = boxes[i]
    BY <1>1, <1>4
  <2>2. CASE a \in kept
    <3>1. PICK c \in DOMAIN returned : returned[c] = boxes[i]
      BY <1>8, <2>1, <2>2
    <3>. QED  BY <3>1 DEF Frame!Range
  <2>3. CASE a \notin kept
    <3>1. PICK b \in DOMAIN list \ {a} :
            Frame!Clash(list, a, b) /\ Frame!Best(list[a]) <= Frame!Best(list[b])
      BY <1>6, <2>3 DEF Promised
    <3>2. at[b] \in D /\ list[b] = boxes[at[b]] /\ at[b] # i
      BY <1>4, <1>5, <2>1, <3>1
    <3>3. best(i) <= best(at[b]) /\ at[b] \in confident
      BY <1>1, <1>2, <2>1, <3>1, <3>2 DEF best
    <3>4. Frame!Clash(boxes, i, at[b])
      BY <2>1, <3>1, <3>2 DEF Frame!Clash
    <3>. QED  BY <1>1, <3>2, <3>3, <3>4
  <2>. QED  BY <2>2, <2>3
<1>12. \A i \in confident :
         (\A j \in confident : best(j) <= best(i))
           => \E k \in DOMAIN returned : Frame!Best(returned[k]) = best(i)
  <2>. SUFFICES ASSUME NEW i \in confident, \A j \in confident : best(j) <= best(i)
                PROVE  \E k \in DOMAIN returned : Frame!Best(returned[k]) = best(i)
    OBVIOUS
  <2>1. PICK a \in DOMAIN list : at[a] = i /\ list[a] = boxes[i]
    BY <1>1, <1>4
  <2>2. \A b \in DOMAIN list : Frame!Best(list[b]) <= Frame!Best(list[a])
    <3>. TAKE b \in DOMAIN list
    <3>1. at[b] \in DOMAIN boxes /\ list[b] = boxes[at[b]]
      BY <1>1, <1>4
    <3>2. best(at[b]) <= best(i)
      BY <1>1, <1>2, <3>1
    <3>. QED  BY <2>1, <3>1, <3>2 DEF best
  <2>3. PICK k \in kept : Frame!Best(list[k]) = Frame!Best(list[a])
    BY <1>6, <2>2 DEF Promised
  <2>4. PICK c \in DOMAIN returned : returned[c] = list[k]
    BY <1>8
  <2>. QED  BY <2>1, <2>3, <2>4 DEF best
<1>. QED  BY <1>9, <1>10, <1>11, <1>12 DEF Sound, best, confident

\* For any number of boxes: what Model_Inference() returns does not overlap, a confident box
\* is missing only if it overlaps one at least as confident, and one of the most confident is
\* among them (non_maximum_suppression(), Model.c:983).
THEOREM PartsSuppressionSound == PartsSpec => []SuppressionIsSound
<1>. DEFINE IInv == part = "detections" => filter \in Filters /\ Sound(tensor, found)
<1>1. ASSUME tensor = <<>>, found = <<>> PROVE Sound(tensor, found)
  BY <1>1 DEF Sound
<1>2. PartsInit => IInv
  BY <1>1 DEF PartsInit, Frame!Init
<1>3. IInv /\ [PartsNext]_partsVars => IInv'
  <2>. SUFFICES ASSUME IInv, [PartsNext]_partsVars, part' = "detections"
                PROVE  filter' \in Filters /\ Sound(tensor, found)'
    OBVIOUS
  <2>1. ASSUME filter' = filter, Sound(tensor', found') PROVE Sound(tensor, found)'
    <3>1. \A a, b : Frame!Overlap(a, b)' <=> Frame!Overlap(a, b)
      BY <2>1 DEF Frame!Overlap
    <3>2. \A b : Frame!Confident(b)' <=> Frame!Confident(b)
      BY <2>1 DEF Frame!Confident
    <3>. QED  BY <2>1, <3>1, <3>2 DEF Sound, Frame!Clash
  <2>2. part = "detections" /\ (UNCHANGED frameVars \/ Frame!Next)
    BY DEF PartsNext, Only, partsVars
  <2>3. CASE UNCHANGED frameVars
    BY <2>1, <2>2, <2>3 DEF frameVars
  <2>4. CASE Frame!Infer
    <3>1. filter' = filter /\ found' = Frame!Returned(tensor') /\ tensor' \in Lists
      <4>1. PICK n \in 1 .. MaxBoxes : tensor' \in [1 .. n -> Frame!Boxes]
        BY <2>4 DEF Frame!Infer
      <4>2. n \in Nat
        OBVIOUS
      <4>. QED  BY <2>4, <4>1, <4>2 DEF Frame!Infer, Lists
    <3>2. filter.confidence \in Int
      BY <2>2, DetectionsAssumption
    <3>. QED  BY <2>1, <2>2, <3>1, <3>2, ReturnedIsSound
  <2>5. CASE Frame!FrameEnds
    <3>1. tensor' = <<>> /\ found' = <<>> /\ filter' \in Filters
      BY <2>5 DEF Frame!FrameEnds
    <3>. QED  BY <3>1 DEF Sound
  <2>. QED  BY <2>2, <2>3, <2>4, <2>5 DEF Frame!Next
<1>4. IInv => SuppressionIsSound
  BY DEF SuppressionIsSound, Frame!SuppressionIsSound, Sound
<1>. QED  BY <1>2, <1>3, <1>4, PTL DEF PartsSpec
-----------------------------------------------------------------------------
(* Places and lines of a text.                                             *)

\* The place where a name stops is there, and is the only one of its kind.
LEMMA StopIsThere ==
  ASSUME NEW text, NEW p \in Nat, NEW end \in Nat, p <= end
  PROVE  LET q == Class!Stop(text, p, end)
         IN  /\ q \in p .. end
             /\ q = end \/ text[q] = NUL
             /\ \A r \in p .. q - 1 : text[r] # NUL
<1>. DEFINE A == {q \in p .. end : q = end \/ text[q] = NUL}
            IsStop(q) == /\ q = end \/ text[q] = NUL
                         /\ \A r \in p .. q - 1 : text[r] # NUL
<1>1. A \in SUBSET Nat /\ end \in A
  OBVIOUS
<1>2. PICK m \in A : \A k \in A : m <= k
  <2>. HIDE DEF A
  <2>. QED  BY <1>1, Least
<1>3. m \in p .. end /\ IsStop(m)
  BY <1>2
<1>. HIDE DEF IsStop
<1>4. Class!Stop(text, p, end) = CHOOSE q \in p .. end : IsStop(q)
  BY DEF Class!Stop, IsStop
<1>5. Class!Stop(text, p, end) \in p .. end /\ IsStop(Class!Stop(text, p, end))
  BY <1>3, <1>4
<1>. QED  BY <1>5 DEF IsStop

LEMMA StopsOnce ==
  ASSUME NEW text, NEW p \in Nat, NEW end \in Nat, NEW q \in p .. end,
         q = end \/ text[q] = NUL, \A r \in p .. q - 1 : text[r] # NUL
  PROVE  Class!Stop(text, p, end) = q
<1>. DEFINE s == Class!Stop(text, p, end)
<1>1. /\ s \in p .. end
      /\ s = end \/ text[s] = NUL
      /\ \A r \in p .. s - 1 : text[r] # NUL
  BY StopIsThere
<1>. HIDE DEF s
<1>2. ~(s < q)
  BY <1>1
<1>3. ~(q < s)
  BY <1>1
<1>. QED  BY <1>1, <1>2, <1>3 DEF s

Characters == {Letter, LF, CR, NUL}
Texts == Seq(Characters)

LEMMA NewlinesOfText ==
  ASSUME NEW text \in Texts
  PROVE  /\ Len(text) \in Nat /\ DOMAIN text = 1 .. Len(text)
         /\ Class!Newlines(text) = {i \in 1 .. Len(text) : text[i] = LF}
BY DEF Texts, Class!Newlines

LEMMA LinesAreCounted ==
  \A text, p : Class!LinesBefore(text, p) = Cardinality({i \in Class!Newlines(text) : i < p})
BY DEF Class!LinesBefore, Class!Cardinality, Cardinality

LEMMA CountsNewlines ==
  ASSUME NEW text \in Texts, NEW p \in Nat
  PROVE  /\ Class!LinesBefore(text, p) \in Nat
         /\ Class!LinesBefore(text, p + 1) =
              Class!LinesBefore(text, p) + IF p \in Class!Newlines(text) THEN 1 ELSE 0
<1>. DEFINE N == Class!Newlines(text)
            B(k) == {i \in N : i < k}
<1>1. N \subseteq 1 .. Len(text) /\ Len(text) \in Nat
  BY NewlinesOfText
<1>2. IsFiniteSet(B(p))
  <2>1. IsFiniteSet(1 .. Len(text)) /\ B(p) \in SUBSET (1 .. Len(text))
    BY <1>1, FS_Interval
  <2>. QED  BY <2>1, FS_Subset
<1>3. Cardinality(B(p)) \in Nat
  BY <1>2, FS_CardinalityType
<1>4. CASE p \in N
  <2>1. B(p + 1) = B(p) \cup {p} /\ p \notin B(p)
    BY <1>1, <1>4
  <2>2. Cardinality(B(p + 1)) = Cardinality(B(p)) + 1
    <3>. HIDE DEF B
    <3>. QED  BY <1>2, <2>1, FS_AddElement
  <2>. QED  BY <1>3, <1>4, <2>2, LinesAreCounted
<1>5. CASE p \notin N
  <2>1. B(p + 1) = B(p)
    BY <1>1, <1>5
  <2>. QED  BY <1>3, <1>5, <2>1, LinesAreCounted
<1>. QED  BY <1>4, <1>5

LEMMA CountGrows ==
  ASSUME NEW text \in Texts, NEW p \in Nat, NEW q \in Nat, p <= q
  PROVE  /\ Class!LinesBefore(text, p) <= Class!LinesBefore(text, q)
         /\ \A i \in Class!Newlines(text) :
              p <= i /\ i < q => Class!LinesBefore(text, p) < Class!LinesBefore(text, q)
<1>. DEFINE N == Class!Newlines(text)
            B(k) == {i \in N : i < k}
<1>1. N \subseteq 1 .. Len(text) /\ Len(text) \in Nat
  BY NewlinesOfText
<1>2. IsFiniteSet(B(q)) /\ B(p) \in SUBSET B(q)
  <2>1. IsFiniteSet(1 .. Len(text)) /\ B(q) \in SUBSET (1 .. Len(text))
    BY <1>1, FS_Interval
  <2>. QED  BY <1>1, <2>1, FS_Subset
<1>3. /\ IsFiniteSet(B(p))
      /\ Cardinality(B(p)) <= Cardinality(B(q))
      /\ Cardinality(B(p)) = Cardinality(B(q)) => B(p) = B(q)
      /\ Cardinality(B(p)) \in Nat /\ Cardinality(B(q)) \in Nat
  <2>. HIDE DEF B
  <2>. QED  BY <1>2, FS_Subset, FS_CardinalityType
<1>4. ASSUME NEW i \in N, p <= i, i < q PROVE B(p) # B(q)
  BY <1>1, <1>4
<1>. QED  BY <1>3, <1>4, LinesAreCounted
-----------------------------------------------------------------------------
(* The loop of labels_parse_file().                                        *)

\* Where the newlines up to i are cut, and a carriage return before one.
IsCut(text, i, j) ==
  \/ j <= i /\ text[j] = LF
  \/ j < i /\ text[j] = CR /\ text[j + 1] = LF

LeastOf(a, b) == IF a < b THEN a ELSE b

\* After i characters: what is cut, and that there is a name for each line that has begun,
\* where that line begins.
CutTo(text, n, i) ==
  /\ n \in [buffer : [1 .. Len(text) -> Characters], at : Seq(1 .. Len(text))]
  /\ \A j \in 1 .. Len(text) : n.buffer[j] = IF IsCut(text, i, j) THEN NUL ELSE text[j]
  /\ Len(n.at) = Class!LinesBefore(text, LeastOf(i + 1, Len(text))) + 1
  /\ \A k \in 1 .. Len(n.at) :
       /\ n.at[k] = 1 \/ text[n.at[k] - 1] = LF
       /\ Class!LinesBefore(text, n.at[k]) = k - 1

LEMMA LineCuts ==
  ASSUME NEW text \in Texts, NEW i \in 1 .. Len(text), NEW n, CutTo(text, n, i - 1)
  PROVE  CutTo(text, Class!Line(n, i), i)
<1>. DEFINE L == Len(text)
            m == Class!Line(n, i)
<1>1. /\ L \in Nat /\ i \in 1 .. L
      /\ Class!Newlines(text) = {j \in 1 .. L : text[j] = LF}
      /\ \A j \in 1 .. L : text[j] \in Characters
  BY NewlinesOfText DEF Texts
<1>2. /\ n.buffer \in [1 .. L -> Characters] /\ n.at \in Seq(1 .. L)
      /\ n = [buffer |-> n.buffer, at |-> n.at]
      /\ \A j \in 1 .. L : n.buffer[j] = IF IsCut(text, i - 1, j) THEN NUL ELSE text[j]
      /\ n.buffer[i] = text[i]
  <2>1. ~IsCut(text, i - 1, i)
    BY <1>1 DEF IsCut
  <2>. QED  BY <1>1, <2>1 DEF CutTo
<1>3. /\ Len(n.at) \in Nat /\ Class!LinesBefore(text, i) \in Nat
      /\ Len(n.at) = Class!LinesBefore(text, i) + 1
      /\ Class!LinesBefore(text, i + 1) = Class!LinesBefore(text, i)
                                         + IF text[i] = LF THEN 1 ELSE 0
  <2>1. LeastOf((i - 1) + 1, Len(text)) = i
    BY <1>1 DEF LeastOf
  <2>2. Len(n.at) = Class!LinesBefore(text, i) + 1
    BY <2>1 DEF CutTo
  <2>3. i \in Nat /\ (i \in Class!Newlines(text) <=> text[i] = LF)
    BY <1>1
  <2>4. Len(n.at) \in Nat
    BY <1>2
  <2>. QED  BY <2>2, <2>3, <2>4, CountsNewlines
<1>4. CASE text[i] # LF
  <2>1. m = n
    BY <1>2, <1>4 DEF Class!Line
  <2>2. ASSUME NEW j \in 1 .. L PROVE IsCut(text, i, j) <=> IsCut(text, i - 1, j)
    BY <1>1, <1>4 DEF IsCut
  <2>3. Len(n.at) = Class!LinesBefore(text, LeastOf(i + 1, L)) + 1
    BY <1>1, <1>3, <1>4 DEF LeastOf
  <2>4. \A j \in 1 .. L : n.buffer[j] = IF IsCut(text, i, j) THEN NUL ELSE text[j]
    BY <1>2, <2>2
  <2>5. CutTo(text, n, i)
    BY <2>3, <2>4 DEF CutTo
  <2>. QED  BY <2>1, <2>5
<1>5. CASE text[i] = LF
  <2>1. /\ m.buffer = Class!EndLine(n.buffer, i)
        /\ m.at = IF i < L THEN Append(n.at, i + 1) ELSE n.at
        /\ m = [buffer |-> m.buffer, at |-> m.at]
    <3>1. Len(n.buffer) = L
      BY <1>1, <1>2
    <3>. QED  BY <1>2, <1>5, <3>1 DEF Class!Line
  <2>2. /\ m.buffer \in [1 .. L -> Characters]
        /\ \A j \in 1 .. L : m.buffer[j] = IF IsCut(text, i, j) THEN NUL ELSE text[j]
    <3>1. /\ m.buffer = [j \in 1 .. L |-> IF j = i \/ (j = i - 1 /\ n.buffer[j] = CR)
                                         THEN NUL ELSE n.buffer[j]]
      BY <1>2, <2>1 DEF Class!EndLine
    <3>2. m.buffer \in [1 .. L -> Characters]
      BY <1>2, <3>1 DEF Characters
    <3>3. ASSUME NEW j \in 1 .. L
          PROVE  m.buffer[j] = IF IsCut(text, i, j) THEN NUL ELSE text[j]
      <4>1. m.buffer[j] = IF j = i \/ (j = i - 1 /\ n.buffer[j] = CR)
                          THEN NUL ELSE n.buffer[j]
        BY <3>1
      <4>2. n.buffer[j] = IF IsCut(text, i - 1, j) THEN NUL ELSE text[j]
        BY <1>2
      <4>. QED  BY <1>1, <1>5, <4>1, <4>2, NamesAssumption DEF IsCut
    <3>. QED  BY <3>2, <3>3
  <2>3. CASE i < L
    <3>1. /\ m.at \in Seq(1 .. L) /\ Len(m.at) = Len(n.at) + 1
          /\ \A k \in 1 .. Len(n.at) : m.at[k] = n.at[k]
          /\ m.at[Len(n.at) + 1] = i + 1
      BY <1>1, <1>2, <2>1, <2>3
    <3>2. Len(m.at) = Class!LinesBefore(text, LeastOf(i + 1, L)) + 1
      BY <1>1, <1>3, <1>5, <2>3, <3>1 DEF LeastOf
    <3>3. ASSUME NEW k \in 1 .. Len(m.at)
          PROVE  /\ m.at[k] = 1 \/ text[m.at[k] - 1] = LF
                 /\ Class!LinesBefore(text, m.at[k]) = k - 1
      <4>1. CASE k \in 1 .. Len(n.at)
        BY <3>1, <4>1 DEF CutTo
      <4>2. CASE k = Len(n.at) + 1
        <5>1. m.at[k] = i + 1 /\ (i + 1) - 1 = i
          BY <1>1, <3>1, <4>2
        <5>. QED  BY <1>3, <1>5, <4>2, <5>1
      <4>. QED  BY <1>3, <3>1, <4>1, <4>2
    <3>. QED  BY <2>1, <2>2, <3>1, <3>2, <3>3 DEF CutTo
  <2>4. CASE i = L
    <3>1. m.at = n.at
      BY <1>1, <2>1, <2>4
    <3>2. Len(m.at) = Class!LinesBefore(text, LeastOf(i + 1, L)) + 1
      BY <1>1, <1>3, <2>4, <3>1 DEF LeastOf
    <3>. QED  BY <1>2, <2>1, <2>2, <3>1, <3>2 DEF CutTo
  <2>. QED  BY <1>1, <2>3, <2>4
<1>. QED  BY <1>4, <1>5

LEMMA WholeTextIsCut ==
  ASSUME NEW text \in Texts, text # <<>>
  PROVE  \E n : CutTo(text, n, Len(text)) /\ Class!Cut(text) = Class!Shorten(n)
<1>. DEFINE L == Len(text)
            first == [buffer |-> text, at |-> <<1>>]
            S == [buffer : [1 .. L -> Characters], at : Seq(Nat)]
            IsCutting(f) == f = [i \in 0 .. L |-> IF i = 0 THEN first
                                                 ELSE Class!Line(f[i - 1], i)]
            cut == CHOOSE f : IsCutting(f)
            A == {i \in Nat : i <= L => CutTo(text, cut[i], i)}
<1>1. L \in Nat /\ L # 0 /\ text \in [1 .. L -> Characters]
  BY DEF Texts
<1>2. \E f : IsCutting(f)
  <2>. DEFINE step == [i \in 1 .. L |-> [n \in S |-> Class!Line(n, i)]]
  <2>1. step \in [1 .. L -> [S -> S]]
    <3>1. ASSUME NEW n \in S, NEW i \in 1 .. L PROVE Class!Line(n, i) \in S
      <4>1. /\ n.buffer \in [1 .. L -> Characters] /\ n.at \in Seq(Nat)
            /\ i + 1 \in Nat
        BY <1>1
      <4>2. Class!EndLine(n.buffer, i) \in [1 .. L -> Characters]
        BY <4>1 DEF Class!EndLine, Characters
      <4>3. Append(n.at, i + 1) \in Seq(Nat)
        BY <4>1
      <4>. QED  BY <4>1, <4>2, <4>3 DEF Class!Line
    <3>. QED  BY <3>1
  <2>2. ASSUME NEW i \in 1 .. L, NEW n \in S PROVE step[i][n] = Class!Line(n, i)
    OBVIOUS
  <2>3. first \in S
    BY <1>1
  <2>. HIDE DEF step
  <2>4. PICK f \in [0 .. L -> S] : f[0] = first /\ \A i \in 1 .. L : f[i] = step[i][f[i - 1]]
    <3>. HIDE DEF L, S, first
    <3>1. Recursive(L, S, first, step)
      BY <1>1, <2>1, <2>3, Recursion
    <3>. QED  BY <3>1 DEF Recursive
  <2>5. \A i \in 1 .. L : step[i][f[i - 1]] = Class!Line(f[i - 1], i)
    <3>. HIDE DEF S
    <3>. QED  BY <1>1, <2>2
  <2>6. IsCutting(f)
    <3>. HIDE DEF S, first
    <3>. QED  BY <1>1, <2>4, <2>5
  <2>. HIDE DEF IsCutting
  <2>. QED  BY <2>6
<1>3. IsCutting(cut)
  <2>. HIDE DEF IsCutting
  <2>. QED  BY <1>2
<1>4. Class!Cut(text) = Class!Shorten(cut[L])
  BY DEF Class!Cut
<1>. HIDE DEF cut
<1>5. 0 \in A
  <2>1. cut[0] = first
    BY <1>1, <1>3
  <2>2. Class!LinesBefore(text, 1) = 0
    <3>1. {i \in Class!Newlines(text) : i < 1} = {}
      BY NewlinesOfText
    <3>. QED  BY <3>1, LinesAreCounted, FS_EmptySet
  <2>3. /\ first.buffer = text /\ first.at = <<1>> /\ Len(first.at) = 1 /\ first.at[1] = 1
        /\ first.at \in Seq(1 .. L)
    BY <1>1
  <2>4. LeastOf(0 + 1, Len(text)) = 1
    BY <1>1 DEF LeastOf
  <2>5. \A j \in 1 .. L : ~IsCut(text, 0, j)
    BY <1>1 DEF IsCut
  <2>6. CutTo(text, first, 0)
    <3>1. first \in [buffer : [1 .. Len(text) -> Characters], at : Seq(1 .. Len(text))]
      BY <1>1, <2>3
    <3>2. \A k \in 1 .. Len(first.at) : k = 1 /\ first.at[k] = 1
      BY <2>3
    <3>3. Len(first.at) = Class!LinesBefore(text, LeastOf(0 + 1, Len(text))) + 1
      BY <2>2, <2>3, <2>4
    <3>. HIDE DEF first
    <3>. QED  BY <2>2, <2>3, <2>5, <3>1, <3>2, <3>3 DEF CutTo
  <2>. HIDE DEF first
  <2>. QED  BY <2>1, <2>6
<1>6. ASSUME NEW i \in Nat, i \in A PROVE i + 1 \in A
  <2>. SUFFICES ASSUME i + 1 <= L PROVE CutTo(text, cut[i + 1], i + 1)
    OBVIOUS
  <2>1. cut[i + 1] = Class!Line(cut[i], i + 1)
    <3>. HIDE DEF first
    <3>. QED  BY <1>1, <1>3
  <2>2. CutTo(text, cut[i], (i + 1) - 1) /\ i + 1 \in 1 .. Len(text)
    <3>1. (i + 1) - 1 = i
      OBVIOUS
    <3>. QED  BY <1>1, <1>6, <3>1
  <2>. QED  BY <2>1, <2>2, LineCuts
<1>7. L \in A
  <2>. HIDE DEF A, L
  <2>. QED  BY <1>1, <1>5, <1>6, Induct
<1>. QED  BY <1>1, <1>4, <1>7
-----------------------------------------------------------------------------
(* Lines.                                                                  *)

IsLine(text, p, e) ==
  /\ p \in 1 .. Len(text) /\ e \in p .. Len(text) + 1
  /\ p = 1 \/ text[p - 1] = LF
  /\ e = Len(text) + 1 \/ text[e] = LF
  /\ \A r \in p .. e - 1 : text[r] # LF

\* The beginning of the line that ends at e.
IsBegin(text, b, e) ==
  /\ b \in {0} \cup Class!Newlines(text) /\ b < e
  /\ \A c \in Class!Newlines(text) : c < e => c <= b

LEMMA LineHasBegin ==
  ASSUME NEW text \in Texts, NEW e \in 1 .. Len(text) + 1
  PROVE  \E b : IsBegin(text, b, e)
<1>. DEFINE A == {b \in {0} \cup Class!Newlines(text) : b < e}
            D == {e - b : b \in A}
<1>1. /\ Len(text) \in Nat /\ Class!Newlines(text) \subseteq 1 .. Len(text)
      /\ e \in Nat /\ 0 \in A /\ \A b \in A : b \in Nat /\ b < e
  BY NewlinesOfText
<1>2. D \in SUBSET Nat /\ D # {}
  BY <1>1
<1>3. PICK d \in D : \A x \in D : d <= x
  <2>. HIDE DEF D
  <2>. QED  BY <1>2, Least
<1>4. PICK b \in A : d = e - b
  BY <1>3
<1>5. ASSUME NEW c \in A PROVE c <= b
  <2>1. e - c \in D
    OBVIOUS
  <2>2. d <= e - c
    BY <1>3, <2>1
  <2>. QED  BY <1>1, <1>4, <2>2
<1>6. IsBegin(text, b, e)
  BY <1>1, <1>4, <1>5 DEF IsBegin
<1>. QED  BY <1>6

LEMMA BeginIsOne ==
  ASSUME NEW text \in Texts, NEW e \in 1 .. Len(text) + 1,
         NEW a, NEW b, IsBegin(text, a, e), IsBegin(text, b, e)
  PROVE  a = b
<1>1. Len(text) \in Nat /\ Class!Newlines(text) \subseteq 1 .. Len(text)
  BY NewlinesOfText
<1>2. a \in Nat /\ b \in Nat
  BY <1>1 DEF IsBegin
<1>3. a <= b /\ b <= a
  BY <1>2 DEF IsBegin
<1>. QED  BY <1>2, <1>3

\* Lines are from one newline to the next.
LEMMA LinesAreLines ==
  ASSUME NEW text \in Texts
  PROVE  /\ \A l \in Class!Lines(text) :
              IsLine(text, l.first, l.end) /\ l = [first |-> l.first, end |-> l.end]
         /\ \A p, e : IsLine(text, p, e) => [first |-> p, end |-> e] \in Class!Lines(text)
<1>. DEFINE L == Len(text)
            N == Class!Newlines(text)
            ends == N \cup IF text # <<>> /\ text[L] # LF THEN {L + 1} ELSE {}
            start(e) == CHOOSE b : IsBegin(text, b, e)
<1>1. L \in Nat /\ N = {i \in 1 .. L : text[i] = LF} /\ (text # <<>> => L > 0)
  BY NewlinesOfText DEF Texts
<1>2. ends \subseteq 1 .. L + 1
  BY <1>1
<1>3. Class!Lines(text) = {[first |-> start(e) + 1, end |-> e] : e \in ends}
  <2>1. ASSUME NEW e
        PROVE  start(e) = CHOOSE b \in {0} \cup N : b < e /\ \A c \in N : c < e => c <= b
    BY DEF IsBegin
  <2>. QED  BY <2>1 DEF Class!Lines
<1>4. ASSUME NEW e \in ends PROVE IsBegin(text, start(e), e)
  <2>1. \E b : IsBegin(text, b, e)
    <3>. HIDE DEF ends
    <3>. QED  BY <1>2, LineHasBegin
  <2>. QED  BY <2>1
<1>5. ASSUME NEW e \in ends PROVE IsLine(text, start(e) + 1, e)
  <2>. DEFINE b == start(e)
  <2>1. IsBegin(text, b, e)
    BY <1>4
  <2>. HIDE DEF b
  <2>2. b \in Nat /\ e \in Nat /\ b < e /\ e <= L + 1
    BY <1>1, <1>2, <2>1 DEF IsBegin
  <2>3. b + 1 <= L
    <3>1. CASE e \in N
      BY <1>1, <2>2, <3>1
    <3>2. CASE text # <<>> /\ text[L] # LF
      BY <1>1, <2>1, <2>2, <3>2 DEF IsBegin
    <3>. QED  BY <3>1, <3>2
  <2>4. (b + 1) - 1 = b /\ (b + 1 = 1 \/ text[b] = LF)
    BY <1>1, <2>1, <2>2 DEF IsBegin
  <2>5. e = L + 1 \/ text[e] = LF
    BY <1>1
  <2>6. ASSUME NEW r \in b + 1 .. e - 1 PROVE text[r] # LF
    <3>1. r \in 1 .. L /\ r < e /\ ~(r <= b)
      BY <1>1, <2>2
    <3>. QED  BY <1>1, <2>1, <3>1 DEF IsBegin
  <2>7. IsLine(text, b + 1, e)
    BY <1>1, <2>2, <2>3, <2>4, <2>5, <2>6 DEF IsLine
  <2>. QED  BY <2>7 DEF b
<1>6. ASSUME NEW p, NEW e, IsLine(text, p, e)
      PROVE  e \in ends /\ p = start(e) + 1
  <2>1. /\ p \in 1 .. L /\ e \in p .. L + 1
        /\ p = 1 \/ text[p - 1] = LF
        /\ e = L + 1 \/ text[e] = LF
        /\ \A r \in p .. e - 1 : text[r] # LF
    BY <1>6 DEF IsLine
  <2>2. e \in ends
    <3>1. CASE e = L + 1
      <4>1. L \in p .. e - 1 /\ text # <<>>
        BY <1>1, <2>1, <3>1
      <4>. QED  BY <2>1, <3>1, <4>1
    <3>2. CASE e # L + 1
      BY <1>1, <2>1, <3>2
    <3>. QED  BY <3>1, <3>2
  <2>3. IsBegin(text, p - 1, e)
    <3>1. p - 1 \in {0} \cup N /\ p - 1 < e
      BY <1>1, <2>1
    <3>2. ASSUME NEW c \in N, c < e PROVE c <= p - 1
      BY <1>1, <2>1, <3>2
    <3>. QED  BY <3>1, <3>2 DEF IsBegin
  <2>4. IsBegin(text, start(e), e)
    BY <1>4, <2>2
  <2>. HIDE DEF start
  <2>5. start(e) = p - 1
    <3>. HIDE DEF ends
    <3>. QED  BY <1>2, <2>2, <2>3, <2>4, BeginIsOne
  <2>. QED  BY <1>1, <2>1, <2>2, <2>5
<1>. HIDE DEF start, ends
<1>7. ASSUME NEW l \in Class!Lines(text)
      PROVE  IsLine(text, l.first, l.end) /\ l = [first |-> l.first, end |-> l.end]
  <2>1. PICK e \in ends : l = [first |-> start(e) + 1, end |-> e]
    BY <1>3
  <2>2. l.first = start(e) + 1 /\ l.end = e
    BY <2>1
  <2>. QED  BY <1>5, <2>1, <2>2
<1>8. ASSUME NEW p, NEW e, IsLine(text, p, e)
      PROVE  [first |-> p, end |-> e] \in Class!Lines(text)
  BY <1>3, <1>6, <1>8
<1>. QED  BY <1>7, <1>8

LEMMA LineFrom ==
  ASSUME NEW text \in Texts, NEW p \in 1 .. Len(text), p = 1 \/ text[p - 1] = LF
  PROVE  \E e : IsLine(text, p, e)
<1>. DEFINE A == {e \in p .. Len(text) + 1 : e = Len(text) + 1 \/ text[e] = LF}
<1>1. Len(text) \in Nat
  BY NewlinesOfText
<1>2. A \in SUBSET Nat /\ Len(text) + 1 \in A
  BY <1>1
<1>3. PICK e \in A : \A k \in A : e <= k
  <2>. HIDE DEF A
  <2>. QED  BY <1>2, Least
<1>4. ASSUME NEW r \in p .. e - 1 PROVE text[r] # LF
  BY <1>1, <1>3
<1>5. IsLine(text, p, e)
  BY <1>1, <1>3, <1>4 DEF IsLine
<1>. QED  BY <1>5

\* No two lines have as many before them.
LEMMA LineIsOne ==
  ASSUME NEW text \in Texts, NEW p, NEW e, NEW q, NEW f,
         IsLine(text, p, e), IsLine(text, q, f),
         Class!LinesBefore(text, p) = Class!LinesBefore(text, q)
  PROVE  p = q /\ e = f
<1>1. ASSUME NEW a, NEW b, NEW c, NEW d, IsLine(text, a, c), IsLine(text, b, d), a < b
      PROVE  Class!LinesBefore(text, a) < Class!LinesBefore(text, b)
  <2>1. /\ a \in Nat /\ b \in Nat /\ a <= b - 1 /\ b - 1 < b /\ a <= b
        /\ b - 1 \in Class!Newlines(text)
    <3>1. Len(text) \in Nat /\ a \in 1 .. Len(text) /\ b \in 1 .. Len(text) /\ b # 1
      BY <1>1, NewlinesOfText DEF IsLine
    <3>2. text[b - 1] = LF
      BY <1>1, <3>1 DEF IsLine
    <3>3. b - 1 \in 1 .. Len(text)
      BY <3>1
    <3>. QED  BY <1>1, <3>1, <3>2, <3>3, NewlinesOfText
  <2>. QED  BY <2>1, CountGrows
<1>2. /\ p \in Nat /\ q \in Nat /\ e \in Nat /\ f \in Nat
      /\ Class!LinesBefore(text, p) \in Nat
  BY NewlinesOfText, CountsNewlines DEF IsLine
<1>3. p = q
  <2>1. ~(p < q) /\ ~(q < p)
    BY <1>1, <1>2
  <2>. QED  BY <1>2, <2>1
<1>4. e = f
  <2>1. Len(text) \in Nat
    BY NewlinesOfText
  <2>2. ~(e < f) /\ ~(f < e)
    BY <1>2, <1>3, <2>1 DEF IsLine
  <2>. QED  BY <1>2, <2>2
<1>. QED  BY <1>3, <1>4
-----------------------------------------------------------------------------
(* What a line is read as, and Get.                                        *)

LineStop(text, p, e) ==
  Class!Stop(text, p, IF e > p /\ e <= Len(text) /\ text[e - 1] = CR THEN e - 1 ELSE e)

NameStop(text, p, e) ==
  IF LineStop(text, p, e) > p + MaxName THEN p + MaxName ELSE LineStop(text, p, e)

\* In the buffer that is cut, before names are shortened, a name ends with its line.
LEMMA CutStops ==
  ASSUME NEW text \in Texts, NEW n, CutTo(text, n, Len(text)),
         NEW p, NEW e, IsLine(text, p, e)
  PROVE  /\ LineStop(text, p, e) \in p .. e
         /\ Class!Stop(n.buffer, p, Len(text) + 1) = LineStop(text, p, e)
         /\ LineStop(text, p, e) = Len(text) + 1 \/ n.buffer[LineStop(text, p, e)] = NUL
         /\ \A r \in p .. LineStop(text, p, e) - 1 : n.buffer[r] = text[r] /\ n.buffer[r] # NUL
<1>. DEFINE L == Len(text)
            B == n.buffer
            crlf == e > p /\ e <= L /\ text[e - 1] = CR
            E == IF crlf THEN e - 1 ELSE e
            s == LineStop(text, p, e)
<1>1. /\ L \in Nat /\ p \in 1 .. L /\ e \in p .. L + 1
      /\ e = L + 1 \/ text[e] = LF
      /\ \A r \in p .. e - 1 : text[r] # LF
  BY NewlinesOfText DEF IsLine
<1>2. \A j \in 1 .. L : B[j] = IF IsCut(text, L, j) THEN NUL ELSE text[j]
  BY DEF CutTo
<1>3. E \in p .. e
  BY <1>1
<1>4. /\ s \in p .. E
      /\ s = E \/ text[s] = NUL
      /\ \A r \in p .. s - 1 : text[r] # NUL
  <2>1. s = Class!Stop(text, p, E)
    BY DEF LineStop
  <2>2. p \in Nat /\ E \in Nat /\ p <= E
    BY <1>1, <1>3
  <2>. HIDE DEF s, E
  <2>. QED  BY <2>1, <2>2, StopIsThere
<1>5. s = L + 1 \/ B[s] = NUL
  <2>1. CASE text[s] = NUL /\ s <= L
    BY <1>1, <1>2, <1>3, <1>4, <2>1
  <2>2. CASE s = E /\ crlf
    <3>1. s \in 1 .. L /\ s < L /\ text[s] = CR /\ text[s + 1] = LF
      BY <1>1, <2>2
    <3>. QED  BY <1>2, <3>1 DEF IsCut
  <2>3. CASE s = E /\ ~crlf
    BY <1>1, <1>2, <2>3 DEF IsCut
  <2>4. s <= L + 1
    BY <1>1, <1>3, <1>4
  <2>. QED  BY <1>1, <1>3, <1>4, <2>1, <2>2, <2>3, <2>4
<1>6. ASSUME NEW r \in p .. s - 1 PROVE B[r] = text[r] /\ B[r] # NUL
  <2>1. r \in 1 .. L /\ r \in p .. e - 1 /\ r < s /\ s <= E /\ E <= e /\ r \in Nat
    BY <1>1, <1>3, <1>4
  <2>2. text[r] # NUL /\ text[r] # LF
    BY <1>1, <1>4, <2>1
  <2>3. ~(r < L /\ text[r] = CR /\ text[r + 1] = LF)
    <3>. SUFFICES ASSUME r < L, text[r] = CR, text[r + 1] = LF PROVE FALSE
      OBVIOUS
    <3>1. ~(r + 1 \in p .. e - 1)
      BY <1>1
    <3>2. r + 1 = e /\ s = E /\ E = e
      BY <1>1, <1>3, <1>4, <2>1, <3>1
    <3>3. e > p /\ e <= L /\ e - 1 = r
      BY <1>1, <2>1, <3>2
    <3>4. crlf
      BY <3>3
    <3>. QED  BY <1>1, <3>2, <3>4
  <2>. QED  BY <1>2, <2>1, <2>2, <2>3 DEF IsCut
<1>7. Class!Stop(B, p, L + 1) = s
  <2>1. p \in Nat /\ L + 1 \in Nat /\ s \in p .. L + 1
    BY <1>1, <1>3, <1>4
  <2>. HIDE DEF s, B, L
  <2>. QED  BY <1>5, <1>6, <2>1, StopsOnce
<1>8. s \in p .. e
  BY <1>1, <1>3, <1>4
<1>. HIDE DEF s
<1>. QED  BY <1>5, <1>6, <1>7, <1>8 DEF s

\* Names are shortened each on its own, although they lie in the same buffer.
LEMMA ShortenStops ==
  ASSUME NEW text \in Texts, NEW n, CutTo(text, n, Len(text)),
         NEW k \in 1 .. Len(n.at), NEW e, IsLine(text, n.at[k], e)
  PROVE  LET p == n.at[k]
             z == NameStop(text, p, e)
             m == Class!Shorten(n)
         IN  /\ z \in p .. Len(text) + 1
             /\ Class!Stop(m.buffer, p, Len(text) + 1) = z
             /\ \A r \in p .. z - 1 : m.buffer[r] = text[r]
             /\ m.at = n.at /\ m.buffer \in Texts /\ Len(m.buffer) = Len(text)
<1>. DEFINE L == Len(text)
            p == n.at[k]
            s == LineStop(text, p, e)
            z == NameStop(text, p, e)
            S == Class!Shorten(n).buffer
            IsShort(j, c) == j = n.at[c] + MaxName /\ Class!LengthAt(n.buffer, n.at[c]) > MaxName
<1>0. /\ n.buffer \in [1 .. L -> Characters] /\ n.at \in Seq(1 .. L)
      /\ DOMAIN n.at = 1 .. Len(n.at) /\ \A c \in 1 .. Len(n.at) : n.at[c] \in 1 .. L
      /\ n = [buffer |-> n.buffer, at |-> n.at]
  <2>1. n.buffer \in [1 .. L -> Characters] /\ n.at \in Seq(1 .. L)
        /\ n = [buffer |-> n.buffer, at |-> n.at]
    BY DEF CutTo
  <2>2. DOMAIN n.at = 1 .. Len(n.at) /\ \A c \in 1 .. Len(n.at) : n.at[c] \in 1 .. L
    BY <2>1
  <2>. QED  BY <2>1, <2>2
<1>1. L \in Nat /\ MaxName \in Nat /\ p \in 1 .. L /\ e \in p .. L + 1
  BY NewlinesOfText, NamesAssumption DEF IsLine
<1>. HIDE DEF p
<1>2. /\ s \in p .. e
      /\ Class!Stop(n.buffer, p, L + 1) = s
      /\ s = L + 1 \/ n.buffer[s] = NUL
      /\ \A r \in p .. s - 1 : n.buffer[r] = text[r] /\ n.buffer[r] # NUL
  BY CutStops DEF p
<1>3. z \in p .. s /\ (z = IF s > p + MaxName THEN p + MaxName ELSE s)
  BY <1>1, <1>2 DEF NameStop
<1>4. \A c \in 1 .. Len(n.at) :
        Class!LengthAt(n.buffer, n.at[c]) = Class!Stop(n.buffer, n.at[c], L + 1) - n.at[c]
  BY <1>0, <1>1 DEF Class!LengthAt
<1>5. /\ Class!Shorten(n).at = n.at
      /\ S = [j \in 1 .. L |-> IF \E c \in 1 .. Len(n.at) : IsShort(j, c)
                               THEN NUL ELSE n.buffer[j]]
  BY <1>0 DEF Class!Shorten
<1>. HIDE DEF S, z, s
<1>6. ASSUME NEW r \in p .. z - 1 PROVE S[r] = n.buffer[r]
  <2>1. r \in 1 .. L
    BY <1>1, <1>2, <1>3
  <2>2. ASSUME NEW c \in 1 .. Len(n.at), IsShort(r, c) PROVE FALSE
    <3>. DEFINE d == n.at[c]
                t == Class!Stop(n.buffer, d, L + 1)
    <3>1. d \in 1 .. L /\ r = d + MaxName
      BY <1>0, <2>2
    <3>2. t - d > MaxName
      BY <1>4, <2>2
    <3>3. t \in d .. L + 1 /\ \A x \in d .. t - 1 : n.buffer[x] # NUL
      <4>1. d \in Nat /\ L + 1 \in Nat /\ d <= L + 1
        BY <1>1, <3>1
      <4>. HIDE DEF d, L
      <4>. QED  BY <4>1, StopIsThere
    <3>. HIDE DEF t
    <3>4. d < p
      <4>. HIDE DEF d
      <4>. QED  BY <1>1, <1>2, <1>3, <3>1
    <3>5. p - 1 \in d .. t - 1 /\ p - 1 \in 1 .. L
      <4>. HIDE DEF d
      <4>. QED  BY <1>1, <1>2, <1>3, <3>1, <3>2, <3>3, <3>4
    <3>6. text[p - 1] = LF
      BY <1>1, <3>1, <3>4 DEF IsLine, p
    <3>7. n.buffer[p - 1] = NUL
      <4>1. IsCut(text, L, p - 1)
        BY <3>5, <3>6 DEF IsCut
      <4>. QED  BY <3>5, <4>1 DEF CutTo
    <3>. QED  BY <3>3, <3>5, <3>7
  <2>. HIDE DEF IsShort
  <2>. QED  BY <1>5, <2>1, <2>2
<1>7. z = L + 1 \/ S[z] = NUL
  <2>1. CASE s > p + MaxName
    <3>1. z \in 1 .. L /\ z = p + MaxName
      BY <1>1, <1>2, <1>3, <2>1
    <3>2. IsShort(z, k)
      BY <1>1, <1>2, <1>4, <2>1, <3>1 DEF p
    <3>. HIDE DEF IsShort
    <3>. QED  BY <1>5, <3>1, <3>2
  <2>2. CASE ~(s > p + MaxName)
    <3>1. z = s /\ (s = L + 1 \/ s \in 1 .. L)
      BY <1>1, <1>2, <1>3, <2>2
    <3>. HIDE DEF IsShort
    <3>. QED  BY <1>2, <1>5, <3>1
  <2>. QED  BY <2>1, <2>2
<1>8. \A r \in p .. z - 1 : S[r] = text[r] /\ S[r] # NUL
  BY <1>1, <1>2, <1>3, <1>6
<1>9. Class!Stop(S, p, L + 1) = z
  <2>1. p \in Nat /\ L + 1 \in Nat /\ z \in p .. L + 1
    BY <1>1, <1>2, <1>3
  <2>. HIDE DEF L, p
  <2>. QED  BY <1>7, <1>8, <2>1, StopsOnce
<1>10. S \in Texts /\ Len(S) = L
  <2>1. \A j \in 1 .. L : S[j] \in Characters
    <3>. HIDE DEF IsShort
    <3>. QED  BY <1>0, <1>5 DEF Characters
  <2>2. S \in [1 .. L -> Characters]
    BY <1>5, <2>1
  <2>. QED  BY <1>1, <2>2 DEF Texts
<1>11. z \in p .. L + 1 /\ Class!Shorten(n).at = n.at
  BY <1>1, <1>2, <1>3, <1>5
<1>. QED  BY <1>8, <1>9, <1>10, <1>11 DEF S, z, p

LEMMA SubSeqSame ==
  ASSUME NEW C, NEW s, NEW t, NEW first \in Int, NEW till \in Int,
         \A i \in first .. till : s[i] \in C /\ s[i] = t[i]
  PROVE  SubSeq(s, first, till) = SubSeq(t, first, till)
<1>. DEFINE a == SubSeq(s, first, till)
            b == SubSeq(t, first, till)
<1>1. /\ a \in Seq(C) /\ Len(a) = IF first <= till THEN till - first + 1 ELSE 0
      /\ \A i \in 1 .. till - first + 1 : a[i] = s[first + i - 1]
  BY SubSeqProperties
<1>2. /\ b \in Seq(C) /\ Len(b) = IF first <= till THEN till - first + 1 ELSE 0
      /\ \A i \in 1 .. till - first + 1 : b[i] = t[first + i - 1]
  BY SubSeqProperties
<1>. HIDE DEF a, b
<1>3. ASSUME NEW i \in 1 .. Len(a) PROVE a[i] = b[i]
  <2>1. first + i - 1 \in first .. till /\ i \in 1 .. till - first + 1
    BY <1>1
  <2>. QED  BY <1>1, <1>2, <2>1
<1>4. a = b
  BY <1>1, <1>2, <1>3, SeqEqual
<1>. QED  BY <1>4 DEF a, b

\* A name is what its line is read as.
LEMMA NameIs ==
  ASSUME NEW text \in Texts, NEW n, CutTo(text, n, Len(text)),
         NEW k \in 1 .. Len(n.at), NEW e, IsLine(text, n.at[k], e)
  PROVE  Class!Named(Class!Shorten(n), n.at[k])
           = Class!NameOf(text, [first |-> n.at[k], end |-> e])
<1>. DEFINE L == Len(text)
            p == n.at[k]
            z == NameStop(text, p, e)
            S == Class!Shorten(n).buffer
<1>1. /\ z \in p .. L + 1 /\ Class!Stop(S, p, L + 1) = z
      /\ \A r \in p .. z - 1 : S[r] = text[r]
      /\ S \in Texts /\ Len(S) = L /\ L \in Nat /\ p \in 1 .. L
  BY ShortenStops, NewlinesOfText DEF IsLine
<1>2. Class!NameOf(text, [first |-> p, end |-> e]) = SubSeq(text, p, z - 1)
  BY DEF Class!NameOf, NameStop, LineStop
<1>. HIDE DEF S, z
<1>3. Class!Named(Class!Shorten(n), p) = SubSeq(S, p, p + (z - p) - 1)
  BY <1>1 DEF Class!Named, Class!LengthAt, S
<1>4. p + (z - p) - 1 = z - 1
  BY <1>1
<1>5. SubSeq(S, p, z - 1) = SubSeq(text, p, z - 1)
  <2>1. /\ S \in Seq(Characters) /\ text \in Seq(Characters) /\ z \in Nat
        /\ p \in 1 .. L + 1 /\ z - 1 \in p - 1 .. L
    BY <1>1 DEF Texts
  <2>2. \A i \in p .. z - 1 : S[i] \in Characters /\ S[i] = text[i]
    BY <1>1, <2>1
  <2>3. z - 1 \in Int /\ p \in Int
    BY <2>1
  <2>. QED  BY <2>2, <2>3, SubSeqSame
<1>. QED  BY <1>2, <1>3, <1>4, <1>5

\* Every class has the name of its line, and those behind the last line have none.
LEMMA GetIsLine ==
  ASSUME NEW class \in Int, NEW text \in Texts, content = text,
         names = IF text = <<>> THEN Class!NoNames ELSE Class!Cut(text)
  PROVE  LET of == {l \in Class!Lines(text) : Class!LinesBefore(text, l.first) = class}
         IN  Class!Get(class) = IF of = {} THEN <<"class", class>>
                                ELSE Class!NameOf(text, CHOOSE l \in of : TRUE)
<1>. DEFINE L == Len(text)
            of == {l \in Class!Lines(text) : Class!LinesBefore(text, l.first) = class}
<1>0. L \in Nat
  BY NewlinesOfText
<1>1. CASE text = <<>>
  <2>1. Class!Lines(text) = {}
    BY <1>1, LinesAreLines DEF IsLine
  <2>2. class + 1 \notin DOMAIN names.at
    BY <1>1 DEF Class!NoNames
  <2>. QED  BY <2>1, <2>2 DEF Class!Get
<1>2. CASE text # <<>>
  <2>1. PICK n : CutTo(text, n, L) /\ Class!Cut(text) = Class!Shorten(n)
    BY <1>2, WholeTextIsCut
  <2>2. /\ DOMAIN n.at = 1 .. Len(n.at) /\ Len(n.at) \in Nat
        /\ Len(n.at) = Class!LinesBefore(text, L) + 1
        /\ \A k \in 1 .. Len(n.at) :
             /\ n.at[k] \in 1 .. L
             /\ n.at[k] = 1 \/ text[n.at[k] - 1] = LF
             /\ Class!LinesBefore(text, n.at[k]) = k - 1
    <3>1. n.at \in Seq(1 .. L) /\ LeastOf(L + 1, L) = L
      BY <1>0, <2>1 DEF CutTo, LeastOf
    <3>2. /\ DOMAIN n.at = 1 .. Len(n.at) /\ Len(n.at) \in Nat
          /\ \A k \in 1 .. Len(n.at) : n.at[k] \in 1 .. L
      BY <3>1
    <3>. QED  BY <2>1, <3>1, <3>2 DEF CutTo
  <2>3. names = Class!Shorten(n) /\ names.at = n.at
    BY <1>2, <2>1 DEF Class!Shorten, CutTo
  <2>4. CASE class + 1 \in 1 .. Len(n.at)
    <3>. DEFINE k == class + 1
                p == n.at[k]
    <3>1. /\ p \in 1 .. L /\ (p = 1 \/ text[p - 1] = LF)
          /\ Class!LinesBefore(text, p) = class
      BY <2>2, <2>4
    <3>2. PICK e : IsLine(text, p, e)
      BY <3>1, LineFrom
    <3>. DEFINE line == [first |-> p, end |-> e]
    <3>3. line \in of
      BY <3>1, <3>2, LinesAreLines
    <3>4. ASSUME NEW l \in of PROVE l = line
      <4>1. /\ IsLine(text, l.first, l.end) /\ l = [first |-> l.first, end |-> l.end]
            /\ Class!LinesBefore(text, l.first) = Class!LinesBefore(text, p)
        BY <3>1, LinesAreLines
      <4>2. l.first = p /\ l.end = e
        BY <3>2, <4>1, LineIsOne
      <4>. QED  BY <4>1, <4>2
    <3>5. of # {} /\ (CHOOSE l \in of : TRUE) = line
      <4>. HIDE DEF of, line
      <4>. QED  BY <3>3, <3>4
    <3>6. Class!Get(class) = Class!Named(names, p)
      BY <2>2, <2>3, <2>4 DEF Class!Get
    <3>7. Class!Named(Class!Shorten(n), p) = Class!NameOf(text, line)
      BY <2>1, <2>4, <3>2, NameIs
    <3>. HIDE DEF of, line
    <3>. QED  BY <2>3, <3>5, <3>6, <3>7 DEF of
  <2>5. CASE class + 1 \notin 1 .. Len(n.at)
    <3>1. ASSUME NEW l \in of PROVE FALSE
      <4>1. l.first \in 1 .. L /\ Class!LinesBefore(text, l.first) = class
        BY LinesAreLines DEF IsLine
      <4>2. l.first \in Nat /\ L \in Nat /\ l.first <= L
        BY <1>0, <4>1
      <4>3. Class!LinesBefore(text, l.first) <= Class!LinesBefore(text, L)
        BY <4>2, CountGrows
      <4>4. class \in Nat /\ Class!LinesBefore(text, L) \in Nat
        BY <4>1, <4>2, CountsNewlines
      <4>. QED  BY <2>2, <2>5, <4>1, <4>3, <4>4
    <3>2. of = {}
      <4>. HIDE DEF of
      <4>. QED  BY <3>1
    <3>3. Class!Get(class) = <<"class", class>>
      BY <2>2, <2>3, <2>5 DEF Class!Get
    <3>. QED  BY <3>2, <3>3 DEF of
  <2>. QED  BY <2>4, <2>5
<1>. QED  BY <1>1, <1>2

\* The names are always those that cutting the text that was read gives.
NamesAreRead ==
  /\ content \in Texts
  /\ names = IF content = <<>> THEN Class!NoNames ELSE Class!Cut(content)

\* A class is given the name on its line of labels.txt, blank lines counted, up to its line
\* end, its first NUL or MAX_LABEL_LENGTH characters, whatever cutting and shortening the
\* names around it in the same buffer did (labelparse.c:117-144, labels_get()).
THEOREM PartsNamesAreLines == PartsSpec => []NamesAreLines
<1>1. PartsInit => NamesAreRead
  BY DEF PartsInit, Class!Init, NamesAreRead, Texts
<1>2. NamesAreRead /\ [PartsNext]_partsVars => NamesAreRead'
  <2>. SUFFICES ASSUME NamesAreRead, [PartsNext]_partsVars PROVE NamesAreRead'
    OBVIOUS
  <2>1. CASE Class!Load
    <3>1. PICK text \in Class!Files :
            content' = text /\ names' = IF text = <<>> THEN Class!NoNames ELSE Class!Cut(text)
      BY <2>1 DEF Class!Load
    <3>2. text \in Texts
      BY <3>1 DEF Class!Files, Texts, Characters
    <3>. QED  BY <3>1, <3>2 DEF NamesAreRead
  <2>2. CASE Class!CannotRead
    <3>1. names' = Class!NoNames /\ content' = <<>> /\ <<>> \in Texts
      BY <2>2 DEF Class!CannotRead, Texts
    <3>. QED  BY <3>1 DEF NamesAreRead
  <2>3. CASE Class!Free
    <3>1. names' = Class!NoNames /\ content' = <<>> /\ <<>> \in Texts
      BY <2>3 DEF Class!Free, Texts
    <3>. QED  BY <3>1 DEF NamesAreRead
  <2>4. CASE UNCHANGED nameVars
    <3>1. content' = content /\ names' = names
      BY <2>4 DEF nameVars
    <3>. QED  BY <3>1 DEF NamesAreRead
  <2>. QED
    BY <2>1, <2>2, <2>3, <2>4 DEF PartsNext, Only, Class!Next, partsVars
<1>3. NamesAreRead => NamesAreLines
  <2>. SUFFICES ASSUME NamesAreRead, NEW class \in -1 .. MaxFile
                PROVE  LET of == {l \in Class!Lines(content) :
                                    Class!LinesBefore(content, l.first) = class}
                       IN  Class!Get(class) = IF of = {} THEN <<"class", class>>
                                     ELSE Class!NameOf(content, CHOOSE l \in of : TRUE)
    BY DEF NamesAreLines, Class!NamesAreLines
  <2>1. class \in Int
    BY NamesAssumption
  <2>. QED  BY <2>1, GetIsLine DEF NamesAreRead
<1>. QED  BY <1>1, <1>2, <1>3, PTL DEF PartsSpec
-----------------------------------------------------------------------------
(* The parts together.                                                     *)

\* A behaviour of the application is one of each of these parts.
LEMMA EachPart == PartsSpec => Spec /\ Certificate!Spec /\ Web!Spec
<1>1. PartsInit => Init /\ Certificate!Init /\ Web!Init
  BY DEF PartsInit
<1>2. ASSUME [PartsNext]_partsVars
      PROVE  [Next]_vars /\ [Certificate!Next]_(Certificate!vars) /\ [Web!Next]_(Web!vars)
  <2>1. ASSUME UNCHANGED certificateVars PROVE UNCHANGED Certificate!vars
    BY <2>1 DEF certificateVars, Certificate!vars
  <2>2. ASSUME UNCHANGED webVars PROVE UNCHANGED Web!vars
    BY <2>2 DEF webVars, Web!vars, Web!serverVars
  <2>3. CASE UNCHANGED partsVars
    BY <2>1, <2>2, <2>3 DEF partsVars
  <2>4. CASE PartsNext
    BY <2>1, <2>2, <2>4 DEF PartsNext, Only
  <2>. QED  BY <1>2, <2>3, <2>4
<1>. QED  BY <1>1, <1>2, PTL DEF PartsSpec, Spec, Certificate!Spec, Web!Spec

\* The crops of the application fit (CropFits).
THEOREM PartsCropsFit == PartsSpec => []CropFits
BY EachPart, CropsFit, PTL

\* The newest crop of the application is listed first (NewestFirst).
THEOREM PartsNewestAreFirst == PartsSpec => NewestFirst
BY EachPart, NewestAreFirst, PTL

\* The certificates in use are those in the files (InUseAsStored).
THEOREM PartsUsedAsStored == PartsSpec => []InUseAsStored
BY EachPart, UsedAsStored, PTL DEF InUseAsStored

\* No handler reads what the shutdown has freed, and nothing is freed twice
\* (MemoryIsSound).
THEOREM PartsMemorySound == PartsSpec => []MemoryIsSound
BY EachPart, MemorySound, PTL DEF MemoryIsSound
=============================================================================
