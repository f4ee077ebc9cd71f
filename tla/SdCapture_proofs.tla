---------------------------- MODULE SdCapture_proofs ----------------------------
(***************************************************************************)
(* Proofs about SdCapture, for every limit, every set of intervals and any *)
(* number of files.                                                        *)
(***************************************************************************)
EXTENDS SdCapture, FiniteSetTheorems, TLAPS

AtMostOne(S) == \A a, b \in S : a = b

\* The halves that no capture in progress explains either.
Settled == IF main = "loop" THEN Halves ELSE Halves \ {current}

\* The flag is set exactly while a request works, and the name of a capture that
\* has written nothing is new.
Handshake ==
  /\ busy <=> http # "idle"
  /\ main = "image" => current \notin images \cup labels

\* A capture in progress has been counted.
Counted == main = "image" => Cardinality(images) < MaxImages + unread

\* PairsMatch, and what makes it inductive: a capture whose image was cleared is
\* the only half there will be, and while labels are cleared only the image that
\* is being captured, or was when the request came, can be there and whole.
Pairing ==
  /\ http # "clear labels" =>
       /\ AtMostOne(Settled)
       /\ main = "labels" /\ current \notin images => Halves \subseteq {current}
  /\ http = "clear labels" =>
       /\ AtMostOne(images \ broken)
       /\ main = "image" => images \subseteq broken
       /\ main = "labels" => images \ broken \subseteq {current}

\* The code's clock is reset later than the activity ends.
Timing ==
  /\ since <= tried
  /\ ~captured \/ ~up \/ ~enabled => tried = MaxAge

IInv == TypeOK /\ Handshake /\ LimitHolds /\ Counted /\ Pairing /\ Timing
-----------------------------------------------------------------------------
LEMMA FilesAreFinite ==
  ASSUME TypeOK
  PROVE  /\ IsFiniteSet(images) /\ IsFiniteSet(labels) /\ IsFiniteSet(images \cup labels)
         /\ Cardinality(images) \in Nat
<1>1. IsFiniteSet(Names)
  BY FS_Interval, SdAssumption DEF Names
<1>2. IsFiniteSet(images) /\ IsFiniteSet(labels)
  BY <1>1, FS_Subset DEF TypeOK
<1>. QED
  BY <1>2, FS_Union, FS_CardinalityType

\* While a name is left, the capture gets one that no file has.
LEMMA NameIsFree ==
  ASSUME TypeOK, NameLeft
  PROVE  FreeName \in Names /\ FreeName \notin images \cup labels
<1>1. IsFiniteSet(Names) /\ Cardinality(Names) = MaxFiles
  BY FS_Interval, SdAssumption DEF Names
<1>2. \E f \in Names : f \notin images \cup labels
  <2>1. SUFFICES ASSUME Names \subseteq images \cup labels PROVE FALSE
    OBVIOUS
  <2>2. images \cup labels = Names
    BY <2>1 DEF TypeOK
  <2>. QED
    BY <1>1, <2>2, SdAssumption DEF NameLeft
<1>. QED
  BY <1>2 DEF FreeName

LEMMA AtMostOneCounted ==
  ASSUME NEW S, AtMostOne(S)
  PROVE  Cardinality(S) <= 1
<1>1. CASE S = {}
  BY <1>1, FS_EmptySet
<1>2. CASE S # {}
  <2>1. PICK x \in S : TRUE
    BY <1>2
  <2>2. S = {x}
    BY <2>1 DEF AtMostOne
  <2>3. Cardinality(S) = 1
    BY <2>2, FS_Singleton
  <2>. QED
    BY <2>3
<1>. QED
  BY <1>1, <1>2

LEMMA AtMostOneBelow ==
  ASSUME NEW S, NEW T, AtMostOne(S), T \subseteq S
  PROVE  AtMostOne(T)
BY DEF AtMostOne

LEMMA InitInv == Init => IInv
<1>. SUFFICES ASSUME Init PROVE IInv
  OBVIOUS
<1>1. TypeOK
  <2>1. 1 \in 0..MaxNotices /\ 0 \in 0..MaxSetups /\ MaxAge \in 0..MaxAge /\ 0 \in 0..MaxUnread
    BY SdAssumption
  <2>2. Card!TypeOK
    BY <2>1, Zenon DEF Init, Card!Init, Card!TypeOK, Card!Cards
  <2>. QED
    BY <2>1, <2>2, Zenon DEF Init, TypeOK
<1>2. Handshake /\ Counted /\ Timing
  BY SdAssumption DEF Init, Handshake, Counted, Timing
<1>3. LimitHolds
  BY FS_EmptySet, SdAssumption DEF Init, LimitHolds
<1>4. Pairing
  BY DEF Init, Pairing, Settled, AtMostOne, Halves
<1>. QED
  BY <1>1, <1>2, <1>3, <1>4 DEF IInv
-----------------------------------------------------------------------------
(* Types.                                                                  *)

\* Storage keeps its types.
LEMMA CardStep ==
  ASSUME TypeOK, Card!OnSubscribe \/ Card!OnSetup \/ Card!CardChanges
  PROVE  Card!TypeOK'
<1>1. Card!TypeOK
  BY DEF TypeOK
<1>2. CASE Card!OnSubscribe
  <2>1. Card!Release \/ Card!AskSetup \/ Card!Ignore
    BY <1>2 DEF Card!OnSubscribe
  <2>2. notices' \in 0..MaxNotices /\ UNCHANGED card
    BY <1>1, <1>2, SdAssumption DEF Card!OnSubscribe, Card!TypeOK
  <2>3. setups' \in 0..MaxSetups
    BY <1>1, <2>1, SdAssumption DEF Card!Release, Card!AskSetup, Card!Ignore, Card!TypeOK
  <2>4. setup' \in BOOLEAN /\ available' \in BOOLEAN /\ refused' \in BOOLEAN
    BY <1>1, <2>1, Zenon DEF Card!Release, Card!AskSetup, Card!Ignore, Card!TypeOK
  <2>. QED
    BY <1>1, <2>2, <2>3, <2>4, Zenon DEF Card!TypeOK
<1>3. CASE Card!OnSetup
  <2>1. setups' \in 0..MaxSetups /\ UNCHANGED <<card, notices>>
    BY <1>1, <1>3, SdAssumption DEF Card!OnSetup, Card!TypeOK
  <2>2. setup' \in BOOLEAN /\ available' \in BOOLEAN /\ refused' \in BOOLEAN
    BY <1>1, <1>3, Zenon DEF Card!OnSetup, Card!TypeOK
  <2>. QED
    BY <1>1, <2>1, <2>2, Zenon DEF Card!TypeOK
<1>4. CASE Card!CardChanges
  <2>1. notices' \in 0..MaxNotices
    BY <1>1, <1>4, SdAssumption DEF Card!CardChanges, Card!TypeOK
  <2>2. card' \in Card!Cards
    BY <1>1, <1>4 DEF Card!CardChanges, Card!TypeOK, Card!Cards, Card!Becomes
  <2>3. UNCHANGED <<setups, setup, available>> /\ refused' = FALSE
    BY <1>4 DEF Card!CardChanges
  <2>. QED
    BY <1>1, <2>1, <2>2, <2>3, Zenon DEF Card!TypeOK
<1>. QED
  BY <1>2, <1>3, <1>4

LEMMA TypeStep == TypeOK /\ [Next]_vars => TypeOK'
<1>. SUFFICES ASSUME TypeOK, [Next]_vars PROVE TypeOK'
  OBVIOUS
<1>a. Card!TypeOK
  BY DEF TypeOK
<1>b. 0 \in 0..MaxAge /\ MaxAge \in 0..MaxAge
  BY SdAssumption
<1>0. Card!TypeOK /\ 0 \in 0..MaxAge /\ MaxAge \in 0..MaxAge
  BY <1>a, <1>b
<1>1. CASE StorageCalls \/ CardChanges
  <2>1. Card!TypeOK'
    BY <1>1, CardStep DEF StorageCalls, CardChanges
  <2>. QED
    BY <1>1, <2>1 DEF StorageCalls, CardChanges, due, settings, capture, files, TypeOK
<1>2. ASSUME UNCHANGED storage PROVE Card!TypeOK'
  BY <1>0, <1>2, Zenon DEF storage, Card!TypeOK
<1>3. CASE Frame
  <2>1. CASE Begin
    <3>1. FreeName \in Names
      BY <2>1, NameIsFree DEF Begin
    <3>2. unread' \in 0..MaxUnread
      <4>1. unread \in 0..MaxUnread
        BY DEF TypeOK
      <4>2. unread' = unread \/ (unread < MaxUnread /\ unread' = unread + 1)
        BY <2>1 DEF Begin, Count
      <4>. QED
        BY <4>1, <4>2, SdAssumption
    <3>3. up' \in BOOLEAN
      BY <1>3 DEF Frame, TypeOK
    <3>4. Card!TypeOK'
      BY <1>2, <1>3 DEF Frame
    <3>. QED
      BY <1>0, <1>3, <2>1, <3>1, <3>2, <3>3, <3>4 DEF Frame, Begin, settings, files, TypeOK
  <2>2. CASE Skip
    BY <1>0, <1>2, <1>3, <2>2 DEF Frame, Skip, due, settings, capture, files, TypeOK
  <2>. QED
    BY <1>3, <2>1, <2>2 DEF Frame
<1>4. CASE Expire
  BY <1>0, <1>2, <1>4 DEF Expire, due, settings, capture, files, TypeOK
<1>5. CASE NoPicture
  BY <1>0, <1>2, <1>5 DEF NoPicture, BackInLoop, due, settings, files, TypeOK
<1>6. CASE SaveImage
  <2>1. current \in Names
    BY <1>6 DEF SaveImage, TypeOK
  <2>. QED
    BY <1>0, <1>2, <1>6, <2>1 DEF SaveImage, BackInLoop, due, settings, TypeOK
<1>7. CASE SaveLabels
  <2>1. current \in Names
    BY <1>7 DEF SaveLabels, TypeOK
  <2>. QED
    BY <1>0, <1>2, <1>7, <2>1 DEF SaveLabels, BackInLoop, due, settings, TypeOK
<1>8. CASE Request
  BY <1>2, <1>8 DEF Request, Clear, Download, due, settings, capture, files, TypeOK
<1>9. CASE ClearImages
  BY <1>0, <1>2, <1>9 DEF ClearImages, Left, due, settings, capture, TypeOK, Card!TypeOK, Card!Cards
<1>10. CASE ClearLabels
  BY <1>0, <1>2, <1>10 DEF ClearLabels, Left, due, settings, capture, TypeOK, Card!TypeOK, Card!Cards
<1>11. CASE Downloads
  BY <1>2, <1>11 DEF Downloads, ArchiveMade, ArchiveOpened, ArchiveSent, NotMade, NotFound, NoMemory, due, settings, capture, files, TypeOK
<1>12. CASE ChangeSettings
  BY <1>0, <1>2, <1>12 DEF ChangeSettings, due, capture, files, TypeOK
<1>13. CASE Tick
  <2>1. \A a \in 0..MaxAge : Older(a) \in 0..MaxAge
    BY SdAssumption DEF Older
  <2>2. since \in 0..MaxAge /\ tried \in 0..MaxAge
    BY DEF TypeOK
  <2>3. since' \in 0..MaxAge /\ tried' \in 0..MaxAge
    BY <1>13, <2>1, <2>2 DEF Tick
  <2>. QED
    BY <1>2, <1>13, <2>3 DEF Tick, settings, capture, files, TypeOK
<1>14. CASE UNCHANGED vars
  BY <1>2, <1>14 DEF vars, due, settings, capture, files, TypeOK
<1>. QED
  BY <1>1, <1>3, <1>4, <1>5, <1>6, <1>7, <1>8, <1>9, <1>10, <1>11, <1>12, <1>13, <1>14
     DEF Next, MainStep, HttpStep
-----------------------------------------------------------------------------
(* The limit.                                                              *)

LEMMA HandshakeStep ==
  ASSUME TypeOK, Handshake, [Next]_vars
  PROVE  Handshake'
<1>1. CASE Frame
  <2>1. CASE Begin
    BY <1>1, <2>1, NameIsFree DEF Frame, Begin, Handshake, files
  <2>2. CASE Skip
    BY <1>1, <2>2 DEF Frame, Skip, Handshake, capture, files
  <2>. QED
    BY <1>1, <2>1, <2>2 DEF Frame
<1>2. CASE NoPicture \/ SaveImage \/ SaveLabels
  BY <1>2 DEF NoPicture, SaveImage, SaveLabels, BackInLoop, Handshake
<1>3. CASE Request
  BY <1>3 DEF Request, Clear, Download, Handshake, capture, files
<1>4. CASE ClearImages
  <2>1. images' \subseteq images /\ UNCHANGED <<main, current, labels>>
    BY <1>4 DEF ClearImages, Left, capture, TypeOK, Card!TypeOK, Card!Cards
  <2>2. busy' <=> http' # "idle"
    BY <1>4 DEF ClearImages, Handshake
  <2>. QED
    BY <2>1, <2>2 DEF Handshake
<1>5. CASE ClearLabels
  <2>1. labels' \subseteq labels /\ UNCHANGED <<main, current, images>>
    BY <1>5 DEF ClearLabels, Left, capture, TypeOK, Card!TypeOK, Card!Cards
  <2>2. busy' <=> http' # "idle"
    BY <1>5 DEF ClearLabels
  <2>. QED
    BY <2>1, <2>2 DEF Handshake
<1>6. CASE Downloads
  BY <1>6 DEF Downloads, ArchiveMade, ArchiveOpened, ArchiveSent, NotMade, NotFound, NoMemory, Handshake, capture, files
<1>7. CASE Expire \/ StorageCalls \/ ChangeSettings \/ Tick \/ CardChanges \/ UNCHANGED vars
  BY <1>7 DEF Expire, StorageCalls, ChangeSettings, Tick, CardChanges, vars, capture, files, Handshake
<1>. QED
  BY <1>1, <1>2, <1>3, <1>4, <1>5, <1>6, <1>7 DEF Next, MainStep, HttpStep

LEMMA LimitStep ==
  ASSUME TypeOK, LimitHolds, Counted, [Next]_vars
  PROVE  LimitHolds' /\ Counted'
<1>a. unread \in 0..MaxUnread
  BY DEF TypeOK
<1>b. unread \in Nat /\ MaxImages \in Nat
  BY <1>a, SdAssumption
<1>0. IsFiniteSet(images) /\ Cardinality(images) \in Nat /\ unread \in Nat /\ MaxImages \in Nat
  BY <1>b, FilesAreFinite
<1>1. CASE Frame
  <2>1. UNCHANGED images
    BY <1>1 DEF Frame, files
  <2>2. CASE Begin
    <3>1. \/ Cardinality(images) < MaxImages /\ unread' = unread
          \/ unread' = unread + 1
      BY <2>2 DEF Begin, Count, Room, Directories
    <3>. QED
      BY <1>0, <2>1, <3>1 DEF LimitHolds, Counted
  <2>3. CASE Skip
    BY <2>1, <2>3 DEF Skip, capture, LimitHolds, Counted
  <2>. QED
    BY <1>1, <2>2, <2>3 DEF Frame
<1>2. CASE SaveImage
  <2>1. images' = images \/ images' = images \cup {current}
    BY <1>2 DEF SaveImage
  <2>2. Cardinality(images') \in {Cardinality(images), Cardinality(images) + 1}
    <3>1. Cardinality(images \cup {current}) \in {Cardinality(images), Cardinality(images) + 1}
      BY <1>0, FS_AddElement
    <3>. QED
      BY <2>1, <3>1
  <2>3. Cardinality(images') \in Nat /\ Cardinality(images') <= Cardinality(images) + 1
    BY <1>0, <2>2
  <2>4. Cardinality(images) < MaxImages + unread /\ unread' = unread /\ main' # "image"
    BY <1>2 DEF SaveImage, Counted, BackInLoop
  <2>. QED
    BY <1>0, <2>3, <2>4 DEF LimitHolds, Counted
<1>3. CASE ClearImages
  <2>1. images' = images \/ images' = {}
    BY <1>3 DEF ClearImages, Left, TypeOK, Card!TypeOK, Card!Cards
  <2>2. Cardinality(images') <= Cardinality(images) /\ Cardinality(images') \in Nat
    BY <1>0, <2>1, FS_EmptySet
  <2>3. UNCHANGED <<main, unread>>
    BY <1>3 DEF ClearImages, capture
  <2>. QED
    BY <1>0, <2>2, <2>3 DEF LimitHolds, Counted
<1>4. CASE NoPicture \/ SaveLabels
  BY <1>4 DEF NoPicture, SaveLabels, BackInLoop, files, LimitHolds, Counted
<1>5. CASE Expire \/ StorageCalls \/ ChangeSettings \/ Tick \/ CardChanges \/ UNCHANGED vars
  BY <1>5 DEF Expire, StorageCalls, ChangeSettings, Tick, CardChanges, vars, capture, files,
              LimitHolds, Counted
<1>6. CASE Request \/ ClearLabels \/ Downloads
  BY <1>6 DEF Request, ClearLabels, Downloads, ArchiveMade, ArchiveOpened, ArchiveSent, NotMade, NotFound, NoMemory, capture, files, LimitHolds, Counted
<1>. QED
  BY <1>1, <1>2, <1>3, <1>4, <1>5, <1>6 DEF Next, MainStep, HttpStep
-----------------------------------------------------------------------------
(* Pairs.                                                                  *)

\* Nothing changes for the pairs when the files and the capture do not.
LEMMA PairingKept ==
  ASSUME Pairing, UNCHANGED <<images, labels, broken, main, current>>,
         http' = http \/ (http # "clear labels" /\ http' # "clear labels")
  PROVE  Pairing'
<1>1. UNCHANGED <<Halves, Settled, images \ broken>>
  BY DEF Halves, Settled
<1>. QED
  BY <1>1 DEF Pairing

LEMMA PairingStep ==
  ASSUME TypeOK, Handshake, Pairing, [Next]_vars
  PROVE  Pairing'
<1>1. CASE Frame
  <2>1. UNCHANGED <<images, labels, broken, http>>
    BY <1>1 DEF Frame, files
  <2>2. CASE Begin
    <3>1. http # "clear labels" /\ main = "loop" /\ main' = "image"
      BY <1>1, <2>2 DEF Frame, Begin, Handshake
    <3>2. Settled' \subseteq Settled
      BY <2>1, <3>1 DEF Settled, Halves
    <3>. QED
      BY <2>1, <3>1, <3>2, AtMostOneBelow DEF Pairing
  <2>3. CASE Skip
    BY <2>1, <2>3, PairingKept DEF Skip, capture
  <2>. QED
    BY <1>1, <2>2, <2>3 DEF Frame
<1>2. CASE NoPicture
  <2>1. UNCHANGED <<images, labels, broken, http>> /\ main = "image" /\ main' = "loop"
    BY <1>2 DEF NoPicture, BackInLoop, files
  <2>2. Settled' \subseteq Settled
    BY <2>1 DEF Handshake, Settled, Halves
  <2>. QED
    BY <2>1, <2>2, AtMostOneBelow DEF Pairing
<1>3. CASE SaveImage
  <2>1. main = "image" /\ UNCHANGED <<labels, http>> /\ current \notin images \cup labels
    BY <1>3 DEF SaveImage, Handshake
  <2>2. CASE main' = "labels"
    <3>1. images' = images \cup {current} /\ UNCHANGED <<current, broken>>
      BY <1>3, <2>2 DEF SaveImage, BackInLoop
    <3>2. Settled' \subseteq Settled
      BY <2>1, <2>2, <3>1 DEF Settled, Halves
    <3>3. http = "clear labels" => images' \ broken' \subseteq {current'}
      BY <2>1, <3>1 DEF Pairing
    <3>4. AtMostOne({current'})
      BY DEF AtMostOne
    <3>. QED
      BY <2>1, <2>2, <3>1, <3>2, <3>3, <3>4, AtMostOneBelow DEF Pairing
  <2>3. CASE main' = "loop"
    <3>1. \/ images' = images \cup {current} /\ broken' = broken \cup {current}
          \/ UNCHANGED <<images, broken>>
      BY <1>3, <2>3 DEF SaveImage
    <3>2. Settled' \subseteq Settled /\ images' \ broken' \subseteq images \ broken
      BY <2>1, <2>3, <3>1 DEF Settled, Halves
    <3>. QED
      BY <2>1, <2>3, <3>2, AtMostOneBelow DEF Pairing
  <2>. QED
    BY <1>3, <2>2, <2>3 DEF SaveImage, BackInLoop
<1>4. CASE SaveLabels
  <2>1. main = "labels" /\ main' = "loop" /\ UNCHANGED <<images, http>>
    BY <1>4 DEF SaveLabels, BackInLoop
  <2>2. \/ labels' = labels \cup {current} /\ UNCHANGED broken
        \/ UNCHANGED labels /\ broken' = broken \cup ({current} \cap images)
    BY <1>4 DEF SaveLabels
  <2>3. CASE current \in images
    <3>1. Settled' \subseteq Settled /\ images' \ broken' \subseteq images \ broken
      BY <2>1, <2>2, <2>3 DEF Settled, Halves
    <3>. QED
      BY <2>1, <3>1, AtMostOneBelow DEF Pairing
  <2>4. CASE current \notin images
    <3>1. Settled' \subseteq Halves \cup {current} /\ images' \ broken' \subseteq images \ broken
      BY <2>1, <2>2 DEF Settled, Halves
    <3>2. http # "clear labels" => Settled' \subseteq {current}
      BY <2>1, <2>4, <3>1 DEF Pairing
    <3>3. AtMostOne({current})
      BY DEF AtMostOne
    <3>. QED
      BY <2>1, <3>1, <3>2, <3>3, AtMostOneBelow DEF Pairing
  <2>. QED
    BY <2>3, <2>4
<1>5. CASE ClearImages
  <2>1. http = "clear images" /\ UNCHANGED <<main, current, labels>>
    BY <1>5 DEF ClearImages, capture
  <2>2. CASE http' = "idle" /\ UNCHANGED <<images, broken>>
    BY <2>1, <2>2, PairingKept
  <2>3. CASE http' = "clear labels" /\ images' \subseteq broken'
    <3>1. images' \ broken' = {} /\ AtMostOne({})
      BY <2>3 DEF AtMostOne
    <3>. QED
      BY <2>3, <3>1 DEF Pairing
  <2>. QED
    BY <1>5, <2>2, <2>3 DEF ClearImages
<1>6. CASE ClearLabels
  <2>1. http = "clear labels" /\ http' = "idle" /\ UNCHANGED <<main, current, images>>
    BY <1>6 DEF ClearLabels, capture
  <2>2. broken' = (broken \cap images) \cup labels'
    BY <1>6 DEF ClearLabels
  <2>3. Halves' \subseteq images \ broken /\ Settled' \subseteq Halves'
    BY <2>1, <2>2 DEF Halves, Settled
  <2>. QED
    BY <2>1, <2>3, AtMostOneBelow DEF Pairing
<1>7. CASE Request
  BY <1>7, PairingKept DEF Request, Clear, Download, capture, files
<1>8. CASE Downloads
  BY <1>8, PairingKept DEF Downloads, ArchiveMade, ArchiveOpened, ArchiveSent, NotMade, NotFound, NoMemory, capture, files
<1>9. CASE Expire \/ StorageCalls \/ ChangeSettings \/ Tick \/ CardChanges \/ UNCHANGED vars
  BY <1>9, PairingKept
     DEF Expire, StorageCalls, ChangeSettings, Tick, CardChanges, vars, capture, files
<1>. QED
  BY <1>1, <1>2, <1>3, <1>4, <1>5, <1>6, <1>7, <1>8, <1>9 DEF Next, MainStep, HttpStep
-----------------------------------------------------------------------------
(* Spacing.                                                                *)

LEMMA TimingStep ==
  ASSUME TypeOK, Timing, [Next]_vars
  PROVE  Timing'
<1>a. since \in 0..MaxAge /\ tried \in 0..MaxAge
  BY DEF TypeOK
<1>0. since \in 0..MaxAge /\ tried \in 0..MaxAge /\ MaxAge \in Nat
  BY <1>a, SdAssumption
<1>1. CASE Frame
  <2>1. CASE Begin
    <3>1. since' = 0 /\ tried' = 0 /\ captured' /\ enabled'
      BY <1>1, <2>1 DEF Frame, Begin, settings
    <3>2. up'
      BY <1>1, <2>1 DEF Frame, Begin, Skip, capture
    <3>. QED
      BY <3>1, <3>2 DEF Timing
  <2>2. CASE Skip
    <3>1. UNCHANGED <<tried, enabled>> /\ up' \in {up, TRUE}
      BY <1>1, <2>2 DEF Frame, Skip, settings
    <3>2. CASE ~up' \/ ~enabled
      <4>1. since' = MaxAge
        BY <2>2, <3>2 DEF Skip
      <4>2. tried = MaxAge
        BY <3>1, <3>2 DEF Timing
      <4>. QED
        BY <1>0, <3>1, <4>1, <4>2 DEF Timing
    <3>3. CASE up' /\ enabled
      <4>1. UNCHANGED <<since, captured>>
        BY <2>2, <3>3 DEF Skip, due
      <4>. QED
        BY <1>0, <3>1, <3>3, <4>1 DEF Timing
    <3>. QED
      BY <3>2, <3>3
  <2>. QED
    BY <1>1, <2>1, <2>2 DEF Frame
<1>2. CASE Tick
  <2>1. \A a, b \in 0..MaxAge : a <= b => Older(a) <= Older(b)
    BY <1>0 DEF Older
  <2>2. Older(MaxAge) = MaxAge
    BY <1>0 DEF Older
  <2>. QED
    BY <1>0, <1>2, <2>1, <2>2 DEF Tick, settings, Timing
<1>3. CASE Expire
  BY <1>0, <1>3 DEF Expire, due, settings, Timing
<1>4. CASE ChangeSettings
  BY <1>0, <1>4 DEF ChangeSettings, due, Timing
<1>5. CASE MainStep \/ HttpStep \/ Request \/ StorageCalls \/ CardChanges \/ UNCHANGED vars
  <2>1. UNCHANGED <<since, captured, up, enabled, tried>>
    BY <1>5 DEF MainStep, NoPicture, SaveImage, SaveLabels, HttpStep, ClearImages, ClearLabels,
                Downloads, ArchiveMade, ArchiveOpened, ArchiveSent, NotMade, NotFound, NoMemory, Request, StorageCalls, CardChanges, vars, due, settings
  <2>. QED
    BY <2>1 DEF Timing
<1>. QED
  BY <1>1, <1>2, <1>3, <1>4, <1>5 DEF Next

\* A capture that begins is due by the ideal clock as well.
LEMMA SpacingStep ==
  ASSUME TypeOK, Timing, [Next]_vars, main' = "image", main = "loop"
  PROVE  tried >= interval
<1>1. Begin
  BY DEF Next, Frame, Skip, Expire, MainStep, NoPicture, SaveImage, SaveLabels, StorageCalls, Request,
         HttpStep, ClearImages, ClearLabels, Downloads, ArchiveMade, ArchiveOpened, ArchiveSent, NotMade, NotFound, NoMemory, ChangeSettings, Tick, CardChanges, vars, capture
<1>2. ~captured \/ since >= interval
  BY <1>1 DEF Begin, Due
<1>a. since \in 0..MaxAge /\ tried \in 0..MaxAge /\ interval \in Intervals
  BY DEF TypeOK
<1>3. since \in Nat /\ tried \in Nat /\ MaxAge \in Nat /\ interval \in Nat /\ interval <= MaxAge
  BY <1>a, SdAssumption
<1>. QED
  BY <1>2, <1>3 DEF Timing
-----------------------------------------------------------------------------
LEMMA Invariance == Spec => []IInv
<1>1. Init => IInv
  BY InitInv
<1>2. IInv /\ [Next]_vars => IInv'
  BY TypeStep, HandshakeStep, LimitStep, PairingStep, TimingStep DEF IInv
<1>. QED
  BY <1>1, <1>2, PTL DEF Spec

\* The state of SD capture, of the HTTP thread and of the card is always one the
\* program can be in.
THEOREM TypeCorrect == Spec => []TypeOK
<1>1. IInv => TypeOK
  BY DEF IInv
<1>. QED
  BY <1>1, Invariance, PTL

\* Output.c:393: never more images than the limit, whatever sd_clear does in
\* between, but for one per count that found the directory unreadable.
THEOREM LimitIsKept == Spec => []LimitHolds
<1>1. IInv => LimitHolds
  BY DEF IInv
<1>. QED
  BY <1>1, Invariance, PTL

\* sd_clear and a capture that meet leave at most one file without its
\* counterpart, however often they meet.
THEOREM PairsStayTogether == Spec => []PairsMatch
<1>1. IInv => PairsMatch
  <2>. SUFFICES ASSUME IInv, http # "clear labels"
                PROVE  Cardinality(Settled) <= 1
    BY DEF PairsMatch, Settled
  <2>. QED
    BY AtMostOneCounted DEF IInv, Pairing
<1>. QED
  BY <1>1, Invariance, PTL

\* Captures of one activity are an interval apart.
THEOREM CapturesAreSpaced == Spec => Spacing
<1>1. IInv /\ [Next]_vars => [main' = "image" /\ main = "loop" => tried >= interval]_vars
  BY SpacingStep DEF IInv
<1>. QED
  BY <1>1, Invariance, PTL DEF Spec, Spacing
=============================================================================
