----------------------------- MODULE Events_proofs -----------------------------
(***************************************************************************)
(* Proofs about Events, for every set of labels, every event logic and     *)
(* every size of the cache and of the ring buffer.                         *)
(***************************************************************************)
EXTENDS Events, FiniteSetTheorems, TLAPS

\* The code's clock of a cached label is right, and only cached labels are up.
ClockRight ==
  /\ high \subseteq cached
  /\ \A l \in cached : age[l] = Unseen(l)

IInv == TypeOK /\ ClockRight /\ AnyEventFollows

\* A mode asks for at least one frame, so there is a first sighting to ask for.
LEMMA FirstSighting == 1 \in 1..MaxHits
<1>1. PICK m \in Modes : m.hits \in 1..MaxHits
  BY EventsAssumption
<1>2. MaxHits \in Nat
  BY EventsAssumption
<1>. QED  BY <1>1, <1>2

\* An age one tick on is an age.
LEMMA OlderIsAge ==
  ASSUME NEW a \in Ages
  PROVE  Older(a) \in Ages
BY EventsAssumption DEF Older, Ages

\* Pushing a zero keeps the type of a label's sightings and comes first.
LEMMA PushedSighting ==
  ASSUME NEW f \in [1..MaxHits -> Ages]
  PROVE  /\ Pushed(f, 0) \in [1..MaxHits -> Ages]
         /\ Pushed(f, 0)[1] = 0
<1>1. MaxHits \in Nat /\ 0 \in Ages
  BY EventsAssumption DEF Ages
<1>2. DOMAIN f = 1..MaxHits
  OBVIOUS
<1>3. ASSUME NEW i \in 1..MaxHits, i # 1 PROVE f[i - 1] \in Ages
  BY <1>1, <1>3
<1>. QED  BY <1>1, <1>2, <1>3, FirstSighting DEF Pushed

\* Firing label events and then the "any detection" event leaves that one in
\* step with the labels, in the status and with its subscribers.
LEMMA FiringKeepsStep ==
  ASSUME TypeOK, AnyEventFollows,
         NEW on \in SUBSET Labels, NEW off \in SUBSET Labels,
         FireWithAny(on, off)
  PROVE  /\ AnyEventFollows'
         /\ fired' \in SUBSET Ids /\ told' \in SUBSET Ids /\ missed' \in SUBSET Ids
<1>1. AnyEvent \notin on /\ AnyEvent \notin off
  BY EventsAssumption
<1>2. /\ fired \subseteq Ids /\ told \subseteq Ids /\ missed \subseteq Ids
      /\ AnyEvent \in Declared
      /\ AnyEvent \in Ids /\ Labels \subseteq Ids
  BY DEF TypeOK, Ids, Declared
<1>3. CASE high' # {}
  <2>1. FireStates(on \cup {AnyEvent}, off)
    BY <1>3 DEF FireWithAny
  <2>2. PICK sent \in SUBSET ((((on \cup {AnyEvent}) \ fired) \cup (off \cap fired)) \cap Declared) :
          /\ fired' = (fired \cup (on \cup {AnyEvent})) \ off
          /\ told' = (told \ sent) \cup (sent \cap fired')
          /\ missed' = (missed \cup ((((on \cup {AnyEvent}) \ fired) \cup (off \cap fired)) \cap Declared)) \ sent
    BY <2>1 DEF FireStates
  <2>3. AnyEvent \in fired'
    BY <1>1, <2>2
  <2>4. fired' \subseteq Ids /\ told' \subseteq Ids /\ missed' \subseteq Ids
    BY <1>2, <2>2
  <2>5. AnyEvent \notin missed' => AnyEvent \in told'
    BY <1>1, <1>2, <1>3, <2>2, <2>3 DEF AnyEventFollows
  <2>. QED  BY <1>3, <2>3, <2>4, <2>5 DEF AnyEventFollows
<1>4. CASE high' = {}
  <2>1. FireStates(on, off \cup {AnyEvent})
    BY <1>4 DEF FireWithAny
  <2>2. PICK sent \in SUBSET (((on \ fired) \cup ((off \cup {AnyEvent}) \cap fired)) \cap Declared) :
          /\ fired' = (fired \cup on) \ (off \cup {AnyEvent})
          /\ told' = (told \ sent) \cup (sent \cap fired')
          /\ missed' = (missed \cup (((on \ fired) \cup ((off \cup {AnyEvent}) \cap fired)) \cap Declared)) \ sent
    BY <2>1 DEF FireStates
  <2>3. AnyEvent \notin fired'
    BY <2>2
  <2>4. fired' \subseteq Ids /\ told' \subseteq Ids /\ missed' \subseteq Ids
    BY <1>2, <2>2
  <2>5. AnyEvent \notin missed' => AnyEvent \notin told'
    BY <1>1, <1>2, <1>4, <2>2, <2>3 DEF AnyEventFollows
  <2>. QED  BY <1>4, <2>3, <2>4, <2>5 DEF AnyEventFollows
<1>. QED  BY <1>3, <1>4
-----------------------------------------------------------------------------
(* The inductive invariant, action by action.                              *)

\* Nothing is up at the start.
LEMMA InitInv == Init => IInv
<1> SUFFICES ASSUME Init PROVE IInv
  OBVIOUS
<1>1. /\ MaxAge \in Ages /\ LongGap \in 0..LongGap /\ 0 \in 0..(LongGap - 1)
      /\ Blank \in [age : Ages, seen : SUBSET Labels]
  BY EventsAssumption DEF Ages, Blank
<1>2. TypeOK
  BY <1>1 DEF Init, TypeOK
<1>. QED  BY <1>2 DEF Init, IInv, ClockRight, AnyEventFollows

\* The frame rate keeps its type.
LEMMA PaceType ==
  ASSUME TypeOK, PaceFrame
  PROVE  interval' \in 0..(LongGap - 1) /\ sinceFrame' \in 0..LongGap
<1>1. LongGap \in Nat \ {0}
  BY EventsAssumption
<1>2. Smoothed \subseteq 0..(LongGap - 1)
  BY <1>1 DEF TypeOK, Smoothed, Between
<1>. QED  BY <1>1, <1>2 DEF PaceFrame

\* The sightings keep their type; a label in the frame is seen now.
LEMMA SightType ==
  ASSUME TypeOK, NEW labels \in SUBSET Labels, Sight(labels)
  PROVE  /\ sightings' \in [Labels -> [1..MaxHits -> Ages]]
         /\ frame' \in SUBSET Labels
         /\ \A l \in Labels : Unseen(l)' = IF l \in labels THEN 0 ELSE Unseen(l)
<1>1. ASSUME NEW l \in Labels
      PROVE  /\ Pushed(sightings[l], 0) \in [1..MaxHits -> Ages]
             /\ Pushed(sightings[l], 0)[1] = 0
  BY PushedSighting DEF TypeOK
<1>2. sightings \in [Labels -> [1..MaxHits -> Ages]]
  BY DEF TypeOK
<1>. QED  BY <1>1, <1>2 DEF Sight, Unseen

\* A frame with detections.
LEMMA FrameInv ==
  ASSUME IInv, NEW labels \in SUBSET Labels, Frame(labels)
  PROVE  IInv'
<1>1. PICK new \in SUBSET (labels \ cached) : cached' = cached \cup new
  BY DEF Frame, CacheLabels
<1> DEFINE seen == labels \cap cached'
<1>2. seen \in SUBSET Labels /\ Vote(seen) /\ Touch(seen)
  BY DEF Frame
<1>3. cached' \in SUBSET Labels
  BY <1>1 DEF IInv, TypeOK
<1>4. high \subseteq high' /\ high' \subseteq high \cup seen
  BY <1>2 DEF Vote
<1>5. recorded' \in [Slots -> [age : Ages, seen : SUBSET Labels]]
  <2>1. CASE recorded' = recorded
    BY <2>1 DEF IInv, TypeOK
  <2>2. CASE recorded' = Pushed(recorded, [age |-> 0, seen |-> seen])
    <3> DEFINE e == [age |-> 0, seen |-> seen]
    <3>1. e \in [age : Ages, seen : SUBSET Labels]
      BY EventsAssumption, <1>2 DEF Ages
    <3> HIDE DEF e
    <3>2. recorded \in [Slots -> [age : Ages, seen : SUBSET Labels]]
      BY DEF IInv, TypeOK
    <3>3. ASSUME NEW i \in Slots, i # 1 PROVE i - 1 \in Slots
      BY EventsAssumption, <3>3 DEF Slots
    <3>4. Pushed(recorded, e) \in [Slots -> [age : Ages, seen : SUBSET Labels]]
      BY <3>1, <3>2, <3>3 DEF Pushed
    <3>. QED  BY <2>2, <3>4 DEF e
  <2>. QED  BY <1>2, <2>1, <2>2 DEF Vote
<1>6. age' \in [Labels -> Ages]
      /\ \A l \in Labels : age'[l] = IF l \in seen THEN 0 ELSE age[l]
  BY EventsAssumption, <1>2 DEF Touch, IInv, TypeOK, Ages
<1>7. /\ sightings' \in [Labels -> [1..MaxHits -> Ages]]
      /\ frame' \in SUBSET Labels
      /\ \A l \in Labels : Unseen(l)' = IF l \in labels THEN 0 ELSE Unseen(l)
  BY SightType DEF Frame, IInv
<1>8. /\ AnyEventFollows'
      /\ fired' \in SUBSET Ids /\ told' \in SUBSET Ids /\ missed' \in SUBSET Ids
  <2>1. high' \ high \in SUBSET Labels /\ {} \in SUBSET Labels
    BY <1>2, <1>4 DEF IInv, TypeOK
  <2>2. FireWithAny(high' \ high, {})
    BY DEF Frame
  <2>. QED  BY <2>1, <2>2, FiringKeepsStep DEF IInv
<1>9. interval' \in 0..(LongGap - 1) /\ sinceFrame' \in 0..LongGap
  BY PaceType DEF Frame, IInv
<1>10. high' \in SUBSET Labels /\ mode' \in Modes /\ duration' \in Durations
  BY <1>2, <1>4 DEF IInv, TypeOK, Frame, settings
<1>11. TypeOK'
  BY <1>3, <1>5, <1>6, <1>7, <1>8, <1>9, <1>10 DEF TypeOK
<1>12. ClockRight'
  <2>1. high' \subseteq cached'
    BY <1>1, <1>4 DEF IInv, ClockRight
  <2>2. ASSUME NEW l \in cached' PROVE age'[l] = Unseen(l)'
    <3>1. CASE l \in labels
      BY <1>3, <1>6, <1>7, <3>1
    <3>2. CASE l \notin labels
      BY <1>1, <1>3, <1>6, <1>7, <3>2 DEF IInv, ClockRight
    <3>. QED  BY <3>1, <3>2
  <2>. QED  BY <2>1, <2>2 DEF ClockRight
<1>. QED  BY <1>8, <1>11, <1>12 DEF IInv

\* A frame without.
LEMMA EmptyFrameInv ==
  ASSUME IInv, EmptyFrame
  PROVE  IInv'
<1>1. /\ sightings' \in [Labels -> [1..MaxHits -> Ages]]
      /\ frame' \in SUBSET Labels
      /\ \A l \in Labels : Unseen(l)' = Unseen(l)
  BY SightType DEF EmptyFrame, IInv
<1>2. interval' \in 0..(LongGap - 1) /\ sinceFrame' \in 0..LongGap
  BY PaceType DEF EmptyFrame, IInv
<1>3. UNCHANGED <<cached, high, age, recorded, mode, duration, fired, told, missed>>
  BY DEF EmptyFrame, events, settings, outside
<1>4. TypeOK'
  BY <1>1, <1>2, <1>3 DEF IInv, TypeOK
<1>5. ClockRight'
  BY <1>1, <1>3 DEF IInv, ClockRight, TypeOK
<1>. QED  BY <1>3, <1>4, <1>5 DEF IInv, AnyEventFollows

\* The timer.
LEMMA ExpireInv ==
  ASSUME IInv, Expire
  PROVE  IInv'
<1> DEFINE expired == {l \in high : age[l] > duration}
<1>1. /\ high' = high \ expired /\ FireWithAny({}, expired)
      /\ UNCHANGED <<cached, age, recorded, sinceFrame, interval, mode, duration, frame, sightings>>
  BY DEF Expire, pace, settings, history
<1>2. {} \in SUBSET Labels /\ expired \in SUBSET Labels
  BY DEF IInv, TypeOK
<1>3. /\ AnyEventFollows'
      /\ fired' \in SUBSET Ids /\ told' \in SUBSET Ids /\ missed' \in SUBSET Ids
  BY <1>1, <1>2, FiringKeepsStep DEF IInv
<1>4. TypeOK'
  BY <1>1, <1>3 DEF IInv, TypeOK
<1>5. ClockRight'
  BY <1>1 DEF IInv, ClockRight, Unseen
<1>. QED  BY <1>3, <1>4, <1>5 DEF IInv

\* The clock.
LEMMA TickInv ==
  ASSUME IInv, Tick
  PROVE  IInv'
<1>1. UNCHANGED <<cached, high, interval, mode, duration, fired, told, missed, frame>>
  BY DEF Tick, settings, outside
<1>2. age' \in [Labels -> Ages] /\ \A l \in Labels : age'[l] = Older(age[l])
  BY OlderIsAge DEF IInv, TypeOK, Tick
<1>3. /\ sightings' \in [Labels -> [1..MaxHits -> Ages]]
      /\ \A l \in Labels : Unseen(l)' = Older(Unseen(l))
  BY OlderIsAge, FirstSighting DEF IInv, TypeOK, Tick, Unseen
<1>4. recorded' \in [Slots -> [age : Ages, seen : SUBSET Labels]]
  <2>1. recorded \in [Slots -> [age : Ages, seen : SUBSET Labels]]
    BY DEF IInv, TypeOK
  <2>2. ASSUME NEW i \in Slots
        PROVE  /\ recorded[i].seen \in SUBSET Labels
               /\ Older(recorded[i].age) \in Ages
    BY <2>1, OlderIsAge
  <2>3. Blank \in [age : Ages, seen : SUBSET Labels]
    BY EventsAssumption DEF Blank, Ages
  <2>. QED  BY <2>2, <2>3 DEF Tick
<1>5. sinceFrame' \in 0..LongGap
  BY EventsAssumption DEF IInv, TypeOK, Tick
<1>6. TypeOK'
  BY <1>1, <1>2, <1>3, <1>4, <1>5 DEF IInv, TypeOK
<1>7. ClockRight'
  BY <1>1, <1>2, <1>3 DEF IInv, ClockRight, TypeOK
<1>. QED  BY <1>1, <1>6, <1>7 DEF IInv, AnyEventFollows

\* A change of the settings.
LEMMA SettingsInv ==
  ASSUME IInv, ChangeSettings
  PROVE  IInv'
BY DEF IInv, TypeOK, ClockRight, AnyEventFollows, Unseen, ChangeSettings,
       events, pace, outside, history

\* A step that changes nothing.
LEMMA StutterInv ==
  ASSUME IInv, UNCHANGED vars
  PROVE  IInv'
BY DEF IInv, TypeOK, ClockRight, AnyEventFollows, Unseen, vars,
       events, pace, settings, outside, history
-----------------------------------------------------------------------------
(* The theorems.                                                           *)

\* IInv is an invariant of every interleaving of frames, timer, clock and
\* changes of the settings.
THEOREM Invariance == Spec => []IInv
<1>1. IInv /\ [Next]_vars => IInv'
  <2> SUFFICES ASSUME IInv, [Next]_vars PROVE IInv'
    OBVIOUS
  <2>1. CASE \E labels \in SUBSET Labels : Frame(labels)
    BY <2>1, FrameInv
  <2>2. CASE EmptyFrame
    BY <2>2, EmptyFrameInv
  <2>3. CASE Expire
    BY <2>3, ExpireInv
  <2>4. CASE ChangeSettings
    BY <2>4, SettingsInv
  <2>5. CASE Tick
    BY <2>5, TickInv
  <2>6. CASE UNCHANGED vars
    BY <2>6, StutterInv
  <2>. QED  BY <2>1, <2>2, <2>3, <2>4, <2>5, <2>6 DEF Next
<1>. QED  BY InitInv, <1>1, PTL DEF Spec

\* Every variable keeps its type, for every configuration of the event logic.
THEOREM TypeCorrect == Spec => []TypeOK
<1>1. IInv => TypeOK
  BY DEF IInv
<1>. QED  BY <1>1, Invariance, PTL

\* The "any detection" event is up exactly when a label event is, and its
\* subscribers know unless the event system dropped the last change.
THEOREM AnyEventIsRight == Spec => []AnyEventFollows
<1>1. IInv => AnyEventFollows
  BY DEF IInv
<1>. QED  BY <1>1, Invariance, PTL

\* No label event goes down before its label has been out of every frame for
\* longer than the minimum event duration.
THEOREM EventsAreHeld == Spec => HeldWhileSeen
<1>1. IInv /\ [Next]_vars => [\A l \in high \ high' : Unseen(l) > duration]_vars
  <2> SUFFICES ASSUME IInv, Next, NEW l \in high \ high' PROVE Unseen(l) > duration
    BY DEF vars
  <2>1. CASE \E labels \in SUBSET Labels : Frame(labels)
    BY <2>1 DEF Frame, Vote
  <2>2. CASE EmptyFrame
    BY <2>2 DEF EmptyFrame, events
  <2>3. CASE Expire
    BY <2>3 DEF Expire, IInv, ClockRight
  <2>4. CASE ChangeSettings
    BY <2>4 DEF ChangeSettings, events
  <2>5. CASE Tick
    BY <2>5 DEF Tick
  <2>. QED  BY <2>1, <2>2, <2>3, <2>4, <2>5 DEF Next
<1>. QED  BY <1>1, Invariance, PTL DEF Spec, HeldWhileSeen
-----------------------------------------------------------------------------
(* An event is earned by as many frames.                                   *)

\* Of any k slots of the ring buffer that have a label one is as old as the label's k-th
\* last sighting or older: no slot counts for a frame that the label was not in.
SlotsAreSightings ==
  \A l \in Labels : \A T \in SUBSET {i \in Slots : l \in recorded[i].seen} :
    \A k \in 1..MaxHits :
      Cardinality(T) >= k => \E i \in T : sightings[l][k] <= recorded[i].age

\* A set of slots is finite, and holds nothing when it has no element.
LEMMA SlotSets ==
  ASSUME NEW T \in SUBSET Slots
  PROVE  /\ IsFiniteSet(T) /\ Cardinality(T) \in Nat
         /\ Cardinality(T) >= 1 => T # {}
         /\ Cardinality(T \ {1}) \in Nat /\ IsFiniteSet(T \ {1})
         /\ Cardinality(T) = IF 1 \in T THEN Cardinality(T \ {1}) + 1
                                        ELSE Cardinality(T \ {1})
<1>1. MaxHistory \in Nat /\ IsFiniteSet(Slots)
  BY EventsAssumption, FS_Interval DEF Slots
<1>2. IsFiniteSet(T) /\ Cardinality(T) \in Nat
  BY <1>1, FS_Subset, FS_CardinalityType
<1>3. /\ Cardinality(T \ {1}) = IF 1 \in T THEN Cardinality(T) - 1 ELSE Cardinality(T)
      /\ IsFiniteSet(T \ {1})
  BY <1>2, FS_RemoveElement
<1>4. Cardinality(T \ {1}) \in Nat
  BY <1>3, FS_CardinalityType
<1>. QED  BY <1>2, <1>3, <1>4, FS_EmptySet

\* The slots before the shift, for slots after it.
Unshifted(T) == {i \in Slots : i + 1 \in T}

\* The shift of the ring buffer loses no slot but the first.
LEMMA ShiftCounts ==
  ASSUME NEW T \in SUBSET Slots
  PROVE  /\ IsFiniteSet(Unshifted(T)) /\ Cardinality(Unshifted(T)) \in Nat
         /\ Cardinality(T \ {1}) <= Cardinality(Unshifted(T))
<1>1. MaxHistory \in Nat /\ Slots = 1..MaxHistory
  BY EventsAssumption DEF Slots
<1>2. IsFiniteSet(Unshifted(T)) /\ Cardinality(Unshifted(T)) \in Nat
  BY SlotSets DEF Unshifted
<1> DEFINE f == [i \in T \ {1} |-> i - 1]
<1>3. \A i \in T \ {1} : i - 1 \in Unshifted(T)
  BY <1>1 DEF Unshifted
<1>4. \A i, j \in T \ {1} : i - 1 = j - 1 => i = j
  BY <1>1
<1>5. f \in Injection(T \ {1}, Unshifted(T))
  BY <1>3, <1>4 DEF Injection, IsInjective
<1> HIDE DEF f
<1>. QED  BY <1>2, <1>5, FS_Injection

\* The k-th last sighting before a frame, and after it.
LEMMA SightingsShift ==
  ASSUME TypeOK, NEW labels \in SUBSET Labels, Sight(labels), NEW l \in Labels,
         NEW k \in 1..MaxHits
  PROVE  /\ l \notin labels => sightings'[l][k] = sightings[l][k]
         /\ l \in labels => \/ k = 1 /\ sightings'[l][k] = 0
                            \/ k # 1 /\ k - 1 \in 1..MaxHits
                                     /\ sightings'[l][k] = sightings[l][k - 1]
<1>1. /\ sightings \in [Labels -> [1..MaxHits -> Ages]] /\ MaxHits \in Nat
      /\ sightings'[l] = IF l \in labels THEN Pushed(sightings[l], 0) ELSE sightings[l]
  BY EventsAssumption DEF TypeOK, Sight
<1>2. DOMAIN sightings[l] = 1..MaxHits
  BY <1>1
<1>. QED  BY <1>1, <1>2 DEF Pushed

\* A frame whose labels are written to the ring buffer.
LEMMA PushEarns ==
  ASSUME IInv, SlotsAreSightings, NEW labels \in SUBSET Labels, Sight(labels),
         NEW seen \in SUBSET labels, recorded' = Pushed(recorded, [age |-> 0, seen |-> seen])
  PROVE  SlotsAreSightings'
<1> SUFFICES ASSUME NEW l \in Labels,
                    NEW T \in SUBSET {i \in Slots : l \in recorded'[i].seen},
                    NEW k \in 1..MaxHits, Cardinality(T) >= k
             PROVE  \E i \in T : sightings'[l][k] <= recorded'[i].age
  BY DEF SlotsAreSightings
<1>1. /\ recorded \in [Slots -> [age : Ages, seen : SUBSET Labels]]
      /\ MaxHits \in Nat /\ MaxHistory \in Nat /\ Slots = 1..MaxHistory
  BY EventsAssumption DEF IInv, TypeOK, Slots
<1>2. /\ \A i \in Slots : i # 1 => i - 1 \in Slots /\ recorded'[i] = recorded[i - 1]
      /\ 1 \in Slots => recorded'[1] = [age |-> 0, seen |-> seen]
  BY <1>1 DEF Pushed
<1>3. T \in SUBSET Slots
  OBVIOUS
<1> DEFINE U == Unshifted(T)
<1>4. U \in SUBSET {i \in Slots : l \in recorded[i].seen}
  <2> SUFFICES ASSUME NEW i \in U PROVE i \in Slots /\ l \in recorded[i].seen
    OBVIOUS
  <2>1. i \in Slots /\ i + 1 \in T /\ i + 1 # 1 /\ (i + 1) - 1 = i
    BY <1>1 DEF Unshifted
  <2>. QED  BY <1>2, <1>3, <2>1
<1>5. ASSUME NEW j \in U, NEW n \in Nat, n <= recorded[j].age
      PROVE  \E i \in T : n <= recorded'[i].age
  <2>1. j \in Slots /\ j + 1 \in T /\ j + 1 # 1 /\ (j + 1) - 1 = j
    BY <1>1 DEF Unshifted
  <2>2. recorded'[j + 1] = recorded[j]
    BY <1>2, <1>3, <2>1
  <2>. QED  BY <1>5, <2>1, <2>2
<1>6. /\ Cardinality(T) \in Nat /\ Cardinality(U) \in Nat
      /\ Cardinality(T) = IF 1 \in T THEN Cardinality(T \ {1}) + 1 ELSE Cardinality(T \ {1})
      /\ Cardinality(T \ {1}) <= Cardinality(U) /\ Cardinality(T \ {1}) \in Nat
      /\ T # {}
  <2>1. /\ Cardinality(T) \in Nat /\ Cardinality(T \ {1}) \in Nat
        /\ Cardinality(T) = IF 1 \in T THEN Cardinality(T \ {1}) + 1
                                       ELSE Cardinality(T \ {1})
        /\ Cardinality(T) >= 1 => T # {}
    BY <1>3, SlotSets
  <2>2. Cardinality(U) \in Nat /\ Cardinality(T \ {1}) <= Cardinality(U)
    BY <1>3, ShiftCounts
  <2>. QED  BY <1>1, <2>1, <2>2
<1>7. \A n \in 1..MaxHits : sightings[l][n] \in Nat
  BY EventsAssumption DEF IInv, TypeOK, Ages
<1>8. \A n \in 1..MaxHits :
        Cardinality(U) >= n => \E j \in U : sightings[l][n] <= recorded[j].age
  BY <1>4 DEF SlotsAreSightings
<1> HIDE DEF U
<1>9. CASE l \notin labels
  <2>1. 1 \notin T
    BY <1>2, <1>9
  <2>2. Cardinality(U) >= k
    BY <1>1, <1>6, <2>1
  <2>3. sightings'[l][k] = sightings[l][k]
    BY <1>9, SightingsShift DEF IInv
  <2>. QED  BY <1>5, <1>7, <1>8, <2>2, <2>3
<1>10. CASE l \in labels /\ k = 1
  <2>1. sightings'[l][k] = 0
    BY <1>10, SightingsShift DEF IInv
  <2>2. ASSUME NEW i \in T PROVE recorded'[i].age \in Nat
    <3>1. i \in Slots
      OBVIOUS
    <3>2. CASE i = 1
      BY <1>2, <3>1, <3>2
    <3>3. CASE i # 1
      <4>1. i - 1 \in Slots /\ recorded'[i] = recorded[i - 1]
        BY <1>2, <3>1, <3>3
      <4>2. recorded[i - 1].age \in Ages
        BY <1>1, <4>1
      <4>. QED  BY <4>1, <4>2, EventsAssumption DEF Ages
    <3>. QED  BY <3>2, <3>3
  <2>. QED  BY <1>6, <2>1, <2>2
<1>11. CASE l \in labels /\ k # 1
  <2>1. k - 1 \in 1..MaxHits /\ sightings'[l][k] = sightings[l][k - 1]
    BY <1>11, SightingsShift DEF IInv
  <2>2. Cardinality(U) >= k - 1
    BY <1>1, <1>6
  <2>. QED  BY <1>5, <1>7, <1>8, <2>1, <2>2
<1>. QED  BY <1>9, <1>10, <1>11

\* A frame that leaves the ring buffer alone: the sightings only get newer.
LEMMA NoPushEarns ==
  ASSUME IInv, SlotsAreSightings, NEW labels \in SUBSET Labels, Sight(labels),
         UNCHANGED recorded
  PROVE  SlotsAreSightings'
<1> SUFFICES ASSUME NEW l \in Labels,
                    NEW T \in SUBSET {i \in Slots : l \in recorded[i].seen},
                    NEW k \in 1..MaxHits, Cardinality(T) >= k
             PROVE  \E i \in T : sightings'[l][k] <= recorded[i].age
  BY DEF SlotsAreSightings
<1>1. /\ recorded \in [Slots -> [age : Ages, seen : SUBSET Labels]]
      /\ MaxHits \in Nat /\ MaxAge \in Nat /\ T \in SUBSET Slots
  BY EventsAssumption DEF IInv, TypeOK
<1>2. Cardinality(T) \in Nat /\ T # {}
  <2>1. /\ Cardinality(T) \in Nat
        /\ Cardinality(T) >= 1 => T # {}
    BY <1>1, SlotSets
  <2>. QED  BY <1>1, <2>1
<1>3. \A n \in 1..MaxHits :
        Cardinality(T) >= n => \E i \in T : sightings[l][n] <= recorded[i].age
  BY DEF SlotsAreSightings
<1>4. CASE l \notin labels
  BY <1>3, <1>4, SightingsShift DEF IInv
<1>5. CASE l \in labels /\ k = 1
  <2>1. \A i \in T : 0 <= recorded[i].age
    BY <1>1 DEF Ages
  <2>. QED  BY <1>2, <1>5, <2>1, SightingsShift DEF IInv
<1>6. CASE l \in labels /\ k # 1
  <2>1. k - 1 \in 1..MaxHits /\ sightings'[l][k] = sightings[l][k - 1]
    BY <1>6, SightingsShift DEF IInv
  <2>2. Cardinality(T) >= k - 1
    BY <1>1, <1>2
  <2>. QED  BY <1>3, <2>1, <2>2
<1>. QED  BY <1>4, <1>5, <1>6

\* The clock makes slots and sightings older alike.
LEMMA TickEarns ==
  ASSUME IInv, SlotsAreSightings, Tick
  PROVE  SlotsAreSightings'
<1> SUFFICES ASSUME NEW l \in Labels,
                    NEW T \in SUBSET {i \in Slots : l \in recorded'[i].seen},
                    NEW k \in 1..MaxHits, Cardinality(T) >= k
             PROVE  \E i \in T : sightings'[l][k] <= recorded'[i].age
  BY DEF SlotsAreSightings
<1>1. \A a, b \in Ages : a <= b => Older(a) <= Older(b)
  BY EventsAssumption DEF Ages, Older
<1>2. \A i \in T : /\ i \in Slots /\ l \in recorded[i].seen
                   /\ recorded'[i].age = Older(recorded[i].age)
  BY DEF Tick, Blank
<1>3. PICK i \in T : sightings[l][k] <= recorded[i].age
  BY <1>2 DEF SlotsAreSightings
<1>4. sightings[l][k] \in Ages /\ recorded[i].age \in Ages
  BY <1>2 DEF IInv, TypeOK
<1>5. sightings'[l][k] = Older(sightings[l][k])
  BY DEF Tick
<1>. QED  BY <1>1, <1>2, <1>3, <1>4, <1>5

LEMMA EarnedKept == IInv /\ SlotsAreSightings /\ [Next]_vars => SlotsAreSightings'
<1> SUFFICES ASSUME IInv, SlotsAreSightings, [Next]_vars PROVE SlotsAreSightings'
  OBVIOUS
<1>1. ASSUME NEW labels \in SUBSET Labels, Frame(labels) PROVE SlotsAreSightings'
  <2> DEFINE seen == labels \cap cached'
  <2>1. Sight(labels) /\ Vote(seen) /\ seen \in SUBSET labels
    BY <1>1 DEF Frame
  <2> HIDE DEF seen
  <2>2. recorded' = recorded \/ recorded' = Pushed(recorded, [age |-> 0, seen |-> seen])
    BY <2>1 DEF Vote
  <2>. QED  BY <2>1, <2>2, PushEarns, NoPushEarns
<1>2. CASE EmptyFrame
  BY <1>2, NoPushEarns DEF EmptyFrame, events
<1>3. CASE Tick
  BY <1>3, TickEarns
<1>4. CASE UNCHANGED <<recorded, sightings>>
  BY <1>4 DEF SlotsAreSightings
<1>. QED  BY <1>1, <1>2, <1>3, <1>4
          DEF Next, Expire, ChangeSettings, vars, events, history

\* A frame raises the events of labels that are in it and, outside "speed", have been in
\* as many frames as the mode asks for within the window.
LEMMA FrameEarns ==
  ASSUME IInv, SlotsAreSightings', NEW labels \in SUBSET Labels, Frame(labels),
         NEW l \in high' \ high
  PROVE  l \in frame' /\ (mode.speed \/ 2 * sightings'[l][mode.hits] <= Window)
<1> DEFINE seen == labels \cap cached'
           T == {i \in Recent : l \in recorded'[i].seen}
<1>1. l \in seen /\ l \in Labels /\ frame' = labels
  BY DEF Frame, Vote, Sight
<1>2. CASE mode.speed
  BY <1>1, <1>2
<1>3. CASE ~mode.speed
  <2>1. Wins(l)
    BY <1>1, <1>3 DEF Frame, Vote, IInv, TypeOK
  <2>2. Cardinality(T) >= mode.hits /\ mode.hits \in 1..MaxHits
    BY <2>1, EventsAssumption DEF Wins, Hits, IInv, TypeOK
  <2>3. T \in SUBSET {i \in Slots : l \in recorded'[i].seen}
    BY DEF Recent
  <2>4. PICK i \in T : sightings'[l][mode.hits] <= recorded'[i].age
    BY <1>1, <2>2, <2>3 DEF SlotsAreSightings
  <2>5. 2 * recorded'[i].age <= Window
    BY <2>4 DEF Recent
  <2>6. Window \in Nat
    <3>1. interval' \in 0..(LongGap - 1) /\ LongGap \in Nat
      BY PaceType, EventsAssumption DEF Frame, IInv
    <3>2. mode.hits \in Nat \ {0} /\ mode.window \in Nat
      <4>1. mode \in [speed : BOOLEAN, window : Nat, hits : 1..MaxHits, share : 0..100]
        BY EventsAssumption DEF IInv, TypeOK
      <4>. QED  BY <4>1, EventsAssumption
    <3>. QED  BY <3>1, <3>2 DEF Window
  <2>7. sightings'[l][mode.hits] \in Nat /\ recorded'[i].age \in Nat
    <3>1. TypeOK'
      BY FrameInv DEF IInv
    <3>2. sightings'[l][mode.hits] \in Ages
      BY <1>1, <2>2, <3>1 DEF TypeOK
    <3>3. recorded'[i].age \in Ages
      BY <2>3, <2>4, <3>1 DEF TypeOK
    <3>. QED  BY <3>2, <3>3, EventsAssumption DEF Ages
  <2>. QED  BY <1>1, <2>4, <2>5, <2>6, <2>7
<1>. QED  BY <1>2, <1>3

\* A label event goes up only when its label was in as many frames as the mode asks for,
\* within the window and up to the current one (Output.c:290): the ring buffer never
\* counts a frame of before a pause or of another label for it.
THEOREM EventsAreEarnedAlways == Spec => EventsAreEarned
<1>1. Init => SlotsAreSightings
  <2> SUFFICES ASSUME Init, NEW l \in Labels,
                      NEW T \in SUBSET {i \in Slots : l \in recorded[i].seen},
                      NEW k \in 1..MaxHits
               PROVE  ~(Cardinality(T) >= k)
    BY DEF SlotsAreSightings
  <2>1. T = {}
    BY DEF Init, Blank
  <2>. QED  BY <2>1, FS_EmptySet, EventsAssumption
<1>2. IInv /\ SlotsAreSightings' /\ [Next]_vars
        => [\A l \in high' \ high :
              /\ l \in frame'
              /\ mode.speed \/ 2 * sightings'[l][mode.hits] <= Window]_vars
  <2> SUFFICES ASSUME IInv, SlotsAreSightings', Next, NEW l \in high' \ high
               PROVE  /\ l \in frame'
                      /\ mode.speed \/ 2 * sightings'[l][mode.hits] <= Window
    BY DEF vars
  <2>1. PICK labels \in SUBSET Labels : Frame(labels)
    BY DEF Next, EmptyFrame, Expire, ChangeSettings, Tick, events
  <2>. QED  BY <2>1, FrameEarns
<1>. QED  BY <1>1, <1>2, EarnedKept, Invariance, PTL DEF Spec, EventsAreEarned
-----------------------------------------------------------------------------
(* Events implements EventContract.                                        *)

\* The shortest duration is a lower bound of the durations.
LEMMA Shortest ==
  /\ ShortestDuration \in Durations
  /\ \A d \in Durations : ShortestDuration <= d
BY EventsAssumption DEF ShortestDuration

\* Every step of the event logic is a step the contract allows: events rise only
\* with their label in the frame and go down only after their time.
THEOREM KeepsTheContract == Spec => ContractSpec
<1>1. Init => Contract!Init
  BY FirstSighting DEF Init, Contract!Init, Unseen
<1>2. IInv /\ IInv' /\ [Next]_vars =>
        [Contract!Next]_<<high, [l \in Labels |-> Unseen(l)], AnyEvent \in fired>>
  <2> SUFFICES ASSUME IInv, IInv', [Next]_vars
               PROVE  \/ Contract!Next
                      \/ UNCHANGED <<high, [l \in Labels |-> Unseen(l)], AnyEvent \in fired>>
    OBVIOUS
  <2>1. (AnyEvent \in fired') = (high' # {})
    BY DEF IInv, AnyEventFollows
  <2>2. ASSUME NEW labels \in SUBSET Labels, Frame(labels) PROVE Contract!See(labels)
    <3>1. \A l \in Labels : Unseen(l)' = IF l \in labels THEN 0 ELSE Unseen(l)
      BY <2>2, SightType DEF IInv, Frame
    <3>2. high \subseteq high' /\ high' \ high \subseteq labels
      BY <2>2 DEF Frame, Vote
    <3>. QED  BY <2>1, <3>1, <3>2 DEF Contract!See
  <2>3. CASE EmptyFrame
    <3>1. \A l \in Labels : Unseen(l)' = Unseen(l)
      BY <2>3, SightType DEF IInv, EmptyFrame
    <3>2. UNCHANGED <<high, fired>>
      BY <2>3 DEF EmptyFrame, events, outside
    <3>. QED  BY <3>1, <3>2
  <2>4. CASE Expire
    <3>1. UNCHANGED sightings
      BY <2>4 DEF Expire, history
    <3>2. \A l \in high \ high' : Unseen(l) > duration
      BY <2>4 DEF Expire, IInv, ClockRight
    <3>3. \A l \in high \ high' : Unseen(l) > ShortestDuration
      <4>1. duration \in Nat /\ ShortestDuration \in Nat /\ ShortestDuration <= duration
        BY Shortest, EventsAssumption DEF IInv, TypeOK
      <4>2. \A l \in high : Unseen(l) \in Nat
        BY FirstSighting, EventsAssumption DEF IInv, TypeOK, Unseen, Ages
      <4>. QED  BY <3>2, <4>1, <4>2
    <3>4. \A l \in high : [k \in Labels |-> Unseen(k)][l] = Unseen(l)
      BY DEF IInv, TypeOK
    <3>5. high' \subseteq high
      BY <2>4 DEF Expire
    <3>6. Contract!Clear
      BY <2>1, <3>1, <3>3, <3>4, <3>5 DEF Contract!Clear, Unseen
    <3>. QED  BY <3>6 DEF Contract!Next
  <2>5. CASE ChangeSettings
    BY <2>5 DEF ChangeSettings, events, outside, history, Unseen
  <2>6. CASE Tick
    <3>1. UNCHANGED <<high, fired>>
      BY <2>6 DEF Tick, outside
    <3>2. ASSUME NEW l \in Labels
          PROVE  Unseen(l)' = Older(Unseen(l)) /\ Unseen(l) \in Ages
      <4>1. sightings \in [Labels -> [1..MaxHits -> Ages]]
        BY DEF IInv, TypeOK
      <4>2. sightings'[l] = [i \in 1..MaxHits |-> Older(sightings[l][i])]
        BY <2>6 DEF Tick
      <4>. QED  BY <4>1, <4>2, FirstSighting DEF Unseen
    <3>3. \A l \in Labels : Unseen(l)' = IF Unseen(l) = MaxAge THEN MaxAge ELSE Unseen(l) + 1
      <4>1. ASSUME NEW a \in Ages
            PROVE  Older(a) = IF a = MaxAge THEN MaxAge ELSE a + 1
        BY EventsAssumption DEF Older, Ages
      <4>. QED  BY <3>2, <4>1
    <3>4. Contract!Pass
      BY <3>1, <3>3 DEF Contract!Pass
    <3>. QED  BY <3>4 DEF Contract!Next
  <2>7. CASE UNCHANGED vars
    BY <2>7 DEF vars, events, outside, history, Unseen
  <2>. QED  BY <2>2, <2>3, <2>4, <2>5, <2>6, <2>7 DEF Next, Contract!Next
<1>. QED  BY <1>1, <1>2, Invariance, PTL DEF Spec, ContractSpec, Contract!Spec
=============================================================================
