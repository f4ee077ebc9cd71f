--------------------------------- MODULE Events ---------------------------------
(***************************************************************************)
(* The event logic (Output.c) with the event layer under it (ACAP.c).      *)
(* Output() runs on the main loop once per processed frame, the timer      *)
(* Output_DeactivateExpired() every 200 ms between frames, and the HTTP     *)
(* thread changes the settings both of them read.  Time passes in ticks:   *)
(* instead of timestamps the model keeps ages, which saturate where no     *)
(* comparison of the code can tell them apart any more.                    *)
(***************************************************************************)
EXTENDS Naturals, FiniteSets

CONSTANTS
  Labels,      \* the labels of the model
  AnyEvent,    \* ANY_DETECTION_EVENT_ID
  EventId,     \* replace_spaces(): the id an event is declared under, per label
  MaxLabels,   \* MAX_LABELS
  MaxHistory,  \* MAX_HISTORY
  Modes,       \* values of "prioritize" with "eventLogic": records [speed, window, hits, share]
  MaxHits,     \* bound: the most frames a mode asks for
  Durations,   \* values of "minEventDuration"
  LongGap,     \* time between frames from which the frame interval is not updated (5000 ms)
  MaxAge,      \* bound: where ages saturate
  MaxMissed    \* bound: how many events the event system fails to send

Ids == Labels \cup {AnyEvent}

\* The ids Output_init() declares events for.
Declared == {AnyEvent} \cup {EventId[l] : l \in Labels}

ASSUME EventsAssumption ==
  /\ IsFiniteSet(Labels)
  /\ AnyEvent \notin Labels
  /\ MaxLabels \in Nat /\ MaxHistory \in Nat \ {0}
  /\ Modes \subseteq [speed : BOOLEAN, window : Nat, hits : 1..MaxHits, share : 0..100]
  /\ Modes # {} /\ MaxHits \in Nat
  /\ Durations \subseteq Nat
  /\ \E d \in Durations : \A e \in Durations : d <= e
  /\ LongGap \in Nat \ {0}
  /\ MaxAge \in Nat /\ MaxAge >= LongGap
  /\ \A d \in Durations : d < MaxAge
  /\ \A m \in Modes :
       /\ m.window < MaxAge
       /\ (LongGap - 1) * (2 * m.hits - 1) < 2 * MaxAge
  /\ MaxMissed \in Nat

VARIABLES
  cached,      \* eventsCache: the labels it holds; an entry is never evicted
  high,        \* the labels with state == 1
  age,         \* time since last_detect_time, per label of the cache
  recorded,    \* frameHistory, newest first, as it was written: [age, seen]
  sinceFrame,  \* time since lastFrameTime, LongGap when longer or never
  interval,    \* frameInterval
  mode,        \* the event logic of the settings
  duration,    \* settings.minEventDuration
  fired,       \* status "events": the ids whose state is true
  told,        \* the ids whose last event sent said true
  missed,      \* the ids whose last change was not sent
  frame,       \* history: the labels of the last frame
  sightings    \* history: the ages of the last frames each label was in, newest first

events == <<cached, high, age, recorded>>
pace == <<sinceFrame, interval>>
settings == <<mode, duration>>
outside == <<fired, told, missed>>
history == <<frame, sightings>>
vars == <<events, pace, settings, outside, history>>

Ages == 0..MaxAge

Slots == 1..MaxHistory

\* A slot of the ring buffer that was never written, or that is older than any
\* window and as good as never written.
Blank == [age |-> MaxAge, seen |-> {}]

Init ==
  /\ cached = {} /\ high = {}
  /\ age = [l \in Labels |-> MaxAge]
  /\ recorded = [i \in Slots |-> Blank]
  /\ sinceFrame = LongGap /\ interval = 0
  /\ mode \in Modes /\ duration \in Durations
  /\ fired = {} /\ told = {} /\ missed = {}
  /\ frame = {}
  /\ sightings = [l \in Labels |-> [i \in 1..MaxHits |-> MaxAge]]
-----------------------------------------------------------------------------
(* The event layer.                                                        *)

\* ACAP_EVENTS_Fire_State() of the ids in "on" with 1 and of those in "off"
\* with 0; a label is its own id.  An id that is already in that state is left
\* alone.  The status is set first; an id without a declaration and an event
\* the event system does not take are logged and not tried again.
FireStates(on, off) ==
  LET changed == (on \ fired) \cup (off \cap fired)
      now == (fired \cup on) \ off
  IN  \E sent \in SUBSET (changed \cap Declared) :
        /\ Cardinality((missed \cup (changed \cap Declared)) \ sent) <= MaxMissed
        /\ fired' = now
        /\ told' = (told \ sent) \cup (sent \cap now)
        /\ missed' = (missed \cup (changed \cap Declared)) \ sent

\* A fault of FireWithAny: update_any_detection_event() is not called.
FireLabelsOnly(on, off) == FireStates(on, off)

\* update_any_detection_event() after the label events.
FireWithAny(on, off) ==
  IF high' # {} THEN FireStates(on \cup {AnyEvent}, off)
                ELSE FireStates(on, off \cup {AnyEvent})
-----------------------------------------------------------------------------
(* Output(): one processed frame.                                          *)

Between(a, b) ==
  {i \in 0..LongGap : (a <= i /\ i <= b) \/ (b <= i /\ i <= a)}

\* A fault of Smoothed: a long pause counts as a frame interval.
SmoothedOverPauses ==
  IF sinceFrame > 0
  THEN IF interval = 0 THEN {sinceFrame} ELSE Between(interval, sinceFrame)
  ELSE {interval}

\* frameInterval moves towards the gap just seen; how far is rounding to ticks.
Smoothed ==
  IF sinceFrame > 0 /\ sinceFrame < LongGap
  THEN IF interval = 0 THEN {sinceFrame} ELSE Between(interval, sinceFrame)
  ELSE {interval}

PaceFrame ==
  /\ interval' \in Smoothed
  /\ sinceFrame' = 0

\* How many of n new labels find room in the cache.
Room(n) ==
  IF Cardinality(cached) + n <= MaxLabels THEN n ELSE MaxLabels - Cardinality(cached)

\* find_or_create_label_state() for every detection of the frame, in the order
\* the model lists them: new labels enter until the cache is full.
CacheLabels(labels) ==
  \E new \in SUBSET (labels \ cached) :
    /\ Cardinality(new) = Room(Cardinality(labels \ cached))
    /\ cached' = cached \cup new

\* window_ms, stretched when frames are too slow for min_hits of them, in halves
\* of a tick.
Window ==
  LET stretched == interval' * (2 * mode.hits - 1)
  IN  IF 2 * mode.window < stretched THEN stretched ELSE 2 * mode.window

\* A fault of Recent: the window is not looked at.
RecordedEver == {i \in Slots : recorded'[i].age < MaxAge}

\* The slots of the ring buffer within the window.
Recent == {i \in Slots : recorded'[i].age < MaxAge /\ 2 * recorded'[i].age <= Window}

Hits(l) == Cardinality({i \in Recent : l \in recorded'[i].seen})

\* A fault of Wins: a tie has no winner.
WinsAlone(l) ==
  /\ Hits(l) >= mode.hits
  /\ Hits(l) * 100 >= mode.share * Cardinality(Recent)
  /\ \A j \in cached' \ {l} : Hits(j) < Hits(l)

\* The vote: enough frames, a large enough share of them, and no label with more.
Wins(l) ==
  /\ Hits(l) >= mode.hits
  /\ Hits(l) * 100 >= mode.share * Cardinality(Recent)
  /\ \A j \in cached' : Hits(j) <= Hits(l)

\* Push a first element, dropping the last.
Pushed(f, e) == [i \in DOMAIN f |-> IF i = 1 THEN e ELSE f[i - 1]]

\* A fault of Vote: the label need not be in the frame to win.
VoteForAbsent(seen) ==
  IF mode.speed \/ seen = {}
  THEN /\ recorded' = recorded
       /\ high' = IF mode.speed THEN high \cup seen ELSE high
  ELSE /\ recorded' = Pushed(recorded, [age |-> 0, seen |-> seen])
       /\ high' = high \cup {l \in cached' : Wins(l)}

\* The labels whose event goes up: every label seen in "speed", the winners of
\* the vote otherwise.  The ring buffer keeps the last MaxHistory frames.
Vote(seen) ==
  IF mode.speed \/ seen = {}
  THEN /\ recorded' = recorded
       /\ high' = IF mode.speed THEN high \cup seen ELSE high
  ELSE /\ recorded' = Pushed(recorded, [age |-> 0, seen |-> seen])
       /\ high' = high \cup {l \in seen : Wins(l)}

Sight(labels) ==
  /\ frame' = labels
  /\ sightings' = [l \in Labels |->
       IF l \in labels THEN Pushed(sightings[l], 0) ELSE sightings[l]]

\* Faults of Touch: only a rising event is touched; every event is.
TouchRising(seen) ==
  age' = [l \in Labels |-> IF l \in seen /\ l \in high' \ high THEN 0 ELSE age[l]]
TouchAll(seen) == age' = [l \in Labels |-> 0]

\* last_detect_time of the labels seen, whether their event is up or not.
Touch(seen) == age' = [l \in Labels |-> IF l \in seen THEN 0 ELSE age[l]]

Frame(labels) ==
  /\ labels # {}
  /\ PaceFrame
  /\ CacheLabels(labels)
  /\ Vote(labels \cap cached')
  /\ Touch(labels \cap cached')
  /\ FireWithAny(high' \ high, {})
  /\ Sight(labels)
  /\ UNCHANGED settings

\* A frame without detections: Output() returns before it looks at any event.
EmptyFrame ==
  /\ PaceFrame
  /\ Sight({})
  /\ UNCHANGED <<events, settings, outside>>
-----------------------------------------------------------------------------
(* The timer, the settings and the clock.                                  *)

\* Output_DeactivateExpired().
Expire ==
  LET expired == {l \in high : age[l] > duration}
  IN  /\ high' = high \ expired
      /\ FireWithAny({}, expired)
      /\ UNCHANGED <<cached, age, recorded, pace, settings, history>>

\* A POST of the settings, on the HTTP thread.
ChangeSettings ==
  /\ mode' \in Modes
  /\ duration' \in Durations
  /\ UNCHANGED <<events, pace, outside, history>>

Older(a) == IF a < MaxAge THEN a + 1 ELSE a

Tick ==
  /\ age' = [l \in Labels |-> Older(age[l])]
  /\ recorded' = [i \in Slots |->
       IF Older(recorded[i].age) = MaxAge THEN Blank
       ELSE [age |-> Older(recorded[i].age), seen |-> recorded[i].seen]]
  /\ sinceFrame' = IF sinceFrame < LongGap THEN sinceFrame + 1 ELSE LongGap
  /\ sightings' = [l \in Labels |-> [i \in 1..MaxHits |-> Older(sightings[l][i])]]
  /\ UNCHANGED <<cached, high, interval, settings, outside, frame>>
-----------------------------------------------------------------------------
Next ==
  \/ \E labels \in SUBSET Labels : Frame(labels)
  \/ EmptyFrame
  \/ Expire
  \/ ChangeSettings
  \/ Tick

Spec == Init /\ [][Next]_vars

\* The clock and the timer run on; frames and settings come as they please.
FairSpec == Spec /\ WF_vars(Tick) /\ WF_vars(Expire)
-----------------------------------------------------------------------------
TypeOK ==
  /\ cached \in SUBSET Labels
  /\ high \in SUBSET Labels
  /\ age \in [Labels -> Ages]
  /\ recorded \in [Slots -> [age : Ages, seen : SUBSET Labels]]
  /\ sinceFrame \in 0..LongGap
  /\ interval \in 0..(LongGap - 1)
  /\ mode \in Modes
  /\ duration \in Durations
  /\ fired \in SUBSET Ids
  /\ told \in SUBSET Ids
  /\ missed \in SUBSET Ids
  /\ frame \in SUBSET Labels
  /\ sightings \in [Labels -> [1..MaxHits -> Ages]]

\* How long ago a label was last in a processed frame, whatever the cache says.
Unseen(l) == sightings[l][1]

\* The "any detection" event is up exactly when a label event is, and whoever
\* subscribed to it was told so, but for the changes the event system dropped:
\* the two functions that change label states both end in
\* update_any_detection_event(), and Fire_State() skips what is already said.
AnyEventFollows ==
  /\ AnyEvent \in fired <=> high # {}
  /\ AnyEvent \notin missed => (AnyEvent \in told <=> high # {})

\* A label event goes down only after its label has been in no frame for longer
\* than the minimum event duration: a frame that comes in between holds it, also
\* one that does not win any vote, and also across a change of the settings.
HeldWhileSeen == [][\A l \in high \ high' : Unseen(l) > duration]_vars

\* Outside "speed" a label event goes up only when the label really was in as
\* many frames as the mode asks for, all within the window and the last of them
\* the current one.  What the ring buffer kept from before a pause, or from
\* before the mode changed, cannot stand in for them.
EventsAreEarned ==
  [][\A l \in high' \ high :
       /\ l \in frame'
       /\ mode.speed \/ 2 * sightings'[l][mode.hits] <= Window]_vars

\* A label that is in every frame gets its event, also next to labels that come
\* and go, when the frames come fast enough for the mode and the cache has it.
PersistentLabelFires ==
  \A l \in Labels, m \in Modes :
    /\ <>[](l \in frame /\ l \in cached /\ mode = m /\ sinceFrame <= 1)
    /\ []<>(sinceFrame = 1) /\ []<>(sinceFrame = 0)
    => <>(l \in high)

\* An event does not stay up when its label is gone, whatever the settings do.
EventsClear == \A l \in Labels : <>[](l \notin frame) => <>[](l \notin high)

\* Each label produces an event state of its own that its subscribers can see,
\* whatever characters are in its name.
SubscribersFollow == \A l \in Labels \ missed : l \in told <=> l \in high
-----------------------------------------------------------------------------
(* The event logic keeps the promise of EventContract.                     *)

ShortestDuration == CHOOSE d \in Durations : \A e \in Durations : d <= e

Contract == INSTANCE EventContract WITH
  active <- high,
  quiet <- [l \in Labels |-> Unseen(l)],
  any <- AnyEvent \in fired,
  MinDuration <- ShortestDuration,
  Forever <- MaxAge

ContractSpec == Contract!Spec
=============================================================================
