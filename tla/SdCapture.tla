-------------------------------- MODULE SdCapture --------------------------------
(***************************************************************************)
(* Capturing training images to the SD card: the last part of Output() on  *)
(* the main loop, the handlers sd_download and sd_clear on the HTTP thread *)
(* (main.c), and the files both of them work on (Output_helpers.c).  The   *)
(* only thing between the two threads is the busy flag, which Output()     *)
(* looks at before a capture and not while it writes.  The area on the     *)
(* card is that of Storage, whose callbacks run on the main loop too.      *)
(***************************************************************************)
EXTENDS Naturals, FiniteSets

CONSTANTS
  MaxNotices, MaxSetups,  \* the bounds of Storage
  MaxImages,              \* max_images (2000)
  Intervals,              \* values of settings.sd_capture.interval, in ticks
  MaxAge,                 \* bound: where ages saturate
  MaxFiles,               \* bound: names in use at the same time
  MaxUnread               \* bound: how often the image directory cannot be read

ASSUME SdAssumption ==
  /\ MaxNotices \in Nat \ {0} /\ MaxSetups \in Nat
  /\ MaxImages \in Nat
  /\ Intervals \subseteq Nat /\ Intervals # {}
  /\ MaxAge \in Nat /\ \A i \in Intervals : i <= MaxAge
  /\ MaxFiles \in Nat /\ MaxUnread \in Nat

VARIABLES
  card, notices, setups, setup, available, refused,  \* of Storage
  up,        \* a label event is up (Output.c, eventsCache)
  enabled,   \* settings.sd_capture.enabled
  interval,  \* settings.sd_capture.interval
  since,     \* time since last_sd_output_time_ms
  captured,  \* sd_any_event_was_active
  main,      \* the main thread: in its loop, or where the capture is
  current,   \* the name of the capture in progress, its time of day
  busy,      \* sd_busy_flag
  http,      \* the HTTP thread: what it does next
  images,    \* the files in images/
  labels,    \* the files in labels/
  unread,    \* failures to read the image directory so far
  broken,    \* history: captures with a file that could not be written or removed
  tried      \* history: time since a capture began, as long as possible when no event
             \* was up or captures were off in between

storage == <<card, notices, setups, setup, available, refused>>
due == <<since, captured>>
settings == <<enabled, interval>>
capture == <<main, current>>
files == <<images, labels, broken>>
vars == <<storage, up, due, settings, capture, busy, http, files, unread, tried>>

Card == INSTANCE Storage

Names == 1..MaxFiles

Init ==
  /\ Card!Init
  /\ up = FALSE
  /\ enabled \in BOOLEAN /\ interval \in Intervals
  /\ since = MaxAge /\ captured = FALSE
  /\ main = "loop" /\ current = 0
  /\ busy = FALSE /\ http = "idle"
  /\ images = {} /\ labels = {} /\ broken = {}
  /\ unread = 0
  /\ tried = MaxAge
-----------------------------------------------------------------------------
(* Files.                                                                  *)

\* What the file system does with a write: a file that is whole, a piece of a
\* file on a full card, or no file.
Whole == card \in {"ready", "exiting"}
Torn == card = "full"
NoFile == card # "ready"

\* What is left of a directory after delete_dir_contents(): nothing, or all of it
\* when files cannot be removed or the directory cannot be opened.
Left(dir) ==
  CASE card \in {"ready", "full"} -> {{}}
    [] card = "exiting" -> {{}, dir}
    [] card = "absent" -> {dir}
-----------------------------------------------------------------------------
(* The main loop: events, captures, and the callbacks of Storage.          *)

\* sd_count_images(): the files there are, and 0 when there is no directory or
\* it cannot be read.
Count ==
  IF card = "absent" THEN {[n |-> 0, unread |-> unread]}
  ELSE {[n |-> Cardinality(images), unread |-> unread]}
       \cup (IF unread < MaxUnread THEN {[n |-> 0, unread |-> unread + 1]} ELSE {})

\* A fault of Room: one image too many.
RoomForOneMore(n) == n <= MaxImages

Room(n) == n < MaxImages

\* ensure_sd_images_directory() and ensure_sd_labels_directory().
Directories == setup /\ card # "absent"

\* A fault of Due: the interval is not looked at.
DueAlways == TRUE

\* The first image of an activity, or one after the interval.
Due == ~captured \/ since >= interval

\* Bound: label files can pile up when they cannot be removed.
NameLeft == Cardinality(images \cup labels) < MaxFiles

FreeName == CHOOSE f \in Names : f \notin images \cup labels

\* A capture begins: what it consumes is marked before anything is written.
Begin ==
  /\ enabled /\ ~busy
  /\ \E c \in Count :
       /\ Room(c.n)
       /\ unread' = c.unread
  /\ Directories /\ Due
  /\ NameLeft
  /\ since' = 0 /\ captured' = TRUE
  /\ current' = FreeName
  /\ main' = "image"
  /\ tried' = 0

\* No capture: no event is up or captures are off, and the next image is a first
\* one; or this one is not due, not possible or not wanted now.
Skip ==
  /\ IF ~up' \/ ~enabled
     THEN since' = MaxAge /\ captured' = FALSE
     ELSE /\ \/ busy
             \/ ~Directories
             \/ ~Due
             \/ \E c \in Count : ~Room(c.n)
             \/ ~NameLeft
          /\ UNCHANGED due
  /\ UNCHANGED <<capture, unread, tried>>

\* Output() with detections.  In "speed" the event is always up by now; a vote
\* may leave it down.
Frame ==
  /\ main = "loop"
  /\ up' \in {up, TRUE}
  /\ (up' /\ Begin) \/ Skip
  /\ UNCHANGED <<storage, settings, busy, http, files>>

\* Output_DeactivateExpired(): the events go down between frames.
Expire ==
  /\ main = "loop"
  /\ up' = FALSE
  /\ tried' = MaxAge
  /\ UNCHANGED <<storage, due, settings, capture, busy, http, files, unread>>

BackInLoop == main' = "loop" /\ current' = 0

\* Model_GetFullFrameJPEG() has no picture: the capture is over.
NoPicture ==
  /\ main = "image"
  /\ BackInLoop
  /\ UNCHANGED <<storage, up, due, settings, busy, http, files, unread, tried>>

\* save_jpeg_to_file().
SaveImage ==
  /\ main = "image"
  /\ \/ Whole /\ main' = "labels" /\ UNCHANGED current /\ images' = images \cup {current} /\ UNCHANGED broken
     \/ Torn /\ BackInLoop /\ images' = images \cup {current} /\ broken' = broken \cup {current}
     \/ NoFile /\ BackInLoop /\ UNCHANGED <<images, broken>>
  /\ UNCHANGED <<storage, up, due, settings, busy, http, labels, unread, tried>>

\* save_yolo_labels_to_file(), which takes a file that was opened for written.
SaveLabels ==
  /\ main = "labels"
  /\ BackInLoop
  /\ \/ (Whole \/ Torn) /\ labels' = labels \cup {current} /\ UNCHANGED broken
     \/ NoFile /\ UNCHANGED labels /\ broken' = broken \cup ({current} \cap images)
  /\ UNCHANGED <<storage, up, due, settings, busy, http, images, unread, tried>>

StorageCalls ==
  /\ main = "loop"
  /\ Card!OnSubscribe \/ Card!OnSetup
  /\ UNCHANGED <<up, due, settings, capture, busy, http, files, unread, tried>>
-----------------------------------------------------------------------------
(* The HTTP thread.  While it works on the files it is busy; the main loop  *)
(* may be in the middle of a capture when that begins.                     *)

\* A fault of Clear: the flag is not set.
ClearUnguarded ==
  /\ http = "idle" /\ ~busy
  /\ http' = "clear images"
  /\ UNCHANGED busy

\* sd_clear.
Clear ==
  /\ http = "idle" /\ ~busy
  /\ http' = "clear images"
  /\ busy' = TRUE

\* sd_download.
Download ==
  /\ http = "idle" /\ ~busy
  /\ http' = "archive"
  /\ busy' = TRUE

Request ==
  /\ Clear \/ Download
  /\ UNCHANGED <<storage, up, due, settings, capture, files, unread, tried>>

\* sd_clear_directories(): nothing to clear without a path, which is asked for
\* once; then images/ and labels/, one after the other.
ClearImages ==
  /\ http = "clear images"
  /\ \/ ~setup /\ http' = "idle" /\ busy' = FALSE /\ UNCHANGED <<images, broken>>
     \/ /\ setup /\ http' = "clear labels" /\ UNCHANGED busy
        /\ images' \in Left(images)
        /\ broken' = (broken \cap labels) \cup images'
  /\ UNCHANGED <<storage, up, due, settings, capture, labels, unread, tried>>

ClearLabels ==
  /\ http = "clear labels"
  /\ http' = "idle" /\ busy' = FALSE
  /\ labels' \in Left(labels)
  /\ broken' = (broken \cap images) \cup labels'
  /\ UNCHANGED <<storage, up, due, settings, capture, images, unread, tried>>

\* The archive is made, by zip or by tar, opened, read into memory and sent.
ArchiveMade == http = "archive" /\ http' = "open" /\ UNCHANGED busy
ArchiveOpened == http = "open" /\ http' = "send" /\ UNCHANGED busy
ArchiveSent == http = "send" /\ http' = "idle" /\ busy' = FALSE

\* A fault of NotFound: the flag stays set.
NotFoundStaysBusy == http = "open" /\ http' = "idle" /\ UNCHANGED busy

\* Or one of the steps fails; each of the ways out clears the flag by itself.
NotMade == http = "archive" /\ http' = "idle" /\ busy' = FALSE
NotFound == http = "open" /\ http' = "idle" /\ busy' = FALSE
NoMemory == http = "send" /\ http' = "idle" /\ busy' = FALSE

Downloads ==
  /\ \/ ArchiveMade \/ ArchiveOpened \/ ArchiveSent
     \/ NotMade \/ NotFound \/ NoMemory
  /\ UNCHANGED <<storage, up, due, settings, capture, files, unread, tried>>

\* A POST of the settings.
ChangeSettings ==
  /\ http = "idle"
  /\ enabled' \in BOOLEAN /\ interval' \in Intervals
  /\ tried' = IF enabled' THEN tried ELSE MaxAge
  /\ UNCHANGED <<storage, up, due, capture, busy, http, files, unread>>
-----------------------------------------------------------------------------
Older(a) == IF a < MaxAge THEN a + 1 ELSE a

Tick ==
  /\ since' = Older(since)
  /\ tried' = Older(tried)
  /\ UNCHANGED <<storage, up, captured, settings, capture, busy, http, files, unread>>

CardChanges ==
  /\ Card!CardChanges
  /\ UNCHANGED <<up, due, settings, capture, busy, http, files, unread, tried>>

MainStep == NoPicture \/ SaveImage \/ SaveLabels
HttpStep == ClearImages \/ ClearLabels \/ Downloads

Next ==
  \/ Frame \/ Expire \/ MainStep \/ StorageCalls
  \/ Request \/ HttpStep \/ ChangeSettings
  \/ Tick \/ CardChanges

Spec == Init /\ [][Next]_vars

\* Both threads and the clock run on.  An event stays up only while frames with
\* detections come (Events), so that a capture that is due gets its frame.
FairSpec ==
  /\ Spec
  /\ WF_vars(MainStep) /\ WF_vars(HttpStep) /\ WF_vars(Tick)
  /\ SF_vars(StorageCalls)
  /\ SF_vars(Frame /\ main' = "image")
-----------------------------------------------------------------------------
TypeOK ==
  /\ Card!TypeOK
  /\ up \in BOOLEAN /\ captured \in BOOLEAN /\ busy \in BOOLEAN
  /\ enabled \in BOOLEAN /\ interval \in Intervals
  /\ since \in 0..MaxAge /\ tried \in 0..MaxAge
  /\ main \in {"loop", "image", "labels"}
  /\ http \in {"idle", "clear images", "clear labels", "archive", "open", "send"}
  /\ current \in IF main = "loop" THEN {0} ELSE Names
  /\ unread \in 0..MaxUnread
  /\ images \in SUBSET Names /\ labels \in SUBSET Names /\ broken \in SUBSET Names

\* Capture stops at the limit: images are only added by the thread that has just
\* counted them, so that a clear in between can only make room.  A directory that
\* could not be read counts as empty, and costs one image more at most.
LimitHolds == Cardinality(images) <= MaxImages + unread

\* Files without their counterpart that no failed call explains.
Halves == (images \cup labels) \ ((images \cap labels) \cup broken)

\* Each image has its labels and each label file its image, but for at most one:
\* sd_clear can catch a capture between its two files, and the busy flag stops
\* the next one.  The next sd_clear takes away what that left.
PairsMatch ==
  http # "clear labels" =>
    Cardinality(IF main = "loop" THEN Halves ELSE Halves \ {current}) <= 1

\* Two captures are an interval apart, as it is set when the second begins,
\* unless the activity was interrupted in between.
Spacing == [][main' = "image" /\ main = "loop" => tried >= interval]_vars

\* While an event is up and the card is there, image follows image, up to the
\* limit, also after downloads and clears that end in any of their ways.
CapturesGoOn ==
  <>[](up /\ enabled /\ setup /\ card # "absent" /\ http = "idle")
    => []<>(main = "image") \/ <>[](Cardinality(images) >= MaxImages \/ ~NameLeft)

\* Storage's promise, beside captures that keep the main loop busy.
CardIsSetUp == Card!SetUpWhenReady
=============================================================================
