# DetectX, specified

TLA+ specifications of DetectX, the Axis camera application in this repository
(`src/app`): which frames it analyses, which events it raises, how its model
comes up and goes down, what becomes of its settings, certificates and
connections through failures and restarts, and what its threads may do to each
other meanwhile.  TLC checks the specifications on small instances; TLAPS checks
the theorems for all values of the constants.

## The system

Four kinds of threads share one address space.

| Thread | What runs on it |
| --- | --- |
| GLib main loop | `ImageProcess()` as an idle source; the timers (`deferred_model_start` 1.5 s, `model_retry_timer` 15 s, `Output_DeactivateExpired` 200 ms, `restart_acap_cb` 800 ms, the status timer 60 s); storage callbacks; SIGTERM. These never overlap. |
| FastCGI thread | every HTTP handler, one request at a time |
| VDO fetchers | one thread per video stream (`threadEntry` in `imgprovider.c`) |
| Paho MQTT | connection callbacks |

| Component | State | Operations | Correct when | Module |
| --- | --- | --- | --- | --- |
| Frame provider (`imgprovider.c`, `Video.c`) | `deliveredFrames`, `processedFrames`, the buffers in VDO, the frame in use, `shutDown` | start, stop, get newest, return, the fetcher's loop | a buffer has one owner; VDO is not starved; captures and stops end | `FrameProvider` |
| Events (`Output.c`, `ACAP.c`) | label cache, vote history, frame interval, status `events`, declarations | `Output`, the expiry timer, `Fire_State`, settings | events are earned, held and cleared; the any-detection event follows | `Events` |
| Model life cycle (`main.c`, `Model.c`) | start timer, idle source, larod resources, error budget, crop stream | set-up, retry, frame steps, restart | the status is honest; set up once; crops come from a held frame; recovery | `ModelLifecycle` |
| SD capture (`Output.c`, `Output_helpers.c`) | busy flag, last save, first-image flag, files | save, count, clear, download | at most 2000 images, an interval apart; images keep their labels; captures go on | `SdCapture` |
| Storage (`Storage.c`) | per card: status bits, set-up, path | subscribe, set-up, release | a card that is there ends up set up | `Storage` |
| Settings and restarts (`ACAP.c`, `main.c`) | the JSON tree, `settings.json`, the model's files, `restartPending` | start-up, POST, upload and removal, View Area, save, restart | settings survive a stop; what was accepted is used; restarts cease | `Settings` |
| Migration (`main.c`) | the area of interest in memory and on disk | load, migrate, draw | the area stays where it was drawn | `Migration` |
| JSON (`cJSON.c`) | items and their lists | create, add, insert, detach, replace, delete, duplicate, print, parse | lists stay linked, items have one owner, text comes back as it was | `JsonItems`, `Json`, `JsonText` |
| Web server, Status (`ACAP.c`) | the HTTP thread, the endpoints, `status_mutex`, what is registered in `app` | register, process, set status, shut down | nothing is used after it is freed, or freed twice; shutdown ends | `Server` |
| MQTT client (`MQTT.c`, `main.c`) | client, settings, connection, retained presence | connect, disconnect, loss and reconnect, change settings, shut down | the presence can be relied on; the client is for what is set | `Mqtt` |
| Certificates (`CERTS.c`) | PEM files, password file, `CERTS_SETTINGS` | load, upload, remove | what is used is what is stored | `Certificates` |
| Post-processing (`Model.c`, `main.c`) | the boxes of a frame | decode, suppress, filter | no object twice, none lost | `Detections` |
| Crops (`Model.c`, `Output.c`, `Output_crop_cache.c`) | throttle, ring of the latest crops | cut, add, list | a crop is in its frame and has its object; the list is the latest | `Crops` |
| Class names (`labelparse.c`) | one buffer, pointers into it | parse, look up, free | a class has the name of its line | `ClassNames` |
| Images, VAPIX, device information, web pages | - | | | - |

How they interact: `ImageProcess()` takes a frame from the inference stream,
starts, feeds or stops the crop stream, runs the model, filters its detections
and calls `Output()`, which updates the label events and everything that hangs
on them: MQTT messages, crops, captures on the SD card.  The HTTP thread changes
the settings that all of these read, at any time, and asks for restarts, which
the main loop carries out.  A restart ends the process; the camera starts a new
one, with the settings and the model that were saved.  Every setting, status
and message is a tree of cJSON items.

`PROJECT.json` lists every component with its status, and the hazards: the
places where this code is hard to test, each with the properties that guard it.

## Modules

| Module | Models | Composition |
| --- | --- | --- |
| `BufferPool` | what a frame provider promises about buffers (abstract) | |
| `FrameProvider` | `imgprovider.c` and the capture functions of `Video.c` | implements `BufferPool` |
| `EventContract` | what consumers of events are promised (abstract) | |
| `Events` | `Output.c`, `ACAP_EVENTS_Fire_State()` | implements `EventContract` |
| `ModelLifecycle` | `main.c`, `Model.c`, the crop stream of `Video.c` | |
| `Storage` | `Storage.c` with AXStorage beneath it | |
| `SdCapture` | SD captures of `Output.c`, `Output_helpers.c`, `sd_clear` and `sd_download` of `main.c` | composes `Storage` |
| `Settings` | start-up, POST, model upload, View Area and restart of `main.c`, files of `ACAP.c` | |
| `JsonValues` | values of cJSON without members | |
| `JsonText` | values and their text | uses `JsonValues` |
| `JsonDocument` | what cJSON promises about documents (abstract) | |
| `JsonItems` | items, lists and the operations of `cJSON.c` on them | uses `JsonValues`, implements `JsonDocument` |
| `Json` | the items with printing to and parsing from text | composes `JsonItems` and `JsonText` |
| `Migration` | the change of unit of areas, `main.c` | uses `JsonText` |
| `Mqtt` | `MQTT.c` with Paho and a broker beneath it | |
| `Crops` | `Model_GetImageData()`, the crop part of `Output()`, `Output_crop_cache.c` | |
| `Detections` | decoding, suppression, filters | |
| `ClassNames` | `labelparse.c` | |
| `Certificates` | `CERTS.c` | |
| `Server` | the web server, status mutex and shutdown of `ACAP.c` | |
| `Parts` | the five parts above that share no state, in one run | extends `Crops`, instances of the others |
| `MCEvents`, `MCSettings`, `MCJson`, `MCMqtt`, `MCParts` | values for TLC | extend the modules they are named for |
| `*_proofs` | theorems about `FrameProvider`, `Events`, `ModelLifecycle`, `SdCapture`, `Settings`, `Mqtt`, `JsonItems` and `Parts` (all five of them) | extend these |

Operators with a comment that begins "A fault of" are deliberately wrong
variants of the operator that follows them.  No specification uses them; each is
put in the place of the right one to see that some property fails.

### FrameProvider

`main` and `fetcher` are the program counters of the two threads.  `frameMutex`
is held from lock to unlock in each function, so every critical section is one
action: `Capture` (`returnFrame` of the previous frame), `Take`
(`getLastFrameBlocking`), `Deliver` (the section in `threadEntry`).  What happens
outside the mutex is an action of its own: the test of `shutDown` (`Loop`), the
wait for VDO (`GetBuffer`, `GetFails`), the two halves of stopping (`Stop` sets
the flag, `Destroy` follows the join).  `vdo`, `newBuffer`, `delivered`,
`processed`, `appBuffer` and `lost` say where each buffer is; buffers VDO refuses
are in `lost`.  Two history variables, `older` and `behind`, remember the order
in which frames were fetched, for the properties about order; they guard nothing.
The wake-up of the condition wait is the guard of `Take`: the wait is a loop
around the length of the queue, so that spurious wake-ups change nothing.

### Events

`Frame` is `Output()` up to its any-detection update, `EmptyFrame` its early
return, `Expire` the timer, `ChangeSettings` a POST of the settings (one moment
for all fields an event reads), `Tick` the clock.  Timestamps are kept as ages,
in ticks, which saturate at `MaxAge`, past every duration and window there is:
the code only ever compares differences, so a saturated age is as good as the
real one.  `frameInterval`, a smoothed floating point value, moves by any amount
between its old value and the last gap.  The order of detections in a frame
matters only when the cache has room for some of them: `CacheLabels` chooses
which.  `fired` is the status `events`, `told` what subscribers were sent last,
`missed` the ids whose last change was not sent.  `sightings` is a history of
when each label was really in a frame, against which the vote is judged.
Settings and clock are as the code has them: the duration that counts is the one
set when the timer looks.

### ModelLifecycle

`main` is the step `ImageProcess()` is in; between callbacks it is `"poll"`, and
timers run only then, while the HTTP thread's actions run at any step.
`Model_Setup()` is how far it gets (`SetupReaches`): each stage leaves the model
configuration and the temp file patterns as the code does.  `yuv` is `dangling`
after a thread that did not start: a capture from it may do anything `Capture`
does.  `settled` is the environment's: the hardware may refuse at any stage until
it is settled, and does not after.

### SdCapture and Storage

`SdCapture` composes two threads and the card.  `main` is where the main thread
is in a capture: between the two writes (`SaveImage`, `SaveLabels`) the HTTP
thread's steps may come, and a clear is two steps, one per directory.  `Begin` is
the decision of `Output()` with all it consumes before it writes.  A download is made,
opened and sent (`ArchiveMade`, `ArchiveOpened`, `ArchiveSent`), and each step has its
failure (`NotMade`, `NotFound`, `NoMemory`), which clears the busy flag by itself.  `Storage`'s
callbacks are steps of the main loop and come only between frames; the card
changes when it pleases.  A file system answers a write by the state of the card:
whole, torn on a full card, or not at all.  `up` stands for the events, which
frames raise and the timer lowers; a step of `Events` may be any of these.
`last_sd_output_time_ms` is an age again, `since`; `tried` is the age it would be
had the code noticed at once that the activity ended.  `broken` keeps the captures
a failed call has spoiled, for the property about pairs.  In `Storage`, notices
and answers are counted and not queued: both carry no data, the card's status is
read when the notice is handled.

### Settings

Two program counters, `main` (start-up: `ReadView`, `UseView` or `FallBack`,
`ModelStart`, and the saves among them) and `http` (one request at a time, step
by step).  A save is two steps, `SaveBegins` with the `fopen()` that empties the
file and `SaveEnds` with the text that was printed at the first: between them the
other thread may save too, or the process may die, and the file is `Torn`.
Uploads and removals go file by file.  `memory`, `saved`, `model`, `labels` are
what is in memory and on disk; `used` is what `Model_Setup()` loaded.  Of the
settings only those are kept that need a restart or are saved by the main thread:
the view, the description, whether a polygon has been made of the rectangle.
`promised` remembers what requests answered with success have left, `overlapped`
that two saves met: both are histories.

### JsonItems, Json, JsonText, JsonDocument, Migration

`JsonItems` is the memory of cJSON with its pointers (`child`, `next`, `prev`, where
`prev` of the first is the last) and the code's pointer operations in their order:
`Appended`, `Detached`, `Inserted`, `Replaced`, `Freed`.  An allocation fails when
`Items` are used up.  `cJSON_Duplicate()` is `Copied`: each item of a tree has a new
one, linked as its original is.  `Reread` is a tree that is written and read again,
by what comes of it: a copy whose numbers are made anew from their doubles and whose
names, outside objects, are gone (`AsRead`).  `JsonDocument` knows only sequences of
members, and `JsonItems` implements it.

`Json` has the text in between: `Reload` prints a tree and parses it with `Placed` and
`PlacedBehind`, the way `parse_array()` and `parse_object()` link items, one behind
the other, with `prev` of the first set at the end.  `RoundTrip` checks that every
`Reload` is a `Reread`, which is why what is proved of `JsonItems`, where `Reread`
stands for it, speaks of files too.  `JsonText` prints and parses: every kind of
value, escapes, the two number fields `valueint` and `valuedouble`, formatted and
unformatted; a text is a sequence of characters.  Strings are counted before they are
copied, as in the code: `Extra` is what `print_string_ptr()` counts for a character, and
the closing quote goes where the count says; `Closing` is the first pass of
`parse_string()`, and a string longer than the memory it counted does not parse.  `Migration` runs the conversion of
version 2 settings on these values through saves and restarts.

### Mqtt

`link` is the library's connection, `session` and `retained` are the broker's.
Losses, reconnects, last wills, callbacks and requests come in any order; the
HTTP thread works in steps (`HandlerDrops`, `HandlerCreates`, `HandlerConnects`,
`HandlerDisconnects`), and the callback of a connection may come between any two.
The broker notices a lost client when it pleases, and publishes its will then.
A client is the URI it was created for: an address, and a scheme that comes from
`tls`.  Topics have names, and a prefix gives two of them: `FullTopic`, on which the
presence is published through a buffer of 256 bytes, and `LastWillTopic`, which is made
in 64 bytes and cut when it is longer.  `mqtt.json` is saved where the code saves it,
with all that is in memory, and where the code does not ask whether a save succeeded
it may have failed (`SaveUnchecked`).

`excused` keeps the topics where the code itself leaves a wrong presence, so that
`PresenceIsHonest` says what holds everywhere else.  The cases are: the topic or the
client changes under a connection, for which no goodbye is said; `onConnect()` speaks
after the goodbye; and it speaks on another topic than the last will of its connection,
because the settings have changed in between or because the last will's topic was cut.
`recast` is the one case in which the client is not for the scheme that is set: `tls`
was posted without an address, port, user or password.  The web page sends the address
each time, so that only other callers get there.

### Certificates, Server, Crops, Detections, ClassNames

`Certificates`: each request is a sequence of steps on a file and an item
(`Post`, `Write`, `Enter`, ...; `Delete`, `Forget`, ...), with failing writes and
the end of the process between any two.  A file is whole, of a length that
`CERTS_Init()` does not take, cut, empty or absent.

`Server`: `main` goes from `ACAP()` to the end of `main()`; `http` is the HTTP
thread, which is there from `StartThread` on, before the first endpoint is
registered.  `memory` says of each object whether it lives, `owned` which of them
hang in `app`.  Cancellation takes effect where the code enables it.

`Crops` has one axis of the picture, in exact arithmetic with the rounding of the
code; the ring is an array with a head and a count.  `Detections` decodes, suppresses
and filters all short lists of boxes; the suppression's loop is a recursive function,
the boxes kept after each box has had its turn, and `Returned` is what
`Model_Inference()` hands to `ImageProcess()`.  `ClassNames` cuts up a buffer in place,
newline by newline, by a recursive function over its places; `Stop` is `strlen()`,
the first NUL in the buffer or behind it.

`Parts` runs these five beside each other, one per behaviour: they share nothing,
and their states add up instead of multiplying.

## Runs

| Run | Result | Question |
| --- | --- | --- |
| `frames` | holds | Buffers, backlog, order, progress of captures and stops, refinement of `BufferPool`. |
| `frames_newest` | **violated** | Is the frame a capture returns never older than the one before? |
| `events` | holds | Any-detection event, holding, earning, clearing and rising, refinement of `EventContract`. |
| `events_spaces` | **violated** | Does a subscriber see the event of a label with a space in its name? |
| `lifecycle` | holds | Honest status, single set-up, crop frame, recovery, clearing. |
| `lifecycle_retry` | **violated** | Does the application recover on its own once the hardware is ready? |
| `sd` | holds | Limit, pairs, spacing; captures and the card come back. |
| `settings` | holds | Are settings saved at a stop, accepted models used, and do restarts cease? |
| `json` | holds | Are lists sound, does a document come back from its text, does a cut file not load, refinement of `JsonDocument`. |
| `migration` | **violated** | Is an area that was saved in pixels the area that detections are filtered with? |
| `mqtt` | holds | Can a presence be relied on, is the client for what is set, and does the process end when the broker does not answer? |
| `parts` | holds | Crops and their ring, suppression, class names, certificates, memory and end of the web server. |

The violated ones state what a comment or the documentation says and show where
the code differs:

- `frames_newest` - a capture takes the tail of `deliveredFrames` and leaves what is
  older in it.  With two frames delivered and no third, the next capture goes back to
  the older one, where `imgprovider.h` says "the most recent frame".  `TakesTheNewest`
  in `frames` is what holds: of the frames that wait, the newest is taken.
- `events_spaces` - events are declared under `traffic_light` and fired under
  `traffic light`, which has no declaration.
- `lifecycle_retry` - `mkstemp()` writes the name it chose into the static
  patterns, so a second set-up in the same process fails at the temp files.  A
  failure before them is recovered from, which `RecoversFromBusyHardware` in
  `lifecycle` shows.
- `migration` - `migrate_box_to_normalized()` and `migrate_polygon_to_normalized()`
  assign `valueint` alone.  Polygons are read, and everything is printed, from
  `valuedouble`: a polygon stays in pixels, and the version on disk stays 2.

Three more disagreements with a comment or the documentation were met that no run is
spent on; each is a short sequence of steps of one module, without any search:

- `Output_init()` is called once, at the end of the first attempt to set the model up.
  If that failed before it had a model configuration, a retry that succeeds finds no
  events declared and no timer for them (`DeferredStart` to `load`, `RetryTimer` to
  `up`: `loop` and not `declared`), where main.c:627 has the application recover.
- The mark that the first SD image is due is set again only by a frame that finds no
  event up.  The timer takes events down between frames, and when the next frame raises
  one, the image waits for the interval of the activity before (`Begin`, `Expire`,
  `Frame`), where README.md:255 and Output.c:388 have it taken immediately.
- `Output()` replaces the box of `Model_GetImageData()` by the borders and what they
  leave of the crop (`Shown`).  Where an edge of the frame took some of a border away,
  that is another place, and its width can be negative, where Model.h:61 speaks of the
  actual object.  `CropFits` asks for the right box only where nothing is clipped.

What the code does and no property forbids, because nothing in the repository
promises otherwise, is said at the hazard: a first MQTT connection that is not tried
again, an event whose send failed and is not repeated, a label without room in the
cache, and others.

### Bounds

- `frames`: 4 buffers and `numAppFrames` 1, the full-resolution stream's own
  values; one refused buffer.  With four buffers one can be in each of VDO, the
  fetcher's hand, the queues and the application at once.
- `events`: two labels (one to lose and one to win a vote), a history of three frames,
  more than the two hits a vote needs; `speed` and one vote (two hits and 60% within a
  tick); two durations, none and one longer than the window.  Ages saturate at three
  ticks, more than every duration and window, so that no comparison is cut off.  No
  send fails in the run, and there is no symmetry, which TLC cannot use for liveness;
  the safety properties are theorems, with any number of failed sends.
- `events_spaces`: the same, with a label that has a space in its name.
- `lifecycle`: two crop buffers (the frame in use and its successor), an error
  budget of 2 of the code's 5, which has a first, a last and a spent error.
- `sd`: a limit of one image and one unreadable directory, which together reach
  the limit and pass it by the one allowed; two file names, enough for the second
  half pair that must not be; an interval of one tick, so that a capture can be
  early or due; one unhandled notice and one unanswered set-up call, so that a
  card can leave and come back while an answer is out.
- `settings`: the main view and one View Area, three uploads (model with labels,
  labels alone, description alone), three requests and one fault: enough to post a
  view during a start, upload over it, and fail or crash within either.
- `json`: four items, of which two are members of a third and the fourth is added,
  replaced or copied; names that differ in case and hold escapes; one number at
  which `valueint` saturates after a scaling.  The items are symmetric.
- `migration`: two areas and two requests; a file of version 2 or 3, with a polygon
  or without.
- `mqtt`: two brokers, with and without `tls`; two prefixes, one whose last will's topic
  fits and one whose is cut; and three of the events that do not come by themselves, as
  a loss, a change of the settings and a failure or an end of the process.  Both safety
  properties are theorems, for any number of events.
- `parts`: objects inside, outside and across both edges of a picture of ten,
  borders, two frames (a ring of two entries, so that it wraps); all lists of three
  boxes of four places, so that chains and ties occur; all files of five
  characters of four kinds with names of two; one certificate of each kind; the
  table of endpoints is the code's 32.
- `frames_newest` and `lifecycle_retry` have the values of `frames` and `lifecycle`.

### Fairness

- `FrameProvider`: the threads run (weak fairness of the loop, the delivery, the
  wake-up and the join), and VDO does not fail every request from some point on
  (strong fairness of `GetBuffer`): a camera whose stream is up goes on producing
  frames.  Nothing makes the application start, capture or stop.
- `Events`: the clock and the 200 ms timer run on.  Frames and settings come as
  they please.
- `ModelLifecycle`: a callback that has begun goes on.  GLib runs timers, which
  have the default priority, before idle sources, so a timer that comes due again
  and again between frames is run: strong fairness.  Requests, the scene and the
  hardware have none.
- `SdCapture`: both threads and the clock run on, and storage callbacks, which
  GLib runs before idle sources, are not starved by captures.  A capture that is
  due again and again happens: an event stays up only while frames with its label
  come, and each of them is a call of `Output()`.
- `Settings`: both threads go on, and the system starts a process that ended.
  Requests, faults and the camera's View Areas have none.
- `Mqtt`: the handler and the end of the process go on.  Of the library and the
  broker nothing is assumed: they may never answer.
- `Server` (in `Parts`): the main thread goes on, a handler returns, a cancelled
  thread ends.  Nobody has to send a request or a signal.

The runs `settings`, `json`, `migration` and `mqtt` have `CHECK_DEADLOCK FALSE`:
their bounds on requests, items and events let a behaviour come to rest.

## Proofs

Each proof module proves `Spec => []IInv` from `Init => IInv` and
`IInv /\ [Next]_vars => IInv'`, a lemma for each action or group of actions, and
derives the properties.  The only assumptions are the named ones about the
constants, which TLC evaluates in the runs.  They say that constants have their
kinds (numbers are numbers, marks such as `None` and `Torn` are no data) and, where
the code fixes a relation between its own values, that relation: `SettingsAssumption`
that the marks for absent and torn files are neither settings nor uploads,
`DetectionsAssumption` that boxes and scores are integers, as the tensors are,
`NamesAssumption` that newline, carriage return and NUL are different characters,
`ItemsAssumption` that the memory is finite and `NULL` is no item of it.

- `FrameProvider_proofs` (`TypeCorrect`, `BuffersHaveOneOwner`,
  `BacklogIsBounded`, `CapturesTakeTheNewest`, `ProviderIsPool`).  `OneOwner` alone
  is not inductive: a step must know that the fetcher holds a buffer exactly while
  it is delivering, that the application holds none while it is taking, and that no
  fetcher runs without a provider.  The invariant adds these (`Hands`).
  `BacklogIsBounded` is a counting argument: a delivery that adds a frame while
  something waits to be recycled takes one out.  `CapturesTakeTheNewest` adds
  `InOrder`: the queue of delivered frames is in the order they were fetched in, and the
  one in the fetcher's hand is newer than all of them.  `ProviderIsPool` is the refinement: an action
  that moves a buffer between owners is the one action of `BufferPool` that does
  (`GetBufferFills`, `TakeLends`, `CaptureGivesBack`, `DeliverRecycles`,
  `DestroyResets`), all others change no owner.  That a buffer is filled only when the
  provider has room follows from the bound on the backlog by cardinalities.
- `Events_proofs` (`TypeCorrect`, `AnyEventIsRight`, `EventsAreHeld`,
  `EventsAreEarnedAlways`, `KeepsTheContract`).  The invariant ties what the code
  keeps to what happened: only cached labels have an event up, and the age in the
  cache of a label is the time since it was really last in a frame.  Without the first
  part a label could be up that no frame touches any more.  From it every step of the
  event logic maps to a step of `EventContract` or to a stutter.
  `EventsAreEarnedAlways` needs to know what the vote's ring buffer stands for:
  `SlotsAreSightings` says that of any `k` slots with a label one is as old as its
  `k`-th last sighting, or older; a frame shifts the slots, and their number shifts
  with the sightings (`ShiftCounts`).
- `ModelLifecycle_proofs` (`TypeCorrect`, `StatusHonest`, `NeverSetUpTwice`,
  `CropFrameHeld`).  The invariant adds that a frame in progress has its source in
  the loop, and that a loop or a pending start has budget left: without it a
  failed frame could take a branch of `Model_Inference()` that releases the model
  under a source that goes on.  The proof shows that branch is never reached.
- `SdCapture_proofs` (`TypeCorrect`, `LimitIsKept`, `PairsStayTogether`,
  `CapturesAreSpaced`).  For the pairs the invariant follows one clear through its
  two steps: while labels are being cleared, the only whole image can be that of
  the capture the clear met, because the busy flag lets no other begin; so the
  labels that go can leave one image alone, and a capture that finds its image gone
  can leave one label file.  For the spacing it relates the code's late clock to
  the ideal one.
- `Settings_proofs` (`SettingsAreSaved`, `AcceptedFilesAreUsed`).  `SavedAtStop`
  speaks of the moment when the process is down, and nothing of it holds on the way
  there.  `SavesAreDue` says what does: while only one thread saves, the text it has
  printed is what is in memory, unless a request that goes on will save again, and
  with neither at it the file has it.  `AcceptedIsUsed` follows from
  `PromiseIsOfFiles`, a promise is suspended while a request changes files and is
  otherwise about the files that are there, and `FilesAreUsed`, a process that has
  loaded other files than those promised has been asked to restart.
- `Mqtt_proofs` (`TypeCorrect`, `PresenceHonest`, `ClientForWhatIsSet`).  That a
  retained `connected: true` has a session whose will or goodbye takes it back is
  not inductive: a client may disconnect in order, and then no will is published.
  The invariant adds `GoodbyeIsDue`: as long as the presence is open while the
  link is up, its topic is the one a goodbye will go to, and none has been said;
  while the link is closing the presence has been taken back.
  Whether the two topics of a prefix are the same is left open: the theorem is about
  any two functions from prefixes to names.  `ClientForWhatIsSet` adds that only the
  handler in the middle of a change has a client for another broker, and a client for
  another scheme only after a `tls` that was posted alone.
- `Parts_proofs` (`PartsCropsFit`, `PartsNewestAreFirst`, `PartsUsedAsStored`,
  `PartsMemorySound`, `PartsSuppressionSound`, `PartsNamesAreLines`).  Each is proved for the part it is about and carried over to
  the composition by `EachPart`: a behaviour of `Parts` is one of each part.
  - Crops: `Cut` and `Within` return intervals inside their frame, by cases on which
    edges clip, as lemmas about all integers; the invariant is then that of each new
    crop.  For the list, `AddedFirst` shows that one more entry in the array moves
    every listed one by one place; `RoundTheRing` replaces the remainder in the
    code's index by a difference, for every size of the ring.
  - Certificates: the invariant says what a request leaves open: each certificate
    agrees with its file, but for the one item the request has got to, whose file is
    as the request left it.
  - Web server: the invariant follows each object from where it is made to where it is
    freed (`Lives`, `OwnedLives`), and says that the HTTP thread is there only
    between `StartThread` and `Join` (`ThreadIsKnown`): so that what a handler reads
    lives as long as any handler runs.
  - Suppression: the run tries every list of three boxes; the theorem is about lists
    of any number of boxes, of any places and scores.  It goes by induction over the
    turns of `non_maximum_suppression()`: `Promised` says of the boxes kept after `n`
    turns that the first `n` of them clash with none that is kept, that whoever is
    gone clashes with one as confident, and that one of the most confident is left.
    It is the second part that makes chains of boxes harmless: the witness may itself
    be gone, and need not be kept.  A turn keeps the promise (`TurnKeepsPromise`),
    after the last it is the property; that the two selections of the code keep the
    order of boxes (`SelectSelects`) and that a box with enough confidence in percent
    passes the raw threshold (`ConfidentIsDecoded`) do the rest.
  - Class names: the run tries all files of five characters, the theorem is about files
    of any length.  The invariant `NamesAreRead` is short, names are what `Cut` made
    of the text; the work is to say what that is.  `WholeTextIsCut` is the induction
    over the newlines the loop has passed: the buffer is the text with a NUL for each
    of them and for the carriage return before it, and pointer `k` goes to the place
    behind the `k - 1`-th newline.  `CutStops` then finds the end of each string,
    `ShortenStops` shows that the cut of a long name moves the end of this name and
    of no other, because another name's end comes before its own beginning, and
    `LineIsOne` that a class has one line, which `GetIsLine` joins.
- `JsonItems_proofs` (`ItemsWellFormed`, `ItemsKeepDocuments`).  The run tries
  everything with four items; the theorems are about any number of them, of any
  names and values.  `WellFormed` is not inductive as it stands, for `List` follows
  `next` no further than there are items and cannot tell an end from a circle.
  The invariant `ItemsInv` is `InOrder` with three parts: `Memory`, what each cell may
  hold; `Chain`, that the links from a container are a sequence without repetition,
  closed at both ends; and `IsForest`, that each item in use has one owner and is
  reached from a root.  The argument has three layers.
  - Links to lists: `ListIs` says that where the links form a chain, that chain is what
    `List` returns.  With it each pointer operation is computed, field by field, to be
    one on sequences: `Appends` and `Inserts` to be `With`, `Detaches` to be
    `Without`, `Exchanges` to be the exchange of one element, all other lists being
    as they were.  The cases are the code's: first, last, only, neighbours.
  - Lists to the forest: what gaining, joining, leaving, losing and copying a tree do
    to a forest, by sets alone (`ForestGains` ... `ForestCopies`).  `IsTree` is the least
    closed set, so that no induction is left in these; `LevelsMakeTree` shows that
    `Subtree`, which counts levels, is that set, since levels that grow cannot be more
    than there are items.
  - The forest to the document: each action keeps `ItemsInv` and is one operation of
    `JsonDocument` (`CreateKeeps` ... `AssignIntKeeps`).  `ReplaceInObject` is a `Replace`
    or, where there is nothing to replace, an `Edit`, because it has set the name
    already; `DeleteFromObject` frees the tree as it is after the item was taken out,
    which is the tree it was before (`SameTree`).

The theorems of the library for induction and recursion take operators as parameters,
which the provers cannot instantiate; `Induct` and `Recursion` are the same for sets and
for functions, from the fact that finite sets are well-founded under inclusion.

Only model-checked:

- Everything about liveness under fairness (captures, stops, clearing, rising,
  recovery, captures going on, `CardIsSetUp`, `Settles`, `StopCompletes`,
  `ShutdownEnds`), which the prover does not reach.
- `RoundTrip` and `WholeOrNothing`: printing and parsing (`JsonText`) and the placing of
  what was parsed (`Json`) are recursive operators, over trees of unknown depth.  The
  proofs reach `JsonItems`, where no text occurs.
- The four violated properties, of which TLC has the counterexamples.

## Not modelled

- Image conversion and JPEG encoding (`imgutils.c`), VAPIX queries, device
  properties, CPU and network averages: calls of other libraries, I/O and text,
  with no state that anything depends on.  That they fail is a choice in the
  modules that call them.
- Web pages, build scripts, the headers of Paho: nothing of the program runs there.
- Parsing of HTTP requests and formatting of answers; MQTT messages other than
  presence; `Output_http.c`, which posts a crop with libcurl.
- In `cJSON.c` what the application never calls (references, comparison,
  minification, comments) and the syntax of numbers and UTF-16 escapes.
- Tensor formats and dequantization: floating point arithmetic.
- Use of memory after another thread has freed it: the settings tree that is
  replaced while it is read, a Status group that is created outside the mutex, an
  MQTT client that is destroyed under a publish.  What follows is undefined; the
  models read at one moment, and the hazards list the places.
- A wall clock that steps: `Events` and `SdCapture` keep ages.

What could be added next: printing and parsing as recursive functions, to which `Induct`
applies, so that `RoundTrip` can be proved; what `Migration` keeps of areas that need no
conversion; and the composition of `Settings` with `ModelLifecycle`, whose restarts are
the same.
