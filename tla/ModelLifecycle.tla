------------------------------ MODULE ModelLifecycle ------------------------------
(***************************************************************************)
(* How the model comes up, runs and goes down (main.c, Model.c).  A timer  *)
(* sets the model up once the main loop runs; another one tries again      *)
(* every 15 s.  A model that is up is fed by the idle source               *)
(* ImageProcess(), which also runs the full-resolution crop stream.  The   *)
(* HTTP thread changes settings and asks for restarts at any time, also in *)
(* the middle of a frame; callbacks of the main loop do not overlap.       *)
(***************************************************************************)
EXTENDS Naturals, FiniteSets

CONSTANTS
  HiresBuffers,  \* buffers of the full-resolution stream
  NoBuffer,      \* the NULL buffer pointer
  ErrorBudget    \* the initial value of inferenceErrors

ASSUME LifecycleAssumption ==
  /\ NoBuffer \notin HiresBuffers
  /\ ErrorBudget \in Nat \ {0}

VARIABLES
  main,            \* "poll" between callbacks, else the next step of ImageProcess():
                   \* "hires", "infer", "output"
  start,           \* the pending start timer: "deferred", "retry" or "none"
  loop,            \* ImageProcess() is a source of the main loop
  yuv,             \* yuvProvider: "none", "up", or "dangling" after it was freed
  larod,           \* the model is loaded: connection, tensors, mappings and jobs
  fresh,           \* the temp file patterns still end in XXXXXX
  config,          \* the app configuration has a "model"
  declared,        \* Output_init() declared the events and started the expiry timer
  state,           \* status model.state
  inferenceErrors, \* error budget left
  wantsCrop,       \* settings: crop export at full resolution is on
  hiresRunning, hiresFailed,
  hiresBuffer,     \* the frame Video.c took from the full-resolution stream
  cropFrame,       \* the frame Model.c cuts crops from (hiresData)
  raised,          \* some label event is up
  restartPending,  \* a restart timer is pending
  settled,         \* environment: the inference hardware and the file system are fine
  scene            \* environment: there is something to detect

model == <<larod, fresh, config, inferenceErrors>>
crops == <<hiresRunning, hiresFailed, hiresBuffer, cropFrame>>
requests == <<wantsCrop, restartPending>>
world == <<settled, scene>>
vars == <<main, start, loop, yuv, declared, state, raised, model, crops, requests, world>>

\* The process has entered its main loop.
Init ==
  /\ main = "poll" /\ start = "deferred" /\ loop = FALSE /\ yuv = "none"
  /\ larod = FALSE /\ fresh = TRUE /\ config = FALSE /\ declared = FALSE
  /\ state = FALSE /\ inferenceErrors = ErrorBudget
  /\ hiresRunning = FALSE /\ hiresFailed = FALSE
  /\ hiresBuffer = NoBuffer /\ cropFrame = NoBuffer
  /\ raised = FALSE /\ restartPending = FALSE
  /\ wantsCrop \in BOOLEAN
  /\ settled = FALSE /\ scene \in BOOLEAN
-----------------------------------------------------------------------------
(* Model_Setup() and the timers that call it, on the main thread.          *)

\* How far Model_Setup() gets.  It fails while connecting, loading or looking
\* into the model; or after it has published the model configuration, in the
\* preprocessing; or at a temp file, which mkstemp() refuses when an earlier
\* attempt has used its pattern up; or in the jobs, after the files were made.
\* Every failure past the connection runs Model_Cleanup(), which releases what
\* was acquired and leaves the patterns and the configuration as they are.
SetupReaches(stage) ==
  /\ \/ stage \in {"load", "preprocess"} /\ ~settled
     \/ stage = "files" /\ (~settled \/ ~fresh)
     \/ stage = "jobs" /\ ~settled /\ fresh
     \/ stage = "up" /\ fresh
  /\ config' = (config \/ stage # "load")
  /\ fresh' = (fresh /\ stage \in {"load", "preprocess"})
  /\ larod' = (stage = "up")
  /\ state' = (stage = "up")

Stages == {"load", "preprocess", "files", "jobs", "up"}

\* model_start(): with the model up, start the video and feed it.  A provider
\* whose thread does not start is freed and still pointed to.
ModelStart(stage) ==
  /\ SetupReaches(stage)
  /\ IF stage = "up"
     THEN loop' = TRUE /\ yuv' \in {"up", "none", "dangling"}
     ELSE UNCHANGED <<loop, yuv>>
  /\ UNCHANGED <<main, raised, inferenceErrors, crops, requests, world>>

\* deferred_model_start(), with Output_init() at its end: it declares events and
\* starts the expiry timer when there is a model configuration.
DeferredStart ==
  /\ main = "poll" /\ start = "deferred"
  /\ \E stage \in Stages :
       /\ ModelStart(stage)
       /\ start' = IF stage = "up" THEN "none" ELSE "retry"
  /\ declared' = config'

\* Faults of RetryTimer: it keeps running after a success; it tries only once.
RetryKeepsRunning ==
  /\ main = "poll" /\ start = "retry"
  /\ \E stage \in Stages : ModelStart(stage)
  /\ UNCHANGED <<start, declared>>
RetryOnce ==
  /\ main = "poll" /\ start = "retry"
  /\ \E stage \in Stages : ModelStart(stage)
  /\ start' = "none"
  /\ UNCHANGED declared

\* model_retry_timer()
RetryTimer ==
  /\ main = "poll" /\ start = "retry"
  /\ \E stage \in Stages :
       /\ ModelStart(stage)
       /\ start' = IF stage = "up" THEN "none" ELSE "retry"
  /\ UNCHANGED declared
-----------------------------------------------------------------------------
(* ImageProcess(), step by step: the HTTP thread comes in between.         *)

\* Video_Capture_YUV().  Without a frame the source removes itself for good.
Capture ==
  /\ main = "poll" /\ loop
  /\ \/ yuv # "none" /\ main' = "hires" /\ UNCHANGED <<loop, state>>
     \/ loop' = FALSE /\ state' = FALSE /\ UNCHANGED main
  /\ UNCHANGED <<start, yuv, declared, raised, model, crops, requests, world>>

\* Model_SetCropFrame(): a frame that is too small for its geometry is not used.
SetCropFrame(buffer) == cropFrame' \in {NoBuffer, buffer}

\* A fault of StopHires: the model keeps the frame.
StopHiresKeepsFrame ==
  /\ hiresRunning' = FALSE
  /\ hiresBuffer' = NoBuffer
  /\ UNCHANGED cropFrame

\* Take the frame away from the model, then stop the stream.
StopHires ==
  /\ cropFrame' = NoBuffer
  /\ hiresRunning' = FALSE
  /\ hiresBuffer' = NoBuffer

\* The full-resolution stream follows the setting; its newest frame replaces
\* the one before it, in Video.c and in Model.c.
Hires ==
  /\ main = "hires"
  /\ IF wantsCrop
     THEN /\ IF hiresRunning \/ hiresFailed
             THEN UNCHANGED <<hiresRunning, hiresFailed>>
             ELSE hiresRunning' \in BOOLEAN /\ hiresFailed' = ~hiresRunning'
          /\ hiresBuffer' \in IF hiresRunning' THEN HiresBuffers \cup {NoBuffer} ELSE {hiresBuffer}
          /\ SetCropFrame(IF hiresRunning' THEN hiresBuffer' ELSE NoBuffer)
     ELSE /\ IF hiresRunning THEN StopHires
                             ELSE UNCHANGED <<hiresRunning, hiresBuffer, cropFrame>>
          /\ hiresFailed' = FALSE
  /\ main' = "infer"
  /\ UNCHANGED <<start, loop, yuv, declared, state, raised, model, requests, world>>

\* Model_Inference() returned detections.
Infer ==
  /\ main = "infer" /\ state /\ inferenceErrors > 0
  /\ main' = "output"
  /\ UNCHANGED <<start, loop, yuv, declared, state, raised, model, crops, requests, world>>

\* A fault of InferFails: the source removes itself and the status stays.
InferFailsSilently ==
  /\ main = "infer"
  /\ inferenceErrors' = inferenceErrors - 1
  /\ loop' = (inferenceErrors' > 0)
  /\ main' = "poll"
  /\ UNCHANGED <<start, yuv, declared, state, raised, larod, fresh, config, crops, requests, world>>

\* Model_Inference() returned nothing.  With an error in a job the budget
\* shrinks, and with none left the source removes itself, in the same callback,
\* so the branch of Model_Inference() that releases the model is not reached.
InferFails ==
  /\ main = "infer"
  /\ IF ~state
     THEN UNCHANGED <<inferenceErrors, larod, state>>
     ELSE IF inferenceErrors = 0
          THEN larod' = FALSE /\ state' = FALSE /\ UNCHANGED inferenceErrors
          ELSE /\ inferenceErrors' = inferenceErrors - 1
               /\ state' = (inferenceErrors' > 0)
               /\ UNCHANGED larod
  /\ loop' = (inferenceErrors' > 0)
  /\ main' = "poll"
  /\ UNCHANGED <<start, yuv, declared, raised, fresh, config, crops, requests, world>>

\* The filters and Output(): what there is to detect may raise an event.  (The
\* settings come with an "aoi" and a POST cannot remove one, so the branch for a
\* missing one is left out.)
Output ==
  /\ main = "output"
  /\ raised' \in {raised, raised \/ scene}
  /\ main' = "poll"
  /\ UNCHANGED <<start, loop, yuv, declared, state, model, crops, requests, world>>
-----------------------------------------------------------------------------
(* The other timers, the HTTP thread and the world.                        *)

\* A fault of Expire: events are taken down by frames, not by a timer.
ExpireByFrames ==
  /\ main = "output" /\ declared
  /\ raised /\ ~scene
  /\ raised' = FALSE
  /\ UNCHANGED <<main, start, loop, yuv, declared, state, model, crops, requests, world>>

\* Output_DeactivateExpired(): it runs once Output_init() has started it, and
\* takes events down that no frame has held up (see Events).
Expire ==
  /\ main = "poll" /\ declared
  /\ raised
  /\ ~(scene /\ loop)
  /\ raised' = FALSE
  /\ UNCHANGED <<main, start, loop, yuv, declared, state, model, crops, requests, world>>

\* HTTP: a POST of the cropping settings.
ToggleCrop ==
  /\ wantsCrop' = ~wantsCrop
  /\ UNCHANGED <<main, start, loop, yuv, declared, state, raised, model, crops, restartPending, world>>

\* HTTP: a model was uploaded or removed, or the View Area changed.
RequestRestart ==
  /\ ~restartPending
  /\ restartPending' = TRUE
  /\ UNCHANGED <<main, start, loop, yuv, declared, state, raised, model, crops, wantsCrop, world>>

\* restart_acap_cb(): the main loop ends, everything is released and a new
\* process comes up with the settings saved.
Restart ==
  /\ main = "poll" /\ restartPending
  /\ main' = "poll" /\ start' = "deferred" /\ loop' = FALSE /\ yuv' = "none"
  /\ larod' = FALSE /\ fresh' = TRUE /\ config' = FALSE /\ declared' = FALSE
  /\ state' = FALSE /\ inferenceErrors' = ErrorBudget
  /\ hiresRunning' = FALSE /\ hiresFailed' = FALSE
  /\ hiresBuffer' = NoBuffer /\ cropFrame' = NoBuffer
  /\ raised' = FALSE /\ restartPending' = FALSE
  /\ UNCHANGED <<wantsCrop, world>>

\* The hardware gets ready and stays so.
Settle ==
  /\ ~settled /\ settled' = TRUE
  /\ UNCHANGED <<main, start, loop, yuv, declared, state, raised, model, crops, requests, scene>>

SceneChanges ==
  /\ scene' = ~scene
  /\ UNCHANGED <<main, start, loop, yuv, declared, state, raised, model, crops, requests, settled>>
-----------------------------------------------------------------------------
Next ==
  \/ DeferredStart \/ RetryTimer
  \/ Capture \/ Hires \/ Infer \/ InferFails \/ Output
  \/ Expire
  \/ ToggleCrop \/ RequestRestart \/ Restart
  \/ Settle \/ SceneChanges

Spec == Init /\ [][Next]_vars

\* A callback that has begun goes on.  Timers have a higher priority than the
\* idle source ImageProcess(), so one that keeps coming due between two frames
\* is not passed over.  Requests and the world come as they please.
Fairness ==
  /\ WF_vars(Capture) /\ WF_vars(Hires) /\ WF_vars(Infer \/ InferFails) /\ WF_vars(Output)
  /\ SF_vars(DeferredStart) /\ SF_vars(RetryTimer)
  /\ SF_vars(Expire) /\ SF_vars(Restart)

FairSpec == Spec /\ Fairness
-----------------------------------------------------------------------------
TypeOK ==
  /\ main \in {"poll", "hires", "infer", "output"}
  /\ start \in {"deferred", "retry", "none"}
  /\ yuv \in {"none", "up", "dangling"}
  /\ loop \in BOOLEAN /\ larod \in BOOLEAN /\ fresh \in BOOLEAN
  /\ config \in BOOLEAN /\ declared \in BOOLEAN /\ state \in BOOLEAN
  /\ wantsCrop \in BOOLEAN /\ hiresRunning \in BOOLEAN /\ hiresFailed \in BOOLEAN
  /\ raised \in BOOLEAN /\ restartPending \in BOOLEAN
  /\ settled \in BOOLEAN /\ scene \in BOOLEAN
  /\ inferenceErrors \in 0..ErrorBudget
  /\ hiresBuffer \in HiresBuffers \cup {NoBuffer}
  /\ cropFrame \in HiresBuffers \cup {NoBuffer}

\* The web page is not told that a model runs unless one is loaded and frames
\* are fed to it; and a source that feeds frames feeds a loaded model, so that
\* no frame is copied into a released mapping.
StatusIsHonest == (state <=> loop) /\ (loop => larod /\ config)

\* A model that is up is not set up again: the timers are gone, and no frame is
\* processed before.
SetUpOnce == (loop \/ larod \/ main # "poll") => start = "none"

\* While a frame is processed, crops are cut from the full-resolution frame
\* that Video.c holds at that moment, from no frame it has given back and from
\* no stream it has stopped, in whatever step the setting is changed.
CropFrameIsHeld ==
  cropFrame # NoBuffer => hiresRunning /\ cropFrame = hiresBuffer

\* Once the hardware is ready, some timer is left that brings the model up,
\* unless an attempt before that had come as far as the temp files.
RecoversFromBusyHardware == (settled /\ fresh) ~> loop

\* An event does not stay up when there is nothing to detect, once there is a
\* timer for it, whether or not frames are still processed.
EventsClearWhenDeclared == <>[](declared /\ ~scene) => <>[](~raised)

\* "Keep retrying in the background so the app recovers on its own": once
\* nothing is in the way any more, the model comes up.
RecoversOnItsOwn == (settled /\ start # "none") ~> loop
=============================================================================
