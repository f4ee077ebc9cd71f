-------------------------- MODULE ModelLifecycle_proofs --------------------------
(***************************************************************************)
(* Proofs about ModelLifecycle, for every error budget and every number of *)
(* full-resolution buffers.                                                *)
(***************************************************************************)
EXTENDS ModelLifecycle, TLAPS

\* A frame is processed only by a source of the main loop, and only with budget
\* left to spend; no budget is spent before the model is up.
FramesHaveALoop ==
  /\ main # "poll" => loop
  /\ loop \/ start # "none" => inferenceErrors > 0

IInv == TypeOK /\ StatusIsHonest /\ SetUpOnce /\ CropFrameIsHeld /\ FramesHaveALoop

\* A process starts in the invariant.
LEMMA InitInv == Init => IInv
<1>. SUFFICES ASSUME Init PROVE IInv
  OBVIOUS
<1>0. ErrorBudget \in 0..ErrorBudget
  BY LifecycleAssumption
<1>1. TypeOK
  BY <1>0, Zenon DEF Init, TypeOK
<1>2. StatusIsHonest /\ SetUpOnce /\ CropFrameIsHeld
  BY DEF Init, StatusIsHonest, SetUpOnce, CropFrameIsHeld
<1>3. FramesHaveALoop
  BY LifecycleAssumption DEF Init, FramesHaveALoop
<1>. QED
  BY <1>1, <1>2, <1>3 DEF IInv

\* What Model_Setup() and model_start() do, however far they get, when no model
\* is up.
LEMMA StartInv ==
  ASSUME IInv, main = "poll", start # "none", NEW stage \in Stages, ModelStart(stage),
         start' = IF stage = "up" THEN "none" ELSE "retry", declared' \in BOOLEAN
  PROVE  IInv'
<1>1. ~loop /\ ~larod /\ ~state
  BY DEF IInv, TypeOK, SetUpOnce, StatusIsHonest
<1>2. TypeOK'
  <2>1. UNCHANGED <<main, raised, inferenceErrors, wantsCrop, restartPending, settled, scene,
                    hiresRunning, hiresFailed, hiresBuffer, cropFrame>>
    BY DEF ModelStart, crops, requests, world
  <2>2. larod' \in BOOLEAN /\ fresh' \in BOOLEAN /\ config' \in BOOLEAN /\ state' \in BOOLEAN
    BY Zenon DEF ModelStart, SetupReaches
  <2>3. loop' \in BOOLEAN /\ yuv' \in {"none", "up", "dangling"}
    BY Zenon DEF IInv, TypeOK, ModelStart
  <2>4. start' \in {"deferred", "retry", "none"}
    OBVIOUS
  <2>. QED
    BY <2>1, <2>2, <2>3, <2>4, Zenon DEF IInv, TypeOK
<1>3. StatusIsHonest'
  BY <1>1 DEF StatusIsHonest, ModelStart, SetupReaches, Stages
<1>4. SetUpOnce'
  BY <1>1 DEF SetUpOnce, ModelStart, SetupReaches, Stages
<1>5. CropFrameIsHeld'
  BY DEF IInv, CropFrameIsHeld, ModelStart, crops
<1>6. FramesHaveALoop'
  BY DEF IInv, FramesHaveALoop, ModelStart
<1>. QED
  BY <1>2, <1>3, <1>4, <1>5, <1>6 DEF IInv

\* A step that sets up no model, loses none and starts no frame keeps the
\* invariant, if it is careful with the crop frame.
LEMMA AsideInv ==
  ASSUME IInv,
         UNCHANGED <<start, loop, state, model, yuv, declared>>,
         main' \in {"poll", "hires", "infer", "output"}, main' # "poll" => loop,
         raised' \in BOOLEAN, wantsCrop' \in BOOLEAN, restartPending' \in BOOLEAN,
         settled' \in BOOLEAN, scene' \in BOOLEAN,
         hiresRunning' \in BOOLEAN, hiresFailed' \in BOOLEAN,
         hiresBuffer' \in HiresBuffers \cup {NoBuffer},
         cropFrame' \in HiresBuffers \cup {NoBuffer},
         CropFrameIsHeld'
  PROVE  IInv'
<1>1. UNCHANGED <<larod, fresh, config, inferenceErrors>>
  BY DEF model
<1>2. TypeOK'
  BY <1>1, Zenon DEF IInv, TypeOK
<1>3. StatusIsHonest'
  BY <1>1 DEF IInv, StatusIsHonest
<1>4. SetUpOnce'
  BY <1>1 DEF IInv, SetUpOnce, StatusIsHonest
<1>5. FramesHaveALoop'
  BY <1>1 DEF IInv, FramesHaveALoop
<1>. QED
  BY <1>2, <1>3, <1>4, <1>5 DEF IInv

\* Most of those steps leave the crop frame and its stream alone.
LEMMA CropsAlone ==
  ASSUME IInv, UNCHANGED crops
  PROVE  /\ hiresRunning' \in BOOLEAN /\ hiresFailed' \in BOOLEAN
         /\ hiresBuffer' \in HiresBuffers \cup {NoBuffer}
         /\ cropFrame' \in HiresBuffers \cup {NoBuffer}
         /\ CropFrameIsHeld'
<1>1. UNCHANGED <<hiresRunning, hiresFailed, hiresBuffer, cropFrame>>
  BY DEF crops
<1>. QED
  BY <1>1, Zenon DEF IInv, TypeOK, CropFrameIsHeld

LEMMA TypeKept ==
  ASSUME IInv
  PROVE  /\ main \in {"poll", "hires", "infer", "output"} /\ (main # "poll" => loop)
         /\ raised \in BOOLEAN
         /\ UNCHANGED raised => raised' \in BOOLEAN
         /\ UNCHANGED wantsCrop => wantsCrop' \in BOOLEAN
         /\ UNCHANGED restartPending => restartPending' \in BOOLEAN
         /\ UNCHANGED requests => wantsCrop' \in BOOLEAN /\ restartPending' \in BOOLEAN
         /\ UNCHANGED settled => settled' \in BOOLEAN
         /\ UNCHANGED scene => scene' \in BOOLEAN
         /\ UNCHANGED world => settled' \in BOOLEAN /\ scene' \in BOOLEAN
<1>1. /\ UNCHANGED requests => UNCHANGED <<wantsCrop, restartPending>>
      /\ UNCHANGED world => UNCHANGED <<settled, scene>>
  BY DEF requests, world
<1>. QED
  BY <1>1, Zenon DEF IInv, TypeOK, FramesHaveALoop
-----------------------------------------------------------------------------
(* The steps of a frame.                                                   *)

LEMMA CaptureInv == IInv /\ Capture => IInv'
<1>. SUFFICES ASSUME IInv, Capture PROVE IInv'
  OBVIOUS
<1>1. loop /\ UNCHANGED <<start, yuv, declared, raised, model, crops, requests, world>>
  BY DEF Capture
<1>2. CASE main' = "hires" /\ UNCHANGED <<loop, state>>
  BY <1>1, <1>2, AsideInv, CropsAlone, TypeKept
<1>3. CASE loop' = FALSE /\ state' = FALSE /\ UNCHANGED main
  <2>1. UNCHANGED <<larod, fresh, config, inferenceErrors>>
    BY <1>1 DEF model
  <2>2. main = "poll" /\ start = "none" /\ inferenceErrors > 0
    BY <1>1 DEF Capture, IInv, SetUpOnce, FramesHaveALoop
  <2>3. TypeOK'
    BY <1>1, <1>3, <2>1, CropsAlone, TypeKept, Zenon DEF IInv, TypeOK
  <2>4. StatusIsHonest' /\ SetUpOnce' /\ FramesHaveALoop'
    BY <1>1, <1>3, <2>1, <2>2 DEF StatusIsHonest, SetUpOnce, FramesHaveALoop
  <2>. QED
    BY <1>1, <2>3, <2>4, CropsAlone DEF IInv
<1>. QED
  BY <1>2, <1>3 DEF Capture

\* The full-resolution stream: whichever way the setting is at that moment, the
\* model gets the frame of a running stream or none.
LEMMA HiresInv == IInv /\ Hires => IInv'
<1>. SUFFICES ASSUME IInv, Hires PROVE IInv'
  OBVIOUS
<1>1. /\ main' = "infer" /\ loop
      /\ UNCHANGED <<start, loop, yuv, declared, state, raised, model, requests, world>>
  BY DEF Hires, IInv, FramesHaveALoop
<1>2. CASE wantsCrop
  <2>1. hiresRunning' \in BOOLEAN /\ hiresFailed' \in BOOLEAN
    BY <1>2, Zenon DEF Hires, IInv, TypeOK
  <2>2. CASE hiresRunning'
    <3>1. hiresBuffer' \in HiresBuffers \cup {NoBuffer} /\ cropFrame' \in {NoBuffer, hiresBuffer'}
      BY <1>2, <2>2, Zenon DEF Hires, SetCropFrame
    <3>2. cropFrame' \in HiresBuffers \cup {NoBuffer} /\ CropFrameIsHeld'
      BY <2>2, <3>1 DEF CropFrameIsHeld
    <3>. QED
      BY <1>1, <2>1, <3>1, <3>2, AsideInv, TypeKept
  <2>3. CASE ~hiresRunning'
    <3>1. hiresBuffer' = hiresBuffer /\ cropFrame' = NoBuffer
      BY <1>2, <2>3 DEF Hires, SetCropFrame
    <3>2. hiresBuffer' \in HiresBuffers \cup {NoBuffer}
          /\ cropFrame' \in HiresBuffers \cup {NoBuffer} /\ CropFrameIsHeld'
      BY <3>1 DEF IInv, TypeOK, CropFrameIsHeld
    <3>. QED
      BY <1>1, <2>1, <3>2, AsideInv, TypeKept
  <2>. QED
    BY <2>2, <2>3
<1>3. CASE ~wantsCrop
  <2>1. hiresFailed' = FALSE
    BY <1>3 DEF Hires
  <2>2. CASE hiresRunning
    <3>1. hiresRunning' = FALSE /\ hiresBuffer' = NoBuffer /\ cropFrame' = NoBuffer
      BY <1>3, <2>2 DEF Hires, StopHires
    <3>. QED
      BY <1>1, <2>1, <3>1, AsideInv, TypeKept DEF CropFrameIsHeld
  <2>3. CASE ~hiresRunning
    <3>1. UNCHANGED <<hiresRunning, hiresBuffer, cropFrame>>
      BY <1>3, <2>3 DEF Hires
    <3>2. /\ hiresRunning' \in BOOLEAN /\ hiresBuffer' \in HiresBuffers \cup {NoBuffer}
          /\ cropFrame' \in HiresBuffers \cup {NoBuffer} /\ CropFrameIsHeld'
      BY <3>1, Zenon DEF IInv, TypeOK, CropFrameIsHeld
    <3>. QED
      BY <1>1, <2>1, <3>2, AsideInv, TypeKept
  <2>. QED
    BY <2>2, <2>3
<1>. QED
  BY <1>2, <1>3

LEMMA InferInv == IInv /\ Infer => IInv'
<1>. SUFFICES ASSUME IInv, Infer PROVE IInv'
  OBVIOUS
<1>1. /\ main' = "output" /\ loop
      /\ UNCHANGED <<start, loop, yuv, declared, state, raised, model, crops, requests, world>>
  BY DEF Infer, IInv, FramesHaveALoop
<1>. QED
  BY <1>1, AsideInv, CropsAlone, TypeKept

\* A failed frame is a frame of a model that is up and has budget left, so of the
\* branches of Model_Inference() only the one that spends budget is taken.
LEMMA InferFailsInv == IInv /\ InferFails => IInv'
<1>. SUFFICES ASSUME IInv, InferFails PROVE IInv'
  OBVIOUS
<1>1. main = "infer" /\ loop /\ larod /\ config /\ start = "none" /\ inferenceErrors > 0
  BY DEF IInv, InferFails, FramesHaveALoop, StatusIsHonest, SetUpOnce
<1>2. state
  BY <1>1, Zenon DEF IInv, StatusIsHonest
<1>3. inferenceErrors \in 1..ErrorBudget
  BY <1>1, LifecycleAssumption DEF IInv, TypeOK
<1>4. inferenceErrors' = inferenceErrors - 1 /\ state' = (inferenceErrors' > 0)
  BY <1>2, <1>3 DEF InferFails
<1>5. UNCHANGED larod
  BY <1>2, <1>3 DEF InferFails
<1>6. /\ loop' = (inferenceErrors' > 0) /\ main' = "poll"
      /\ UNCHANGED <<start, yuv, declared, raised, fresh, config, crops, requests, world>>
  BY DEF InferFails
<1>7. inferenceErrors' \in 0..ErrorBudget
  BY <1>3, <1>4, LifecycleAssumption
<1>8. loop' \in BOOLEAN /\ state' \in BOOLEAN
  <2>1. (inferenceErrors' > 0) \in BOOLEAN
    BY <1>7, LifecycleAssumption, SMT
  <2>. QED
    BY <1>4, <1>6, <2>1, Zenon
<1>9. TypeOK'
  BY <1>5, <1>6, <1>7, <1>8, CropsAlone, TypeKept, Zenon DEF IInv, TypeOK
<1>10. StatusIsHonest'
  BY <1>1, <1>4, <1>5, <1>6, Zenon DEF StatusIsHonest
<1>11. SetUpOnce' /\ FramesHaveALoop'
  BY <1>1, <1>6 DEF SetUpOnce, FramesHaveALoop
<1>. QED
  BY <1>6, <1>9, <1>10, <1>11, CropsAlone DEF IInv

\* A new process starts in the invariant, like the first one.
LEMMA RestartInv == IInv /\ Restart => IInv'
<1>. SUFFICES ASSUME IInv, Restart PROVE IInv'
  OBVIOUS
<1>1. ErrorBudget \in 0..ErrorBudget /\ ErrorBudget > 0
  BY LifecycleAssumption
<1>. QED
  BY <1>1, Zenon DEF IInv, TypeOK, StatusIsHonest, SetUpOnce, CropFrameIsHeld, FramesHaveALoop,
     Restart, world

LEMMA NextInv == IInv /\ [Next]_vars => IInv'
<1>. SUFFICES ASSUME IInv, [Next]_vars PROVE IInv'
  OBVIOUS
<1>1. CASE DeferredStart
  <2>1. PICK stage \in Stages :
          ModelStart(stage) /\ start' = IF stage = "up" THEN "none" ELSE "retry"
    BY <1>1 DEF DeferredStart
  <2>2. declared' \in BOOLEAN
    BY <1>1, <2>1, Zenon DEF DeferredStart, ModelStart, SetupReaches
  <2>. QED
    BY <1>1, <2>1, <2>2, StartInv DEF DeferredStart
<1>2. CASE RetryTimer
  <2>1. PICK stage \in Stages :
          ModelStart(stage) /\ start' = IF stage = "up" THEN "none" ELSE "retry"
    BY <1>2 DEF RetryTimer
  <2>. QED
    BY <1>2, <2>1, StartInv, Zenon DEF RetryTimer, IInv, TypeOK
<1>3. CASE Capture
  BY <1>3, CaptureInv
<1>4. CASE Hires
  BY <1>4, HiresInv
<1>5. CASE Infer
  BY <1>5, InferInv
<1>6. CASE InferFails
  BY <1>6, InferFailsInv
<1>7. CASE Output
  <2>1. /\ main' = "poll" /\ raised' \in BOOLEAN
        /\ UNCHANGED <<start, loop, yuv, declared, state, model, crops, requests, world>>
    BY <1>7, Zenon DEF Output, IInv, TypeOK
  <2>. QED
    BY <2>1, AsideInv, CropsAlone, TypeKept
<1>8. CASE Expire
  <2>1. /\ main' = "poll" /\ raised' = FALSE
        /\ UNCHANGED <<start, loop, yuv, declared, state, model, crops, requests, world>>
    BY <1>8 DEF Expire
  <2>. QED
    BY <2>1, AsideInv, CropsAlone, TypeKept
<1>9. CASE ToggleCrop
  <2>1. /\ wantsCrop' \in BOOLEAN
        /\ UNCHANGED <<main, start, loop, yuv, declared, state, raised, model, crops,
                       restartPending, world>>
    BY <1>9, Zenon DEF ToggleCrop
  <2>. QED
    BY <2>1, AsideInv, CropsAlone, TypeKept
<1>10. CASE RequestRestart
  <2>1. /\ restartPending' \in BOOLEAN
        /\ UNCHANGED <<main, start, loop, yuv, declared, state, raised, model, crops,
                       wantsCrop, world>>
    BY <1>10, Zenon DEF RequestRestart
  <2>. QED
    BY <2>1, AsideInv, CropsAlone, TypeKept
<1>11. CASE Restart
  BY <1>11, RestartInv
<1>12. CASE Settle
  <2>1. /\ settled' = TRUE
        /\ UNCHANGED <<main, start, loop, yuv, declared, state, raised, model, crops, requests, scene>>
    BY <1>12 DEF Settle
  <2>. QED
    BY <2>1, AsideInv, CropsAlone, TypeKept
<1>13. CASE SceneChanges
  <2>1. /\ scene' \in BOOLEAN
        /\ UNCHANGED <<main, start, loop, yuv, declared, state, raised, model, crops, requests, settled>>
    BY <1>13, Zenon DEF SceneChanges
  <2>. QED
    BY <2>1, AsideInv, CropsAlone, TypeKept
<1>14. CASE UNCHANGED vars
  BY <1>14, AsideInv, CropsAlone, TypeKept DEF vars
<1>. QED
  BY <1>1, <1>2, <1>3, <1>4, <1>5, <1>6, <1>7, <1>8, <1>9, <1>10, <1>11, <1>12, <1>13, <1>14
     DEF Next
-----------------------------------------------------------------------------
\* The inductive invariant holds in every state of every process.
THEOREM Invariance == Spec => []IInv
BY InitInv, NextInv, PTL DEF Spec

\* Every variable keeps its type; the error budget in particular never goes
\* below zero, however often the inference hardware fails (Model.c, InferFails).
THEOREM TypeCorrect == Spec => []TypeOK
<1>1. IInv => TypeOK
  BY DEF IInv
<1>. QED
  BY <1>1, Invariance, PTL

\* What the web page says of the model is what the main loop does with it
\* (model.state against the idle source and the larod resources).
THEOREM StatusHonest == Spec => []StatusIsHonest
<1>1. IInv => StatusIsHonest
  BY DEF IInv
<1>. QED
  BY <1>1, Invariance, PTL

\* No start timer is left once a model is up (deferred_model_start,
\* model_retry_timer).
THEOREM NeverSetUpTwice == Spec => []SetUpOnce
<1>1. IInv => SetUpOnce
  BY DEF IInv
<1>. QED
  BY <1>1, Invariance, PTL

\* Crops are cut from no frame that was given back (ImageProcess, Video.c,
\* Model_SetCropFrame).
THEOREM CropFrameHeld == Spec => []CropFrameIsHeld
<1>1. IInv => CropFrameIsHeld
  BY DEF IInv
<1>. QED
  BY <1>1, Invariance, PTL
=============================================================================
