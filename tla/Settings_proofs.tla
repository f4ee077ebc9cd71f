---------------------------- MODULE Settings_proofs ----------------------------
(***************************************************************************)
(* Settings that are saved and models that are accepted, for any number of  *)
(* requests, View Areas, uploads, restarts and crashes.                     *)
(***************************************************************************)
EXTENDS Settings, TLAPS

Threads == {"main", "http"}

\* Where the HTTP thread is in the middle of a save, and in an upload.
Writes == {"save", "saveNote"}
OfUpload == {"upload", "model", "modelWritten", "labels"}
OfRemoval == {"remove", "removeLabels"}

MainSteps == {"down", "loop", "view", "model", "run"} \cup Saves
HttpSteps == {"idle", "check", "final"} \cup Writes \cup OfUpload \cup OfRemoval

Typed ==
  /\ main \in MainSteps /\ http \in HttpSteps
  /\ memory \in AllSettings
  /\ saved \in AllSettings \cup {None, Torn}
  /\ copy \in [Threads -> AllSettings]
  /\ faults \in Nat
  /\ overlapped \in BOOLEAN
  /\ main = "down" => http = "idle"

\* The request in progress is the one the HTTP thread works on.
RequestIsKnown ==
  /\ request \in Uploads \cup {Removal, None}
  /\ http = "idle" => request = None
  /\ http \in OfUpload => request \in Uploads
  /\ http \in OfRemoval => request = Removal
  /\ http = "model" => request.model # None
  /\ http = "labels" => request.labels # None

\* As long as nothing failed and no two saves met: a save in progress writes what is in
\* memory, unless a request is under way that will save again, and what is in memory is
\* saved when neither thread is at it.
SavesAreDue ==
  faults = 0 /\ ~overlapped =>
    /\ ~(main \in Saves /\ http \in Writes)
    /\ http \in Writes => copy["http"] = memory
    /\ main \in Saves /\ http = "idle" => copy["main"] = memory
    /\ main \notin Saves /\ http = "idle" => Loaded(saved) = memory

\* A promise is about the files as they are, and is suspended while a request changes them.
PromiseIsOfFiles ==
  /\ Changes(request) => promised = Torn
  /\ promised # Torn => promised = [model |-> model, labels |-> labels]

\* Who has loaded other files than those there are has been asked to restart.
FilesAreUsed ==
  main \in {"saveRegions", "run"} /\ ~pending /\ promised # Torn => used = promised

IInv == Typed /\ RequestIsKnown /\ SavesAreDue /\ PromiseIsOfFiles /\ FilesAreUsed
-----------------------------------------------------------------------------
(* What a save does.                                                       *)

\* Settings that were saved whole are loaded as they are.
LEMMA WholeIsLoaded == \A s \in AllSettings : Loaded(s) = s
BY SettingsAssumption DEF Loaded

\* The file is empty, and the thread has its text.
LEMMA SaveBeginsEffect ==
  ASSUME Typed, NEW t \in Threads, SaveBegins(t), memory' \in AllSettings
  PROVE  /\ saved' = Torn
         /\ copy' \in [Threads -> AllSettings] /\ copy'[t] = memory'
         /\ \A u \in Threads \ {t} : copy'[u] = copy[u]
         /\ overlapped' \in BOOLEAN
         /\ overlapped => overlapped'
         /\ t = "main" /\ http \in Writes => overlapped'
         /\ t = "http" /\ main \in Saves => overlapped'
BY DEF SaveBegins, Typed, Writes

\* The text is in the file, or something failed.
LEMMA SaveEndsEffect ==
  ASSUME Typed, NEW t \in Threads, SaveEnds(t)
  PROVE  /\ saved' \in AllSettings \cup {None, Torn}
         /\ faults' \in Nat
         /\ faults' = 0 => faults = 0 /\ saved' = copy[t] /\ Loaded(saved') = copy[t]
BY WholeIsLoaded DEF SaveEnds, Fault, Typed
-----------------------------------------------------------------------------
(* The inductive invariant, action by action.                              *)

\* The main thread starts up.
LEMMA StartUpKeeps ==
  ASSUME IInv, Start \/ ReadView \/ UseView \/ Stop
  PROVE  IInv'
<1>. USE DEF IInv, process, handler, files, history, startup,
             MainSteps, HttpSteps, Saves, Writes, OfUpload, OfRemoval, Threads
<1>1. CASE Start
  <2>1. Typed'
    BY <1>1, SettingsAssumption DEF Typed, Start, Loaded, Defaults, AllSettings, Descriptions
  <2>2. RequestIsKnown'
    BY <1>1 DEF RequestIsKnown, Start
  <2>3. SavesAreDue'
    BY <1>1 DEF Typed, SavesAreDue, Start
  <2>4. PromiseIsOfFiles'
    BY <1>1 DEF PromiseIsOfFiles, Start
  <2>5. FilesAreUsed'
    BY <1>1 DEF FilesAreUsed, Start
  <2>. QED  BY <2>1, <2>2, <2>3, <2>4, <2>5
<1>2. CASE ReadView
  <2>1. Typed'
    BY <1>2 DEF Typed, ReadView
  <2>2. RequestIsKnown'
    BY <1>2 DEF RequestIsKnown, ReadView
  <2>3. SavesAreDue'
    BY <1>2 DEF SavesAreDue, ReadView
  <2>4. PromiseIsOfFiles'
    BY <1>2 DEF PromiseIsOfFiles, ReadView
  <2>5. FilesAreUsed'
    BY <1>2 DEF FilesAreUsed, ReadView
  <2>. QED  BY <2>1, <2>2, <2>3, <2>4, <2>5
<1>3. CASE UseView
  <2>1. Typed'
    BY <1>3 DEF Typed, UseView
  <2>2. RequestIsKnown'
    BY <1>3 DEF RequestIsKnown, UseView
  <2>3. SavesAreDue'
    BY <1>3 DEF SavesAreDue, UseView
  <2>4. PromiseIsOfFiles'
    BY <1>3 DEF PromiseIsOfFiles, UseView
  <2>5. FilesAreUsed'
    BY <1>3 DEF FilesAreUsed, UseView
  <2>. QED  BY <2>1, <2>2, <2>3, <2>4, <2>5
<1>4. CASE Stop
  <2>1. Typed'
    BY <1>4 DEF Typed, Stop
  <2>2. RequestIsKnown'
    BY <1>4 DEF RequestIsKnown, Stop, HandlerDone
  <2>3. SavesAreDue'
    BY <1>4 DEF SavesAreDue, Stop, HandlerDone
  <2>4. PromiseIsOfFiles'
    BY <1>4 DEF PromiseIsOfFiles, Stop
  <2>5. FilesAreUsed'
    BY <1>4 DEF FilesAreUsed, Stop
  <2>. QED  BY <2>1, <2>2, <2>3, <2>4, <2>5
<1>. QED  BY <1>1, <1>2, <1>3, <1>4

\* The main thread saves what it corrects.
LEMMA MainSavesKeeps ==
  ASSUME IInv, FallBack \/ ViewSaved \/ ModelStart \/ RegionsSaved
  PROVE  IInv'
<1>. USE DEF IInv, process, handler, files, history, startup,
             MainSteps, HttpSteps, Saves, Writes, OfUpload, OfRemoval, Threads
<1>1. CASE FallBack
  <2>1. Typed'
    BY <1>1, SaveBeginsEffect, SettingsAssumption DEF Typed, FallBack, AllSettings
  <2>2. RequestIsKnown'
    BY <1>1 DEF RequestIsKnown, FallBack
  <2>3. SavesAreDue'
    BY <1>1, SaveBeginsEffect, SettingsAssumption DEF Typed, SavesAreDue, FallBack, AllSettings
  <2>4. PromiseIsOfFiles'
    BY <1>1 DEF PromiseIsOfFiles, FallBack
  <2>5. FilesAreUsed'
    BY <1>1 DEF FilesAreUsed, FallBack
  <2>. QED  BY <2>1, <2>2, <2>3, <2>4, <2>5
<1>2. CASE ViewSaved
  <2>1. Typed'
    BY <1>2, SaveEndsEffect DEF Typed, ViewSaved
  <2>2. RequestIsKnown'
    BY <1>2 DEF RequestIsKnown, ViewSaved
  <2>3. SavesAreDue'
    BY <1>2, SaveEndsEffect DEF SavesAreDue, ViewSaved
  <2>4. PromiseIsOfFiles'
    BY <1>2 DEF PromiseIsOfFiles, ViewSaved
  <2>5. FilesAreUsed'
    BY <1>2 DEF FilesAreUsed, ViewSaved
  <2>. QED  BY <2>1, <2>2, <2>3, <2>4, <2>5
<1>3. CASE ModelStart
  <2>1. Typed'
    BY <1>3, SaveBeginsEffect DEF Typed, ModelStart, AllSettings
  <2>2. RequestIsKnown'
    BY <1>3 DEF RequestIsKnown, ModelStart
  <2>3. SavesAreDue'
    BY <1>3, SaveBeginsEffect DEF Typed, SavesAreDue, ModelStart, AllSettings
  <2>4. PromiseIsOfFiles'
    BY <1>3 DEF PromiseIsOfFiles, ModelStart
  <2>5. FilesAreUsed'
    BY <1>3 DEF PromiseIsOfFiles, FilesAreUsed, ModelStart
  <2>. QED  BY <2>1, <2>2, <2>3, <2>4, <2>5
<1>4. CASE RegionsSaved
  <2>1. Typed'
    BY <1>4, SaveEndsEffect DEF Typed, RegionsSaved
  <2>2. RequestIsKnown'
    BY <1>4 DEF RequestIsKnown, RegionsSaved
  <2>3. SavesAreDue'
    BY <1>4, SaveEndsEffect DEF SavesAreDue, RegionsSaved
  <2>4. PromiseIsOfFiles'
    BY <1>4 DEF PromiseIsOfFiles, RegionsSaved
  <2>5. FilesAreUsed'
    BY <1>4 DEF FilesAreUsed, RegionsSaved
  <2>. QED  BY <2>1, <2>2, <2>3, <2>4, <2>5
<1>. QED  BY <1>1, <1>2, <1>3, <1>4

\* A posted View Area is looked at and, if it needs a restart, saved on its own.
LEMMA ViewIsPostedKeeps ==
  ASSUME IInv, CheckView \/ NoteSaved
  PROVE  IInv'
<1>. USE DEF IInv, process, handler, files, history, startup,
             MainSteps, HttpSteps, Saves, Writes, OfUpload, OfRemoval, Threads
<1>1. CASE CheckView
  <2>1. Typed'
    BY <1>1, SaveBeginsEffect DEF Typed, CheckView
  <2>2. RequestIsKnown'
    BY <1>1 DEF RequestIsKnown, CheckView
  <2>3. SavesAreDue'
    BY <1>1, SaveBeginsEffect DEF Typed, SavesAreDue, CheckView
  <2>4. PromiseIsOfFiles'
    BY <1>1 DEF PromiseIsOfFiles, CheckView
  <2>5. FilesAreUsed'
    BY <1>1 DEF FilesAreUsed, CheckView
  <2>. QED  BY <2>1, <2>2, <2>3, <2>4, <2>5
<1>2. CASE NoteSaved
  <2>1. Typed'
    BY <1>2, SaveEndsEffect DEF Typed, NoteSaved
  <2>2. RequestIsKnown'
    BY <1>2 DEF RequestIsKnown, NoteSaved
  <2>3. SavesAreDue'
    BY <1>2 DEF SavesAreDue, NoteSaved
  <2>4. PromiseIsOfFiles'
    BY <1>2 DEF PromiseIsOfFiles, NoteSaved
  <2>5. FilesAreUsed'
    BY <1>2 DEF FilesAreUsed, NoteSaved
  <2>. QED  BY <2>1, <2>2, <2>3, <2>4, <2>5
<1>. QED  BY <1>1, <1>2

\* A View Area is posted, a request begins.
LEMMA RequestKeeps ==
  ASSUME IInv, \/ \E v \in Views : PostView(v)
               \/ \E u \in Uploads : Upload(u)
               \/ Remove
  PROVE  IInv'
<1>. USE DEF IInv, process, handler, files, history, startup, Request,
             MainSteps, HttpSteps, Saves, Writes, OfUpload, OfRemoval, Threads
<1>1. ASSUME NEW v \in Views, PostView(v) PROVE IInv'
  <2>1. Typed'
    BY <1>1 DEF Typed, PostView, AllSettings
  <2>2. RequestIsKnown'
    BY <1>1 DEF RequestIsKnown, PostView
  <2>3. SavesAreDue'
    BY <1>1 DEF SavesAreDue, PostView
  <2>4. PromiseIsOfFiles'
    BY <1>1 DEF PromiseIsOfFiles, PostView
  <2>5. FilesAreUsed'
    BY <1>1 DEF FilesAreUsed, PostView
  <2>. QED  BY <2>1, <2>2, <2>3, <2>4, <2>5
<1>2. ASSUME NEW u \in Uploads, Upload(u) PROVE IInv'
  <2>1. Typed'
    BY <1>2 DEF Typed, Upload, AllSettings, Descriptions
  <2>2. RequestIsKnown'
    BY <1>2 DEF RequestIsKnown, Upload
  <2>3. SavesAreDue'
    BY <1>2 DEF SavesAreDue, Upload
  <2>4. PromiseIsOfFiles'
    BY <1>2 DEF PromiseIsOfFiles, Upload
  <2>5. FilesAreUsed'
    BY <1>2 DEF FilesAreUsed, Upload
  <2>. QED  BY <2>1, <2>2, <2>3, <2>4, <2>5
<1>3. CASE Remove
  <2>1. Typed'
    BY <1>3 DEF Typed, Remove
  <2>2. RequestIsKnown'
    BY <1>3 DEF RequestIsKnown, Remove
  <2>3. SavesAreDue'
    BY <1>3 DEF SavesAreDue, Remove
  <2>4. PromiseIsOfFiles'
    BY <1>3 DEF PromiseIsOfFiles, Remove
  <2>5. FilesAreUsed'
    BY <1>3 DEF FilesAreUsed, Remove
  <2>. QED  BY <2>1, <2>2, <2>3, <2>4, <2>5
<1>. QED  BY <1>1, <1>2, <1>3

\* An upload goes on.
LEMMA UploadKeeps ==
  ASSUME IInv, OpenModel \/ OpenLabels \/ ModelWritten \/ LabelsWritten \/ NoLabels
  PROVE  IInv'
<1>. USE DEF IInv, process, handler, files, history, startup,
             MainSteps, HttpSteps, Saves, Writes, OfUpload, OfRemoval, Threads
<1>1. CASE OpenModel
  <2>1. Typed'
    BY <1>1 DEF Typed, OpenModel
  <2>2. RequestIsKnown'
    BY <1>1 DEF RequestIsKnown, OpenModel
  <2>3. SavesAreDue'
    BY <1>1 DEF SavesAreDue, OpenModel
  <2>4. PromiseIsOfFiles'
    BY <1>1, SettingsAssumption DEF RequestIsKnown, PromiseIsOfFiles, OpenModel, Changes
  <2>5. FilesAreUsed'
    BY <1>1 DEF FilesAreUsed, OpenModel
  <2>. QED  BY <2>1, <2>2, <2>3, <2>4, <2>5
<1>2. CASE OpenLabels
  <2>1. Typed'
    BY <1>2 DEF Typed, OpenLabels
  <2>2. RequestIsKnown'
    BY <1>2 DEF RequestIsKnown, OpenLabels
  <2>3. SavesAreDue'
    BY <1>2 DEF SavesAreDue, OpenLabels
  <2>4. PromiseIsOfFiles'
    BY <1>2, SettingsAssumption DEF RequestIsKnown, PromiseIsOfFiles, OpenLabels, Changes
  <2>5. FilesAreUsed'
    BY <1>2 DEF FilesAreUsed, OpenLabels
  <2>. QED  BY <2>1, <2>2, <2>3, <2>4, <2>5
<1>3. CASE ModelWritten
  <2>1. Typed'
    BY <1>3 DEF Typed, ModelWritten, Fault
  <2>2. RequestIsKnown'
    BY <1>3 DEF RequestIsKnown, ModelWritten
  <2>3. SavesAreDue'
    BY <1>3 DEF Typed, SavesAreDue, ModelWritten, Fault
  <2>4. PromiseIsOfFiles'
    BY <1>3, SettingsAssumption DEF RequestIsKnown, PromiseIsOfFiles, ModelWritten, Changes
  <2>5. FilesAreUsed'
    BY <1>3 DEF FilesAreUsed, ModelWritten
  <2>. QED  BY <2>1, <2>2, <2>3, <2>4, <2>5
<1>4. CASE LabelsWritten
  <2>1. Typed'
    BY <1>4 DEF Typed, LabelsWritten, Fault
  <2>2. RequestIsKnown'
    BY <1>4 DEF RequestIsKnown, LabelsWritten
  <2>3. SavesAreDue'
    BY <1>4 DEF Typed, SavesAreDue, LabelsWritten, Fault
  <2>4. PromiseIsOfFiles'
    BY <1>4, SettingsAssumption DEF RequestIsKnown, PromiseIsOfFiles, LabelsWritten, Changes
  <2>5. FilesAreUsed'
    BY <1>4 DEF FilesAreUsed, LabelsWritten
  <2>. QED  BY <2>1, <2>2, <2>3, <2>4, <2>5
<1>5. CASE NoLabels
  <2>1. Typed'
    BY <1>5 DEF Typed, NoLabels
  <2>2. RequestIsKnown'
    BY <1>5 DEF RequestIsKnown, NoLabels
  <2>3. SavesAreDue'
    BY <1>5 DEF SavesAreDue, NoLabels
  <2>4. PromiseIsOfFiles'
    BY <1>5 DEF PromiseIsOfFiles, NoLabels
  <2>5. FilesAreUsed'
    BY <1>5 DEF FilesAreUsed, NoLabels
  <2>. QED  BY <2>1, <2>2, <2>3, <2>4, <2>5
<1>. QED  BY <1>1, <1>2, <1>3, <1>4, <1>5

\* A removal goes on.
LEMMA RemovalKeeps ==
  ASSUME IInv, RemoveModel \/ RemoveLabels
  PROVE  IInv'
<1>. USE DEF IInv, process, handler, files, history, startup,
             MainSteps, HttpSteps, Saves, Writes, OfUpload, OfRemoval, Threads
<1>1. CASE RemoveModel
  <2>1. Typed'
    BY <1>1 DEF Typed, RemoveModel, Fault
  <2>2. RequestIsKnown'
    BY <1>1 DEF RequestIsKnown, RemoveModel
  <2>3. SavesAreDue'
    BY <1>1 DEF Typed, SavesAreDue, RemoveModel, Fault
  <2>4. PromiseIsOfFiles'
    BY <1>1 DEF RequestIsKnown, PromiseIsOfFiles, RemoveModel, Changes
  <2>5. FilesAreUsed'
    BY <1>1 DEF FilesAreUsed, RemoveModel
  <2>. QED  BY <2>1, <2>2, <2>3, <2>4, <2>5
<1>2. CASE RemoveLabels
  <2>1. Typed'
    BY <1>2 DEF Typed, RemoveLabels, Fault, AllSettings, Descriptions
  <2>2. RequestIsKnown'
    BY <1>2 DEF RequestIsKnown, RemoveLabels
  <2>3. SavesAreDue'
    BY <1>2 DEF Typed, SavesAreDue, RemoveLabels, Fault
  <2>4. PromiseIsOfFiles'
    BY <1>2 DEF RequestIsKnown, PromiseIsOfFiles, RemoveLabels, Changes
  <2>5. FilesAreUsed'
    BY <1>2 DEF FilesAreUsed, RemoveLabels
  <2>. QED  BY <2>1, <2>2, <2>3, <2>4, <2>5
<1>. QED  BY <1>1, <1>2

\* The settings are saved and the request is answered.
LEMMA AnswerKeeps ==
  ASSUME IInv, SaveSettings \/ Answer
  PROVE  IInv'
<1>. USE DEF IInv, process, handler, files, history, startup,
             MainSteps, HttpSteps, Saves, Writes, OfUpload, OfRemoval, Threads
<1>1. CASE SaveSettings
  <2>1. Typed'
    BY <1>1, SaveBeginsEffect DEF Typed, SaveSettings
  <2>2. RequestIsKnown'
    BY <1>1 DEF RequestIsKnown, SaveSettings
  <2>3. SavesAreDue'
    BY <1>1, SaveBeginsEffect DEF Typed, SavesAreDue, SaveSettings
  <2>4. PromiseIsOfFiles'
    BY <1>1 DEF PromiseIsOfFiles, SaveSettings
  <2>5. FilesAreUsed'
    BY <1>1 DEF FilesAreUsed, SaveSettings
  <2>. QED  BY <2>1, <2>2, <2>3, <2>4, <2>5
<1>2. CASE Answer
  <2>1. Typed'
    BY <1>2, SaveEndsEffect DEF Typed, Answer
  <2>2. RequestIsKnown'
    BY <1>2 DEF RequestIsKnown, Answer
  <2>3. SavesAreDue'
    BY <1>2, SaveEndsEffect DEF SavesAreDue, Answer
  <2>4. PromiseIsOfFiles'
    BY <1>2, SettingsAssumption DEF PromiseIsOfFiles, Answer, Changes
  <2>5. FilesAreUsed'
    BY <1>2 DEF FilesAreUsed, Answer, AsksRestart
  <2>. QED  BY <2>1, <2>2, <2>3, <2>4, <2>5
<1>. QED  BY <1>1, <1>2

\* The process dies, the camera changes, nothing happens.
LEMMA OutsideKeeps ==
  ASSUME IInv, Crash \/ ViewRemoved \/ UNCHANGED vars
  PROVE  IInv'
<1>. USE DEF IInv, process, handler, files, history, startup,
             MainSteps, HttpSteps, Saves, Writes, OfUpload, OfRemoval, Threads
<1>1. CASE Crash
  <2>1. Typed'
    BY <1>1 DEF Typed, Crash, Fault
  <2>2. RequestIsKnown'
    BY <1>1 DEF RequestIsKnown, Crash
  <2>3. SavesAreDue'
    BY <1>1 DEF Typed, SavesAreDue, Crash, Fault
  <2>4. PromiseIsOfFiles'
    BY <1>1 DEF PromiseIsOfFiles, Crash
  <2>5. FilesAreUsed'
    BY <1>1 DEF FilesAreUsed, Crash
  <2>. QED  BY <2>1, <2>2, <2>3, <2>4, <2>5
<1>2. CASE ViewRemoved
  <2>1. Typed'
    BY <1>2 DEF Typed, ViewRemoved
  <2>2. RequestIsKnown'
    BY <1>2 DEF RequestIsKnown, ViewRemoved
  <2>3. SavesAreDue'
    BY <1>2 DEF SavesAreDue, ViewRemoved
  <2>4. PromiseIsOfFiles'
    BY <1>2 DEF PromiseIsOfFiles, ViewRemoved
  <2>5. FilesAreUsed'
    BY <1>2 DEF FilesAreUsed, ViewRemoved
  <2>. QED  BY <2>1, <2>2, <2>3, <2>4, <2>5
<1>3. CASE UNCHANGED vars
  <2>1. Typed'
    BY <1>3 DEF Typed, vars
  <2>2. RequestIsKnown'
    BY <1>3 DEF RequestIsKnown, vars
  <2>3. SavesAreDue'
    BY <1>3 DEF SavesAreDue, vars
  <2>4. PromiseIsOfFiles'
    BY <1>3 DEF PromiseIsOfFiles, vars
  <2>5. FilesAreUsed'
    BY <1>3 DEF FilesAreUsed, vars
  <2>. QED  BY <2>1, <2>2, <2>3, <2>4, <2>5
<1>. QED  BY <1>1, <1>2, <1>3

-----------------------------------------------------------------------------
(* The theorems.                                                           *)

\* The application as it is installed.
LEMMA InitInv == Init => IInv
<1>. SUFFICES ASSUME Init PROVE IInv
  OBVIOUS
<1>1. Defaults \in AllSettings
  BY SettingsAssumption DEF Defaults, AllSettings, Descriptions
<1>2. Typed
  BY <1>1 DEF Init, Typed, MainSteps, HttpSteps, Threads
<1>3. RequestIsKnown
  BY DEF Init, RequestIsKnown, OfUpload, OfRemoval
<1>4. SavesAreDue
  BY DEF Init, SavesAreDue, Writes, Loaded
<1>5. PromiseIsOfFiles
  BY SettingsAssumption DEF Init, PromiseIsOfFiles, Changes
<1>6. FilesAreUsed
  BY DEF Init, FilesAreUsed
<1>. QED  BY <1>2, <1>3, <1>4, <1>5, <1>6 DEF IInv

\* IInv holds through all interleavings of start-up, requests, restarts and faults.
THEOREM Invariance == Spec => []IInv
<1>1. IInv /\ [Next]_vars => IInv'
  BY StartUpKeeps, MainSavesKeeps, ViewIsPostedKeeps, RequestKeeps, UploadKeeps, RemovalKeeps,
     AnswerKeeps, OutsideKeeps DEF Next, MainStep, HandlerStep
<1>. QED  BY InitInv, <1>1, PTL DEF Spec

\* What is in memory when the process ends in order is what the next start loads, however
\* the two threads took turns, unless a save failed or two met (ACAP_FILE_Write, ACAP.c:1549).
THEOREM SettingsAreSaved == Spec => []SavedAtStop
<1>1. IInv => SavedAtStop
  BY DEF IInv, Typed, SavesAreDue, SavedAtStop, Saves
<1>. QED  BY <1>1, Invariance, PTL

\* The files that the last successful upload or removal left are those the process runs
\* with, once no restart is due (HTTP_ENDPOINT_model, main.c:369).
THEOREM AcceptedFilesAreUsed == Spec => []AcceptedIsUsed
<1>1. IInv => AcceptedIsUsed
  BY DEF IInv, FilesAreUsed, AcceptedIsUsed
<1>. QED  BY <1>1, Invariance, PTL
=============================================================================
