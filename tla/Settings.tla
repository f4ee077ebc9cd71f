-------------------------------- MODULE Settings --------------------------------
(***************************************************************************)
(* The settings and the uploaded model: kept in memory, saved to files that *)
(* are rewritten in place (ACAP.c), and taken into use by a restart         *)
(* (main.c).  The main thread starts up and saves what it corrects, the     *)
(* HTTP thread saves what is posted, and nothing orders the two.  A process *)
(* ends in order, when a restart was asked for, or in a crash, and the      *)
(* system starts it again.                                                  *)
(***************************************************************************)
EXTENDS Naturals

CONSTANTS
  Views,        \* camera numbers of View Areas; 1 is the main view
  Uploads,      \* POSTs of "model": [description, model, labels], None for what is not sent
  None,         \* no file, no description, no model request
  Removal,      \* a DELETE of "model", as a request
  Torn,         \* a file that was opened for writing and not written to its end
  MaxRequests,  \* bound: POSTs and DELETEs
  MaxFaults     \* bound: crashes and failing writes and removals

Descriptions == {None} \cup {u.description : u \in Uploads}

\* What settings.json holds when it is whole.
AllSettings == [view : Views, description : Descriptions, polygon : BOOLEAN]

ASSUME SettingsAssumption ==
  /\ 1 \in Views /\ Views \subseteq Nat
  /\ None # Torn /\ Removal \notin Uploads \cup {None} /\ None \notin Uploads
  /\ None \notin AllSettings /\ Torn \notin AllSettings
  /\ \A u \in Uploads : Torn \notin {u.description, u.model, u.labels}
  /\ MaxRequests \in Nat /\ MaxFaults \in Nat

VARIABLES
  main,       \* the main thread: what it does next
  http,       \* the HTTP thread: idle, or what it does next
  request,    \* the model request in progress
  memory,     \* settings: viewArea, modelDescription, whether aoi_polygon has points
  saved,      \* localdata/settings.json
  copy,       \* the text of a save in progress, per thread
  model,      \* localdata/model.tflite
  labels,     \* localdata/labels.txt
  used,       \* model and labels the process runs with
  offered,    \* the View Areas that exist on the camera and are enabled
  wanted,     \* setup_view_area(): the view it read from the settings
  active,     \* activeViewArea
  ready,      \* viewAreaReady
  pending,    \* restartPending
  requests,   \* requests so far
  faults,     \* faults so far
  overlapped, \* history: a save began while the other thread was saving
  promised    \* history: model and labels as the requests answered with success made
              \* them, Torn after a request that was not

process == <<main, wanted, active, ready, used>>
files == <<saved, model, labels>>
handler == <<http, request>>
history == <<overlapped, promised>>
vars == <<process, handler, memory, copy, files, offered, pending, requests, faults, history>>

\* Where the main thread is in the middle of a save.
Saves == {"saveView", "saveRegions"}

\* The settings shipped in settings/settings.json.
Defaults == [view |-> 1, description |-> None, polygon |-> FALSE]

\* ACAP(): saved settings that can be read replace the defaults.
Loaded(file) == IF file \in {None, Torn} THEN Defaults ELSE file

Init ==
  /\ main = "down" /\ http = "idle" /\ request = None
  /\ memory = Defaults
  /\ saved = None /\ model = None /\ labels = None
  /\ copy = [t \in {"main", "http"} |-> Defaults]
  /\ used = [model |-> None, labels |-> None]
  /\ offered = Views /\ wanted = 1 /\ active = 1
  /\ ready = FALSE /\ pending = FALSE
  /\ requests = 0 /\ faults = 0
  /\ overlapped = FALSE
  /\ promised = [model |-> None, labels |-> None]
-----------------------------------------------------------------------------
(* Files.                                                                  *)

\* ACAP_FILE_Write() of the settings opens the file, which empties it, and prints
\* them.  The text is written by SaveEnds().
SaveBegins(t) ==
  /\ saved' = Torn
  /\ copy' = [copy EXCEPT ![t] = memory']
  /\ overlapped' = (overlapped \/ IF t = "main" THEN http \in {"save", "saveNote"}
                                                ELSE main \in Saves)

\* A write that is not complete, a removal that fails.
Fault == faults < MaxFaults /\ faults' = faults + 1

\* The text is written, or what fits on a full disk is; nothing looks at that.
SaveEnds(t) ==
  \/ saved' = copy[t] /\ UNCHANGED faults
  \/ saved' = Torn /\ Fault
-----------------------------------------------------------------------------
(* Start and end of the process.                                           *)

\* A fault of NeedsRestart: what is reported at start counts as a change.
NeedsRestartAtStart(view, current, isReady, asked) == ~asked /\ view # current

\* ConfigUpdate(): a View Area that is not the one in use needs a restart.
NeedsRestart(view, current, isReady, asked) == ~asked /\ isReady /\ view # current

\* ACAP() reads the settings and starts the HTTP thread; every setting is reported
\* to ConfigUpdate(), to which nothing is a change yet.
Start ==
  /\ main = "down"
  /\ main' = "loop"
  /\ memory' = Loaded(saved)
  /\ active' = 1 /\ ready' = FALSE
  /\ pending' = NeedsRestart(memory'.view, 1, FALSE, FALSE)
  /\ wanted' = 1
  /\ used' = [model |-> None, labels |-> None]
  /\ UNCHANGED <<handler, copy, files, offered, requests, faults, history>>

\* setup_view_area() reads the setting and asks the camera.
ReadView ==
  /\ main = "loop"
  /\ main' = "view"
  /\ wanted' = memory.view
  /\ UNCHANGED <<active, ready, used, handler, memory, copy, files, offered, pending,
                 requests, faults, history>>

\* The camera has the view, or could not be asked.
UseView ==
  /\ main = "view"
  /\ main' = "model"
  /\ active' = wanted /\ ready' = TRUE
  /\ UNCHANGED <<wanted, used, handler, memory, copy, files, offered, pending, requests,
                 faults, history>>

\* The View Area is gone or disabled: back to the main view, which is saved.
FallBack ==
  /\ main = "view"
  /\ wanted \notin offered
  /\ main' = "saveView"
  /\ memory' = [memory EXCEPT !.view = 1]
  /\ SaveBegins("main")
  /\ UNCHANGED <<wanted, active, ready, used, handler, model, labels, offered, pending,
                 requests, faults, promised>>

ViewSaved ==
  /\ main = "saveView"
  /\ SaveEnds("main")
  /\ main' = "model"
  /\ active' = 1 /\ ready' = TRUE
  /\ UNCHANGED <<wanted, used, handler, memory, copy, model, labels, offered, pending,
                 requests, history>>

ModelUsable == model # Torn

\* Model_Setup() succeeds with the files there are; with a torn model it fails and
\* is tried again.  migrate_legacy_regions_to_polygons() makes the rectangle a
\* polygon, which is saved.
ModelStart ==
  /\ main = "model" /\ ModelUsable
  /\ used' = [model |-> model, labels |-> labels]
  /\ IF memory.polygon
     THEN main' = "run" /\ UNCHANGED <<memory, copy, saved, overlapped>>
     ELSE /\ main' = "saveRegions"
          /\ memory' = [memory EXCEPT !.polygon = TRUE]
          /\ SaveBegins("main")
  /\ UNCHANGED <<wanted, active, ready, handler, model, labels, offered, pending,
                 requests, faults, promised>>

RegionsSaved ==
  /\ main = "saveRegions"
  /\ SaveEnds("main")
  /\ main' = "run"
  /\ UNCHANGED <<wanted, active, ready, used, handler, memory, copy, model, labels,
                 offered, pending, requests, history>>

\* A fault of HandlerDone: a handler is cancelled where it is.
CancelledAnywhere == TRUE

\* ACAP_HTTP_Cleanup() waits for a handler that is running: it can only be cancelled
\* while it waits for a request.
HandlerDone == http = "idle"

\* restart_acap_cb(), 800 ms after the request, and the end of main(): between two
\* callbacks of the main loop.
Stop ==
  /\ pending
  /\ main \in {"loop", "model", "run"} /\ HandlerDone
  /\ main' = "down" /\ http' = "idle"
  /\ UNCHANGED <<request, wanted, active, ready, used, memory, copy, files, offered,
                 pending, requests, faults, history>>

\* The process dies where it is, a request with it.
Crash ==
  /\ main # "down" /\ Fault
  /\ main' = "down" /\ http' = "idle"
  /\ promised' = IF request = None THEN promised ELSE Torn
  /\ request' = None
  /\ UNCHANGED <<wanted, active, ready, used, memory, copy, files, offered, pending,
                 requests, overlapped>>
-----------------------------------------------------------------------------
(* The HTTP thread.                                                        *)

startup == <<main, wanted, active, ready, used>>

Request == main # "down" /\ http = "idle" /\ requests < MaxRequests /\ requests' = requests + 1

\* POST of "settings" with viewArea: the item is replaced first.
PostView(v) ==
  /\ Request
  /\ memory' = [memory EXCEPT !.view = v]
  /\ http' = "check"
  /\ UNCHANGED <<startup, request, copy, files, offered, pending, faults, history>>

\* ConfigUpdate() of viewArea.  It saves the settings before it asks for a restart.
CheckView ==
  /\ http = "check"
  /\ IF NeedsRestart(memory.view, active, ready, pending)
     THEN http' = "saveNote" /\ memory' = memory /\ SaveBegins("http")
     ELSE http' = "final" /\ UNCHANGED <<memory, saved, copy, overlapped>>
  /\ UNCHANGED <<startup, request, model, labels, offered, pending, requests, faults,
                 promised>>

NoteSaved ==
  /\ http = "saveNote"
  /\ SaveEnds("http")
  /\ pending' = TRUE
  /\ http' = "final"
  /\ UNCHANGED <<startup, request, memory, copy, model, labels, offered, requests, history>>

\* Whether a request is about a file of the model.
Changes(r) == r = Removal \/ (r # None /\ (r.model # None \/ r.labels # None))

\* POST of "model": the description is in memory before anything is written.
Upload(u) ==
  /\ Request
  /\ request' = u
  /\ memory' = IF u.description = None THEN memory
               ELSE [memory EXCEPT !.description = u.description]
  /\ promised' = IF Changes(u) THEN Torn ELSE promised
  /\ http' = "upload"
  /\ UNCHANGED <<startup, copy, files, offered, pending, faults, overlapped>>

OpenModel ==
  /\ http = "upload" /\ request.model # None
  /\ model' = Torn /\ http' = "model"
  /\ UNCHANGED <<startup, request, memory, copy, saved, labels, offered, pending, requests,
                 faults, history>>

OpenLabels ==
  /\ \/ http = "upload" /\ request.model = None
     \/ http = "modelWritten"
  /\ request.labels # None
  /\ labels' = Torn /\ http' = "labels"
  /\ UNCHANGED <<startup, request, memory, copy, saved, model, offered, pending, requests,
                 faults, history>>

\* A file is complete, or the request is answered with an error and that was it.
ModelWritten ==
  /\ http = "model"
  /\ \/ /\ model' = request.model /\ http' = "modelWritten"
        /\ UNCHANGED <<request, faults>>
     \/ Fault /\ http' = "idle" /\ request' = None /\ UNCHANGED model
  /\ UNCHANGED <<startup, memory, copy, saved, labels, offered, pending, requests, history>>

LabelsWritten ==
  /\ http = "labels"
  /\ \/ /\ labels' = request.labels /\ http' = "final"
        /\ UNCHANGED <<request, faults>>
     \/ Fault /\ http' = "idle" /\ request' = None /\ UNCHANGED labels
  /\ UNCHANGED <<startup, memory, copy, saved, model, offered, pending, requests, history>>

NoLabels ==
  /\ \/ http = "upload" /\ request.model = None
     \/ http = "modelWritten"
  /\ request.labels = None
  /\ http' = "final"
  /\ UNCHANGED <<startup, request, memory, copy, files, offered, pending, requests, faults,
                 history>>

\* DELETE of "model", when there is something to remove.
Remove ==
  /\ Request
  /\ ~(model = None /\ labels = None)
  /\ request' = Removal /\ promised' = Torn
  /\ http' = "remove"
  /\ UNCHANGED <<startup, memory, copy, files, offered, pending, faults, overlapped>>

\* The model, then the labels; the first failure ends the request.
RemoveModel ==
  /\ http = "remove"
  /\ \/ model' = None /\ http' = "removeLabels" /\ UNCHANGED <<request, faults>>
     \/ model # None /\ Fault /\ http' = "idle" /\ request' = None /\ UNCHANGED model
  /\ UNCHANGED <<startup, memory, copy, saved, labels, offered, pending, requests, history>>

RemoveLabels ==
  /\ http = "removeLabels"
  /\ \/ /\ labels' = None /\ http' = "final"
        /\ memory' = [memory EXCEPT !.description = None]
        /\ UNCHANGED <<request, faults>>
     \/ /\ labels # None /\ Fault
        /\ http' = "idle" /\ request' = None /\ UNCHANGED <<labels, memory>>
  /\ UNCHANGED <<startup, copy, saved, model, offered, pending, requests, history>>

\* Every request that came this far saves the settings.
SaveSettings ==
  /\ http = "final"
  /\ http' = "save"
  /\ memory' = memory /\ SaveBegins("http")
  /\ UNCHANGED <<startup, request, model, labels, offered, pending, requests, faults, promised>>

\* A fault of AsksRestart: labels alone do not ask for a restart.
AsksRestartForModel == request = Removal \/ (request # None /\ request.model # None)

\* restartNeeded, and a removal.
AsksRestart == Changes(request)

Answer ==
  /\ http = "save"
  /\ SaveEnds("http")
  /\ http' = "idle" /\ request' = None
  /\ pending' = (pending \/ AsksRestart)
  /\ promised' = IF ~Changes(request) THEN promised
                 ELSE IF Torn \in {model, labels} THEN Torn
                 ELSE [model |-> model, labels |-> labels]
  /\ UNCHANGED <<startup, memory, copy, model, labels, offered, requests, overlapped>>

\* The camera loses a View Area.
ViewRemoved ==
  /\ \E v \in offered \ {1} : offered' = offered \ {v}
  /\ UNCHANGED <<startup, handler, memory, copy, files, pending, requests, faults, history>>
-----------------------------------------------------------------------------
MainStep ==
  \/ Start \/ ReadView \/ UseView \/ FallBack \/ ViewSaved \/ ModelStart \/ RegionsSaved
  \/ Stop

HandlerStep ==
  \/ CheckView \/ NoteSaved \/ OpenModel \/ OpenLabels \/ ModelWritten \/ LabelsWritten
  \/ NoLabels \/ RemoveModel \/ RemoveLabels \/ SaveSettings \/ Answer

Next ==
  \/ MainStep \/ HandlerStep
  \/ Crash \/ ViewRemoved \/ Remove
  \/ \E v \in Views : PostView(v)
  \/ \E u \in Uploads : Upload(u)

\* Both threads go on; the system starts a process that ended.
Spec == Init /\ [][Next]_vars /\ WF_vars(MainStep) /\ WF_vars(HandlerStep)
-----------------------------------------------------------------------------
\* After an orderly end the next start finds the settings as they were in memory:
\* no handler is cut short between changing them and saving them
\* (ACAP_HTTP_Cleanup, ACAP.c:315), and every path that changes one ends in a save.
\* Two saves at a time and failing writes are the exceptions.
SavedAtStop ==
  main = "down" /\ faults = 0 /\ ~overlapped => Loaded(saved) = memory

\* Once all posted changes are answered the process runs with the files that the
\* last successful upload or removal left, however it met the start-up, restarts and
\* crashes in between (HTTP_ENDPOINT_model, main.c:369; Model_Setup).
AcceptedIsUsed ==
  main = "run" /\ ~pending /\ promised # Torn => used = promised

\* When requests cease so do restarts: a saved View Area, or one that falls back to
\* the main view, does not ask for another one at every start (ConfigUpdate,
\* main.c:492).
Settles == <>[](main \in {"run", "model"} /\ ~pending)
=============================================================================
