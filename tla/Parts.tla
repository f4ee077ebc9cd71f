--------------------------------- MODULE Parts ---------------------------------
(***************************************************************************)
(* Parts of the application that share no state with each other: the crops, *)
(* the detections of one frame, the names of the classes, the certificates, *)
(* and the web server.  A behaviour is one of one of them, so that their    *)
(* states add up and do not multiply.                                       *)
(***************************************************************************)
EXTENDS Crops

CONSTANTS
  Corners, Scores, Classes, Zero, Full, MaxBoxes, Filters,   \* Detections
  Letter, LF, CR, NUL, MaxFile, MaxName,                     \* ClassNames
  MaxNodes                                                   \* Server

\* Detections: boxes and scores are numbers, and so is the threshold of a confidence.
ASSUME DetectionsAssumption ==
  /\ Corners \subseteq [x : Int, y : Int, w : Int, h : Int]
  /\ Scores \subseteq Int /\ Classes \in Nat \ {0}
  /\ Zero \in Int /\ Full \in Nat \ {0}
  /\ \A f \in Filters : f.confidence \in Int

\* ClassNames: the characters that end a name are others.
ASSUME NamesAssumption ==
  /\ LF # CR /\ LF # NUL /\ CR # NUL
  /\ MaxFile \in Nat /\ MaxName \in Nat

VARIABLES
  part,                              \* whose behaviour this is
  filter, tensor, found, output,     \* Detections
  content, names,                    \* ClassNames
  running, file, known, request, item,   \* Certificates
  main, http, asked, socket, serving, initialized, cancelled, mutex, nodes, owned,
  memory                             \* Server; its `running` is `serving`

frameVars == <<filter, tensor, found, output>>
nameVars == <<content, names>>
certificateVars == <<running, file, known, request, item>>
webVars == <<main, http, asked, socket, serving, initialized, cancelled, mutex, nodes, owned, memory>>
partsVars == <<part, vars, frameVars, nameVars, certificateVars, webVars>>

Frame == INSTANCE Detections
Class == INSTANCE ClassNames
Certificate == INSTANCE Certificates
Web == INSTANCE Server WITH running <- serving

PartsInit ==
  /\ part \in {"crops", "detections", "names", "certificates", "web"}
  /\ Init /\ Class!Init /\ Certificate!Init /\ Web!Init
  /\ IF part = "detections" THEN Frame!Init
     ELSE /\ filter = None
          /\ tensor = <<>> /\ found = <<>> /\ output = <<>>

\* A step of one part, and none of the others.
Only(p, step, others) == part = p /\ step /\ UNCHANGED others /\ UNCHANGED part

PartsNext ==
  \/ Only("crops", Next, <<frameVars, nameVars, certificateVars, webVars>>)
  \/ Only("detections", Frame!Next, <<vars, nameVars, certificateVars, webVars>>)
  \/ Only("names", Class!Next, <<vars, frameVars, certificateVars, webVars>>)
  \/ Only("certificates", Certificate!Next, <<vars, frameVars, nameVars, webVars>>)
  \/ Only("web", Web!Next, <<vars, frameVars, nameVars, certificateVars>>)

\* The web server's threads run, handlers return, and a cancelled thread ends.  Nobody has
\* to send a request, and nothing has to tell the process to stop.
WebStep(step) == Only("web", step, <<vars, frameVars, nameVars, certificateVars>>)

PartsSpec ==
  /\ PartsInit /\ [][PartsNext]_partsVars
  /\ WF_partsVars(WebStep(Web!MainSteps)) /\ WF_partsVars(WebStep(Web!Serve))

\* What Model_Inference() returns (Model.c:983): see Detections.
SuppressionIsSound == part = "detections" => Frame!SuppressionIsSound

\* What labels_parse_file() makes of labels.txt (labelparse.c:117): see ClassNames.
NamesAreLines == part = "names" => Class!NamesAreLines

\* What CERTS_HTTP_Callback() keeps (CERTS.c:106): see Certificates.
InUseAsStored == Certificate!InUseAsStored

\* What ACAP_Cleanup() frees (ACAP.c:2499): see Server.
MemoryIsSound == Web!MemoryIsSound

\* That ACAP_HTTP_Cleanup() gets past the HTTP thread (ACAP.c:315): see Server.
ShutdownEnds == Web!ShutdownEnds
=============================================================================
