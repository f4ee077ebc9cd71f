----------------------------- MODULE Certificates -----------------------------
(***************************************************************************)
(* The certificates of the MQTT client (CERTS.c): their files in localdata  *)
(* and what CERTS_SETTINGS says of them, through uploads, removals, a full  *)
(* disk and the end of the process between any two calls.  Uploads and      *)
(* removals come one at a time, from the HTTP thread.                       *)
(***************************************************************************)

\* The PEM files, by the item that names them, and ph.txt with the password of the key.
Certs == {"cafile", "certfile", "keyfile"}
Files == Certs \cup {"password"}

\* "whole" is what CERTS_Init() accepts; "odd" is what it refuses for its length (a PEM of
\* 9000 bytes, a password of 3); "cut" and "empty" are what a failed write leaves.
Contents == {"none", "empty", "cut", "odd", "whole"}

VARIABLES
  running,   \* the process
  file,      \* what is in the files
  known,     \* the items of CERTS_SETTINGS
  request,   \* what CERTS_HTTP_Callback() does next, or "idle"
  item       \* the item the latest request is about

vars == <<running, file, known, request, item>>

\* localdata/ as installed: no certificates.
Init ==
  /\ running = FALSE /\ file = [f \in Files |-> "none"]
  /\ known = {} /\ request = "idle" /\ item = "cafile"

At(next) == running /\ request = next
Goto(next) == request' = next /\ UNCHANGED item
Answer == Goto("idle")
Holds(f, content) == file' = [file EXCEPT ![f] = content]
-----------------------------------------------------------------------------
\* CERTS_Init(): the items whose files are taken up.  A cut one is when enough of it is there.
Loads(f, enough) ==
  \/ file[f] = "whole"
  \/ file[f] = "cut" /\ f \in enough

Start ==
  /\ ~running /\ running' = TRUE
  /\ \E enough \in SUBSET Files : known' = {f \in Files : Loads(f, enough)}
  /\ UNCHANGED <<file, request, item>>

\* The process ends, within a request or not.
Stop ==
  /\ running /\ running' = FALSE
  /\ known' = {} /\ Answer
  /\ UNCHANGED file

\* POST: save_certificate() opens the file for writing, which empties it.
Post(f) ==
  /\ At("idle") /\ Holds(f, "empty")
  /\ request' = "write" /\ item' = f
  /\ UNCHANGED <<running, known>>

\* A short write is answered with an error; one that fails in fclose() is not noticed.
Write ==
  /\ At("write")
  /\ \/ \E content \in Contents \ {"none"} : Holds(item, content) /\ Goto("enter")
     \/ \E content \in {"empty", "cut"} : Holds(item, content) /\ Answer
  /\ UNCHANGED <<running, known>>

\* The item is set; the password of a key is replaced by that of the request, or goes.
Enter ==
  /\ At("enter")
  /\ \/ item # "keyfile" /\ known' = known \cup {item} /\ Answer
     \/ item = "keyfile" /\ known' = known \cup {"keyfile", "password"} /\ Goto("password")
     \/ item = "keyfile" /\ known' = (known \ {"password"}) \cup {"keyfile"} /\ Answer
  /\ UNCHANGED <<running, file>>

\* ph.txt is opened and written; no failure of it is answered.
OpenPassword ==
  /\ At("password")
  /\ \/ Holds("password", "empty") /\ Goto("phrase")
     \/ UNCHANGED file /\ Answer
  /\ UNCHANGED <<running, known>>

WritePassword ==
  /\ At("phrase") /\ Answer
  /\ \E content \in Contents \ {"none"} : Holds("password", content)
  /\ UNCHANGED <<running, known>>

\* DELETE: of a known item whose file can be removed.
Delete(f) ==
  /\ At("idle") /\ f \in known /\ file[f] # "none"
  /\ Holds(f, "none")
  /\ request' = "forget" /\ item' = f
  /\ UNCHANGED <<running, known>>

\* A fault of Forget: a removed certificate leaves its key in the settings.
ForgetOnlyCertificate ==
  /\ At("forget") /\ Answer
  /\ known' = known \ {item}
  /\ \/ item = "certfile" /\ Holds("keyfile", "none")
     \/ item # "certfile" /\ UNCHANGED file
  /\ UNCHANGED running

\* The item goes; a key takes its password along, a certificate its key.
Forget ==
  /\ At("forget")
  /\ \/ item = "cafile" /\ known' = known \ {"cafile"} /\ Answer /\ UNCHANGED file
     \/ /\ item = "keyfile" /\ known' = known \ {"keyfile", "password"} /\ Answer
        /\ Holds("password", "none") \/ UNCHANGED file
     \/ item = "certfile" /\ known' = known \ {"certfile"} /\ Goto("key") /\ UNCHANGED file
  /\ UNCHANGED running

\* DELETE of a certificate: its key file, if it can be removed.
DeleteKey ==
  /\ At("key")
  /\ \/ file["keyfile"] # "none" /\ Holds("keyfile", "none") /\ Goto("forget key")
     \/ UNCHANGED file /\ Answer
  /\ UNCHANGED <<running, known>>

ForgetKey ==
  /\ At("forget key") /\ Answer
  /\ known' = known \ {"keyfile", "password"}
  /\ \/ "password" \in known /\ Holds("password", "none")
     \/ UNCHANGED file
  /\ UNCHANGED running

Next ==
  \/ Start \/ Stop
  \/ \E f \in Certs : Post(f) \/ Delete(f)
  \/ Write \/ Enter \/ OpenPassword \/ WritePassword
  \/ Forget \/ DeleteKey \/ ForgetKey

Spec == Init /\ [][Next]_vars
-----------------------------------------------------------------------------
\* Between requests the certificates in use are those in the files: what is whole on
\* the disk is used, and nothing is used that is not there, so that a restart neither
\* brings back a removed certificate nor loses one that was saved whole (the two halves
\* of each request in CERTS_HTTP_Callback(), CERTS_Init()).
InUseAsStored ==
  running /\ request = "idle" =>
    \A f \in Certs : /\ f \in known => file[f] # "none"
                     /\ file[f] = "whole" => f \in known
=============================================================================
