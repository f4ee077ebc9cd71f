------------------------------ MODULE FrameProvider ------------------------------
(***************************************************************************)
(* The frame provider (imgprovider.c) with the capture functions that      *)
(* drive it (Video.c).  A fetcher thread takes filled buffers from VDO,    *)
(* appends them to deliveredFrames and gives old ones back; the main       *)
(* thread takes the newest delivered frame, works on it, and returns it    *)
(* through processedFrames when it asks for the next.  frameMutex makes    *)
(* each critical section one action; everything outside it interleaves.    *)
(***************************************************************************)
EXTENDS Naturals, Sequences, FiniteSets

CONSTANTS
  Buffers,       \* the VDO buffers the provider allocates
  NumAppFrames,  \* numAppFrames: frames to keep in deliveredFrames
  NoBuffer,      \* the NULL buffer pointer
  MaxLost        \* bound: how many times VDO refuses a buffer per stream

ASSUME FrameProviderAssumption ==
  /\ IsFiniteSet(Buffers)
  /\ NumAppFrames \in Nat \ {0}
  /\ NoBuffer \notin Buffers
  /\ MaxLost \in Nat

VARIABLES
  main,        \* main thread: "off" no provider, "idle" working on appBuffer,
               \* "taking" inside getLastFrameBlocking, "joining" inside stopFrameFetch
  fetcher,     \* fetcher thread: "off", "loop" about to test shutDown,
               \* "get" in vdo_stream_get_buffer, "deliver" about to lock frameMutex
  shutDown,    \* the provider's shutDown flag
  vdo,         \* buffers enqueued in VDO
  newBuffer,   \* the frame the fetcher got and has not yet delivered
  delivered,   \* deliveredFrames, oldest first
  processed,   \* processedFrames, oldest first
  appBuffer,   \* the frame the main thread works on (hiresBuffer / yuvBuffer)
  lost,        \* buffers VDO refused to take back
  older,       \* history: <<a, b>> when the frame in a was fetched before that in b
  behind       \* history: buffers with a frame older than the one taken last

queues == <<vdo, newBuffer, delivered, processed, appBuffer, lost>>
history == <<older, behind>>
vars == <<main, fetcher, shutDown, queues, history>>

Elements(q) == {q[i] : i \in DOMAIN q}

Init ==
  /\ main = "off" /\ fetcher = "off" /\ shutDown = FALSE
  /\ vdo = Buffers /\ newBuffer = NoBuffer
  /\ delivered = <<>> /\ processed = <<>>
  /\ appBuffer = NoBuffer
  /\ lost = {}
  /\ older = {} /\ behind = {}
-----------------------------------------------------------------------------
(* Life of the provider, on the main thread.                               *)

\* createImgProviderWithBuffers() enqueues every buffer it allocates, then
\* startFrameFetch() starts the thread.  A failure on the way destroys the
\* provider again, which leaves the state as it was.
Start ==
  /\ main = "off"
  /\ main' = "idle"
  /\ fetcher' = "loop"
  /\ UNCHANGED <<shutDown, queues, history>>

\* stopFrameFetch(), first half: set the flag, then wait in pthread_join().
Stop ==
  /\ main = "idle"
  /\ shutDown' = TRUE
  /\ main' = "joining"
  /\ UNCHANGED <<fetcher, queues, history>>

\* The join returned: destroyImgProvider() releases every buffer, whatever
\* queue it is in, and the capture pointer is cleared.
Destroy ==
  /\ main = "joining"
  /\ fetcher = "off"
  /\ main' = "off"
  /\ shutDown' = FALSE
  /\ vdo' = Buffers /\ newBuffer' = NoBuffer
  /\ delivered' = <<>> /\ processed' = <<>>
  /\ appBuffer' = NoBuffer
  /\ lost' = {}
  /\ older' = {} /\ behind' = {}
  /\ UNCHANGED fetcher
-----------------------------------------------------------------------------
(* Capture, on the main thread.                                            *)

\* A fault of Capture: the previous frame is not returned.
CaptureForgetsToReturn ==
  /\ main = "idle"
  /\ main' = "taking"
  /\ appBuffer' = NoBuffer
  /\ UNCHANGED <<fetcher, shutDown, vdo, newBuffer, delivered, processed, lost, history>>

\* returnFrame() of the previous frame, then into getLastFrameBlocking().  The
\* capture pointer keeps its old value until the call returns; nothing reads it
\* in between, so it is empty here.
Capture ==
  /\ main = "idle"
  /\ main' = "taking"
  /\ processed' = IF appBuffer = NoBuffer THEN processed ELSE Append(processed, appBuffer)
  /\ appBuffer' = NoBuffer
  /\ UNCHANGED <<fetcher, shutDown, vdo, newBuffer, delivered, lost, history>>

\* A fault of Newest: the head of the queue is popped.
NewestPopsHead == [frame |-> Head(delivered), rest |-> Tail(delivered)]

\* g_queue_pop_tail(): the last frame of the queue, and what stays in it.
Newest ==
  [frame |-> delivered[Len(delivered)],
   rest  |-> SubSeq(delivered, 1, Len(delivered) - 1)]

\* getLastFrameBlocking() once the queue has a frame.
Take ==
  /\ main = "taking"
  /\ delivered # <<>>
  /\ appBuffer' = Newest.frame
  /\ delivered' = Newest.rest
  /\ behind' = {b \in Buffers : <<b, Newest.frame>> \in older}
  /\ main' = "idle"
  /\ UNCHANGED <<fetcher, shutDown, vdo, newBuffer, processed, lost, older>>

\* pthread_cond_wait() failed: NULL is returned and becomes the capture pointer.
TakeFails ==
  /\ main = "taking"
  /\ delivered = <<>>
  /\ main' = "idle"
  /\ UNCHANGED <<fetcher, shutDown, queues, history>>
-----------------------------------------------------------------------------
(* The fetcher thread.                                                     *)

\* A fault of Loop: the flag is not tested.
LoopIgnoresShutDown ==
  /\ fetcher = "loop"
  /\ fetcher' = "get"
  /\ UNCHANGED <<main, shutDown, queues, history>>

\* while (!provider->shutDown)
Loop ==
  /\ fetcher = "loop"
  /\ fetcher' = IF shutDown THEN "off" ELSE "get"
  /\ UNCHANGED <<main, shutDown, queues, history>>

\* vdo_stream_get_buffer() returns a buffer VDO has filled.
GetBuffer ==
  /\ fetcher = "get"
  /\ \E b \in vdo : newBuffer' = b /\ vdo' = vdo \ {b}
  /\ fetcher' = "deliver"
  /\ older' = older \cup (Buffers \ vdo) \X {newBuffer'}
  /\ UNCHANGED <<main, shutDown, delivered, processed, appBuffer, lost, behind>>

\* vdo_stream_get_buffer() returns NULL: log, and go round the loop again.
GetFails ==
  /\ fetcher = "get"
  /\ fetcher' = "loop"
  /\ UNCHANGED <<main, shutDown, queues, history>>

\* Faults of Recycling: one frame too many is kept; the processed queue is
\* looked at and not popped.
RecyclingKeepsOneMore(arrived) ==
  IF processed # <<>>
  THEN [old |-> Head(processed), processed |-> Tail(processed), delivered |-> arrived]
  ELSE IF Len(arrived) > NumAppFrames + 1
       THEN [old |-> Head(arrived), processed |-> processed, delivered |-> Tail(arrived)]
       ELSE [old |-> NoBuffer, processed |-> processed, delivered |-> arrived]

RecyclingPeeks(arrived) ==
  IF processed # <<>>
  THEN [old |-> Head(processed), processed |-> processed, delivered |-> arrived]
  ELSE IF Len(arrived) > NumAppFrames
       THEN [old |-> Head(arrived), processed |-> processed, delivered |-> Tail(arrived)]
       ELSE [old |-> NoBuffer, processed |-> processed, delivered |-> arrived]

\* Which buffer goes back to VDO once the queue is "arrived": a processed one
\* if there is any, else the oldest delivered one beyond NumAppFrames.
Recycling(arrived) ==
  IF processed # <<>>
  THEN [old |-> Head(processed), processed |-> Tail(processed), delivered |-> arrived]
  ELSE IF Len(arrived) > NumAppFrames
       THEN [old |-> Head(arrived), processed |-> processed, delivered |-> Tail(arrived)]
       ELSE [old |-> NoBuffer, processed |-> processed, delivered |-> arrived]

\* vdo_stream_buffer_enqueue(): VDO takes the buffer or refuses it.  A refused
\* buffer is in no queue any more.
Enqueue(old) ==
  \/ /\ vdo' = vdo \cup ({old} \ {NoBuffer})
     /\ UNCHANGED lost
  \/ /\ old # NoBuffer
     /\ Cardinality(lost) < MaxLost
     /\ lost' = lost \cup {old}
     /\ UNCHANGED vdo

\* g_queue_push_tail() of the fresh frame.
Arrived == Append(delivered, newBuffer)

\* The critical section of threadEntry(), from the lock to the unlock.
Deliver ==
  /\ fetcher = "deliver"
  /\ LET r == Recycling(Arrived)
     IN  /\ delivered' = r.delivered
         /\ processed' = r.processed
         /\ Enqueue(r.old)
         /\ older' = {p \in older : r.old \notin {p[1], p[2]}}
         /\ behind' = behind \ {r.old}
  /\ newBuffer' = NoBuffer
  /\ fetcher' = "loop"
  /\ UNCHANGED <<main, shutDown, appBuffer>>
-----------------------------------------------------------------------------
Next ==
  \/ Start \/ Stop \/ Destroy
  \/ Capture \/ Take \/ TakeFails
  \/ Loop \/ GetBuffer \/ GetFails \/ Deliver

Spec == Init /\ [][Next]_vars

\* The threads run.  VDO may fail a request, but not every one from some point
\* on: a camera whose stream is up goes on producing frames.  Nothing makes the
\* application start, capture or stop.
Fairness ==
  /\ WF_vars(Loop)
  /\ SF_vars(GetBuffer)
  /\ WF_vars(Deliver)
  /\ WF_vars(Take)
  /\ WF_vars(Destroy)

FairSpec == Spec /\ Fairness
-----------------------------------------------------------------------------
BufferOrNone == Buffers \cup {NoBuffer}

TypeOK ==
  /\ main \in {"off", "idle", "taking", "joining"}
  /\ fetcher \in {"off", "loop", "get", "deliver"}
  /\ shutDown \in BOOLEAN
  /\ vdo \in SUBSET Buffers
  /\ newBuffer \in BufferOrNone
  /\ delivered \in Seq(Buffers)
  /\ processed \in Seq(Buffers)
  /\ appBuffer \in BufferOrNone
  /\ lost \in SUBSET Buffers
  /\ older \in SUBSET (Buffers \X Buffers)
  /\ behind \in SUBSET Buffers

Distinct(q) == \A i, j \in DOMAIN q : q[i] = q[j] => i = j

Place ==
  [vdo       |-> vdo,
   fetcher   |-> {newBuffer} \ {NoBuffer},
   delivered |-> Elements(delivered),
   processed |-> Elements(processed),
   app       |-> {appBuffer} \ {NoBuffer},
   lost      |-> lost]

\* Every buffer is in exactly one place: in VDO, in the fetcher's hand, in one
\* of the queues, with the application, or lost.  VDO never fills a buffer the
\* application is reading, and no buffer is handed out twice (threadEntry,
\* getLastFrameBlocking and returnFrame together).
OneOwner ==
  /\ Distinct(delivered) /\ Distinct(processed)
  /\ UNION {Place[p] : p \in DOMAIN Place} = Buffers
  /\ \A p, q \in DOMAIN Place : p # q => Place[p] \cap Place[q] = {}

Holding == IF appBuffer = NoBuffer THEN 0 ELSE 1

\* At most NumAppFrames delivered frames plus the one the application holds are
\* kept from VDO, also while processed frames wait to be recycled: what
\* Video.c promises of the full-resolution stream ("One frame is held by the
\* app, one waits in the delivered queue, the rest go back to VDO").
BoundedBacklog == Len(delivered) + Len(processed) + Holding <= NumAppFrames + 1

\* The frame a capture returns is newer than every frame that stays waiting in
\* deliveredFrames, in whatever order the two threads got there: the fetcher appends in
\* fetch order and getLastFrameBlocking() takes the last (imgprovider.c:470).
TakesTheNewest ==
  [][main = "taking" /\ appBuffer' # NoBuffer
       => \A b \in Elements(delivered') : <<b, appBuffer'>> \in older]_vars

\* "Get the most recent frame the thread has fetched from VDO" (imgprovider.h:151): a
\* capture does not go back to a frame older than the one the capture before it returned.
GetsTheMostRecent ==
  [][main = "taking" /\ appBuffer' # NoBuffer => appBuffer' \notin behind]_vars

\* A capture ends: the main thread does not wait for a frame for ever, so the
\* GLib loop it blocks gets to run its timers again.
CaptureReturns == main = "taking" ~> main # "taking"

\* Stopping the stream ends, whatever the fetcher was doing when shutDown was set.
StopCompletes == main = "joining" ~> main = "off"
-----------------------------------------------------------------------------
(* The provider keeps the promise of BufferPool.                           *)

Owner ==
  [b \in Buffers |->
     IF b \in vdo THEN "vdo"
     ELSE IF b \in lost THEN "lost"
     ELSE IF b = appBuffer THEN "app"
     ELSE "provider"]

Pool == INSTANCE BufferPool WITH owner <- Owner, MaxKept <- NumAppFrames + 2

PoolSpec == Pool!Spec
=============================================================================
