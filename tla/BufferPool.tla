------------------------------- MODULE BufferPool -------------------------------
(***************************************************************************)
(* What a frame provider promises about its buffers, whatever queues and   *)
(* threads it uses: every buffer has one owner, it travels                 *)
(*     vdo -> provider -> app -> provider -> vdo,                          *)
(* the application holds at most one, and the camera is never left with    *)
(* fewer buffers than the provider was designed to keep away from it.      *)
(***************************************************************************)
EXTENDS Naturals, FiniteSets

CONSTANTS
  Buffers,  \* the buffers of the stream
  MaxKept   \* how many buffers may be away from VDO at the same time

VARIABLE owner

Owners == {"vdo", "provider", "app", "lost"}

OwnedBy(who) == {b \in Buffers : owner[b] = who}

Kept == OwnedBy("provider") \cup OwnedBy("app")

Move(b, from, to) ==
  /\ owner[b] = from
  /\ owner' = [owner EXCEPT ![b] = to]

Init == owner = [b \in Buffers |-> "vdo"]

\* VDO hands over a buffer with a fresh frame in it.
Fill(b) == Cardinality(Kept) < MaxKept /\ Move(b, "vdo", "provider")

\* The application takes a frame; it has given the previous one back.
Lend(b) == OwnedBy("app") = {} /\ Move(b, "provider", "app")

GiveBack(b) == Move(b, "app", "provider")

Recycle(b) == Move(b, "provider", "vdo")

\* VDO refuses the buffer: nobody uses it until the stream is created again.
Lose(b) == Move(b, "provider", "lost")

\* The stream is torn down and a new one gets all its buffers afresh.
Reset == owner' = [b \in Buffers |-> "vdo"]

Next ==
  \/ \E b \in Buffers :
       Fill(b) \/ Lend(b) \/ GiveBack(b) \/ Recycle(b) \/ Lose(b)
  \/ Reset

Spec == Init /\ [][Next]_owner

=============================================================================
