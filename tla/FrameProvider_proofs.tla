-------------------------- MODULE FrameProvider_proofs --------------------------
(***************************************************************************)
(* Proofs about FrameProvider, for every finite set of buffers and every   *)
(* NumAppFrames: who owns a buffer, and how many are kept from VDO.        *)
(***************************************************************************)
EXTENDS FrameProvider, FiniteSetTheorems, TLAPS

-----------------------------------------------------------------------------
(* What the queue operations do to the set of elements of a queue.         *)

\* g_queue_push_tail(): the queue gains the element, and stays free of
\* duplicates when the element was not in it (Capture and Deliver append).
LEMMA PushTail ==
  ASSUME NEW S, NEW q \in Seq(S), NEW b \in S
  PROVE  /\ Append(q, b) \in Seq(S)
         /\ Elements(Append(q, b)) = Elements(q) \cup {b}
         /\ Distinct(q) /\ b \notin Elements(q) => Distinct(Append(q, b))
         /\ Len(Append(q, b)) = Len(q) + 1
<1> DEFINE r == Append(q, b)
<1>1. /\ Len(q) \in Nat
      /\ r \in Seq(S) /\ DOMAIN r = 1..Len(q) + 1 /\ DOMAIN q = 1..Len(q)
      /\ Len(r) = Len(q) + 1
      /\ \A i \in 1..Len(q) : r[i] = q[i]
      /\ r[Len(q) + 1] = b
  OBVIOUS
<1> HIDE DEF r
<1>2. Elements(r) \subseteq Elements(q) \cup {b}
  BY <1>1 DEF Elements
<1>3. Elements(q) \cup {b} \subseteq Elements(r)
  <2>1. ASSUME NEW i \in 1..Len(q)
        PROVE  q[i] \in Elements(r)
    BY <1>1, <2>1 DEF Elements
  <2>2. b \in Elements(r)
    BY <1>1 DEF Elements
  <2>. QED  BY <1>1, <2>1, <2>2 DEF Elements
<1>4. ASSUME Distinct(q), b \notin Elements(q)
      PROVE  Distinct(r)
  BY <1>1, <1>4 DEF Distinct, Elements
<1>. QED  BY <1>1, <1>2, <1>3, <1>4 DEF r

\* g_queue_pop_head(): the first element leaves, the others stay (Recycling).
LEMMA PopHead ==
  ASSUME NEW S, NEW q \in Seq(S), q # <<>>, Distinct(q)
  PROVE  /\ Tail(q) \in Seq(S)
         /\ Head(q) \in Elements(q)
         /\ Elements(Tail(q)) = Elements(q) \ {Head(q)}
         /\ Distinct(Tail(q))
         /\ Len(Tail(q)) = Len(q) - 1
<1>1. /\ Len(q) \in Nat /\ Len(q) >= 1
      /\ Tail(q) \in Seq(S)
      /\ Len(Tail(q)) = Len(q) - 1
      /\ DOMAIN Tail(q) = 1..Len(q) - 1
      /\ \A i \in 1..Len(q) - 1 : Tail(q)[i] = q[i + 1]
      /\ Head(q) = q[1]
  OBVIOUS
<1>2. Elements(Tail(q)) \subseteq Elements(q) \ {Head(q)}
  BY <1>1 DEF Elements, Distinct
<1>3. ASSUME NEW x \in Elements(q) \ {Head(q)}
      PROVE  x \in Elements(Tail(q))
  <2>1. PICK i \in 1..Len(q) : q[i] = x
    BY DEF Elements
  <2>2. i - 1 \in 1..Len(q) - 1 /\ Tail(q)[i - 1] = x
    BY <1>1, <2>1
  <2>. QED  BY <1>1, <2>2 DEF Elements
<1>4. Distinct(Tail(q))
  BY <1>1 DEF Distinct
<1>5. Head(q) \in Elements(q)
  BY <1>1 DEF Elements
<1>6. Elements(Tail(q)) = Elements(q) \ {Head(q)}
  BY <1>2, <1>3
<1>. QED  BY <1>1, <1>4, <1>5, <1>6

\* g_queue_pop_tail(): the last element leaves, the others stay (Newest).
LEMMA PopTail ==
  ASSUME NEW S, NEW q \in Seq(S), q # <<>>, Distinct(q)
  PROVE  LET rest == SubSeq(q, 1, Len(q) - 1)
             last == q[Len(q)]
         IN  /\ rest \in Seq(S)
             /\ last \in Elements(q) /\ last \in S
             /\ Elements(rest) = Elements(q) \ {last}
             /\ Distinct(rest)
             /\ Len(rest) = Len(q) - 1
<1> DEFINE rest == SubSeq(q, 1, Len(q) - 1)
           last == q[Len(q)]
<1>1. /\ Len(q) \in Nat /\ Len(q) >= 1 /\ DOMAIN q = 1..Len(q)
      /\ last \in S
  OBVIOUS
<1>2. /\ rest \in Seq(S)
      /\ Len(rest) = Len(q) - 1 /\ DOMAIN rest = 1..Len(q) - 1
      /\ \A i \in 1..Len(q) - 1 : rest[i] = q[i]
  <2>1. /\ 1 \in 1..Len(q) + 1
        /\ Len(q) - 1 \in Nat
        /\ \A i \in 1..Len(q) - 1 : q[i] \in S
    BY <1>1
  <2>2. rest = [i \in 1..Len(q) - 1 |-> q[i]]
    BY <1>1, <2>1
  <2> HIDE DEF rest
  <2>3. rest \in Seq(S)
    BY <2>1, <2>2
  <2>4. DOMAIN rest = 1..Len(q) - 1
    BY <2>2
  <2>5. Len(rest) = Len(q) - 1
    BY <2>1, <2>3, <2>4
  <2>. QED  BY <2>2, <2>3, <2>4, <2>5
<1> HIDE DEF rest
<1>3. Elements(rest) \subseteq Elements(q) \ {last}
  BY <1>1, <1>2 DEF Elements, Distinct
<1>4. ASSUME NEW i \in 1..Len(q), q[i] # last
      PROVE  q[i] \in Elements(rest)
  <2>1. i \in 1..Len(q) - 1
    BY <1>1, <1>4
  <2>. QED  BY <2>1, <1>2 DEF Elements
<1>5. Distinct(rest)
  BY <1>1, <1>2 DEF Distinct
<1>6. last \in Elements(q)
  BY <1>1 DEF Elements
<1>7. Elements(q) \ {last} \subseteq Elements(rest)
  BY <1>1, <1>4 DEF Elements
<1>8. Elements(rest) = Elements(q) \ {last}
  BY <1>3, <1>7
<1> HIDE DEF last
<1>. QED  BY <1>1, <1>2, <1>5, <1>6, <1>8 DEF rest, last
-----------------------------------------------------------------------------
(* Type correctness.                                                       *)

\* What the critical section of threadEntry() does to the queues: a buffer that
\* goes back to VDO leaves exactly one of them, and only a buffer beyond
\* NumAppFrames leaves the delivered frames.
LEMMA RecyclingResult ==
  ASSUME TypeOK, NEW arrived \in Seq(Buffers),
         Distinct(arrived), Distinct(processed), NEW r, r = Recycling(arrived)
  PROVE  /\ r.delivered \in Seq(Buffers) /\ r.processed \in Seq(Buffers)
         /\ r.old \in BufferOrNone
         /\ Distinct(r.delivered) /\ Distinct(r.processed)
         /\ \/ /\ r.old \in Elements(processed)
               /\ Elements(r.processed) = Elements(processed) \ {r.old}
               /\ r.delivered = arrived
               /\ Len(r.processed) = Len(processed) - 1
            \/ /\ r.old \in Elements(arrived)
               /\ Elements(r.delivered) = Elements(arrived) \ {r.old}
               /\ r.processed = processed
               /\ Len(r.delivered) = Len(arrived) - 1
            \/ /\ r.old = NoBuffer
               /\ r.delivered = arrived /\ r.processed = processed
               /\ Len(processed) = 0 /\ Len(arrived) <= NumAppFrames
<1>1. CASE processed # <<>>
  <2>1. /\ r.old = Head(processed) /\ r.processed = Tail(processed)
        /\ r.delivered = arrived
    BY <1>1 DEF Recycling
  <2>2. /\ Tail(processed) \in Seq(Buffers)
        /\ Head(processed) \in Elements(processed) /\ Head(processed) \in Buffers
        /\ Elements(Tail(processed)) = Elements(processed) \ {Head(processed)}
        /\ Distinct(Tail(processed))
        /\ Len(Tail(processed)) = Len(processed) - 1
    BY <1>1, PopHead DEF TypeOK
  <2>. QED  BY <2>1, <2>2 DEF TypeOK, BufferOrNone
<1>2. CASE processed = <<>> /\ Len(arrived) > NumAppFrames
  <2>0. arrived # <<>>
    BY <1>2, FrameProviderAssumption
  <2>1. /\ r.old = Head(arrived) /\ r.delivered = Tail(arrived)
        /\ r.processed = processed
    BY <1>2 DEF Recycling
  <2>2. /\ Tail(arrived) \in Seq(Buffers)
        /\ Head(arrived) \in Elements(arrived) /\ Head(arrived) \in Buffers
        /\ Elements(Tail(arrived)) = Elements(arrived) \ {Head(arrived)}
        /\ Distinct(Tail(arrived))
        /\ Len(Tail(arrived)) = Len(arrived) - 1
    BY <1>2, <2>0, PopHead DEF TypeOK
  <2>. QED  BY <2>1, <2>2 DEF TypeOK, BufferOrNone
<1>3. CASE processed = <<>> /\ ~(Len(arrived) > NumAppFrames)
  BY <1>3, FrameProviderAssumption DEF Recycling, TypeOK, BufferOrNone
<1>. QED  BY <1>1, <1>2, <1>3
-----------------------------------------------------------------------------
(* The inductive invariant.                                                *)

\* Six sets split the buffers among them.
Split(v, f, d, p, a, l) ==
  /\ v \cup f \cup d \cup p \cup a \cup l = Buffers
  /\ v \cap (f \cup d \cup p \cup a \cup l) = {}
  /\ f \cap (d \cup p \cup a \cup l) = {}
  /\ d \cap (p \cup a \cup l) = {}
  /\ p \cap (a \cup l) = {}
  /\ a \cap l = {}

\* What the fetcher and the main thread have in their hands between two
\* critical sections.
Hands ==
  /\ (newBuffer # NoBuffer) <=> (fetcher = "deliver")
  /\ main = "taking" => appBuffer = NoBuffer
  /\ main = "off" => fetcher = "off"

IInv == TypeOK /\ OneOwner /\ Hands /\ BoundedBacklog

\* OneOwner says that the places split the buffers.
LEMMA PlacesSplit ==
  ASSUME NEW v, NEW f, NEW d, NEW p, NEW a, NEW l,
         NEW R, R = [vdo |-> v, fetcher |-> f, delivered |-> d,
                     processed |-> p, app |-> a, lost |-> l]
  PROVE  (/\ UNION {R[x] : x \in DOMAIN R} = Buffers
          /\ \A x, y \in DOMAIN R : x # y => R[x] \cap R[y] = {})
         <=> Split(v, f, d, p, a, l)
<1>1. /\ DOMAIN R = {"vdo", "fetcher", "delivered", "processed", "app", "lost"}
      /\ R["vdo"] = v /\ R["fetcher"] = f /\ R["delivered"] = d
      /\ R["processed"] = p /\ R["app"] = a /\ R["lost"] = l
  OBVIOUS
<1>2. UNION {R[x] : x \in DOMAIN R} = v \cup f \cup d \cup p \cup a \cup l
  BY <1>1
<1>3. (\A x, y \in DOMAIN R : x # y => R[x] \cap R[y] = {})
      <=> /\ v \cap (f \cup d \cup p \cup a \cup l) = {}
          /\ f \cap (d \cup p \cup a \cup l) = {}
          /\ d \cap (p \cup a \cup l) = {}
          /\ p \cap (a \cup l) = {}
          /\ a \cap l = {}
  BY <1>1
<1>. QED  BY <1>2, <1>3 DEF Split

\* The same, for the state and for the next state.
LEMMA OwnersSplit ==
  /\ OneOwner <=> /\ Distinct(delivered) /\ Distinct(processed)
                  /\ Split(vdo, {newBuffer} \ {NoBuffer}, Elements(delivered),
                           Elements(processed), {appBuffer} \ {NoBuffer}, lost)
  /\ OneOwner' <=> /\ Distinct(delivered') /\ Distinct(processed')
                   /\ Split(vdo', {newBuffer'} \ {NoBuffer}, Elements(delivered'),
                            Elements(processed'), {appBuffer'} \ {NoBuffer}, lost')
<1> DEFINE F == {newBuffer} \ {NoBuffer}
           D == Elements(delivered)
           P == Elements(processed)
           A == {appBuffer} \ {NoBuffer}
<1>1. Place = [vdo |-> vdo, fetcher |-> F, delivered |-> D,
               processed |-> P, app |-> A, lost |-> lost]
  BY DEF Place
<1>2. Place' = [vdo |-> vdo', fetcher |-> F', delivered |-> D',
                processed |-> P', app |-> A', lost |-> lost']
  BY DEF Place
<1> HIDE DEF F, D, P, A
<1>3. (/\ UNION {Place[x] : x \in DOMAIN Place} = Buffers
       /\ \A x, y \in DOMAIN Place : x # y => Place[x] \cap Place[y] = {})
      <=> Split(vdo, F, D, P, A, lost)
  BY <1>1, PlacesSplit
<1>4. (/\ UNION {Place'[x] : x \in DOMAIN Place'} = Buffers
       /\ \A x, y \in DOMAIN Place' : x # y => Place'[x] \cap Place'[y] = {})
      <=> Split(vdo', F', D', P', A', lost')
  BY <1>2, PlacesSplit
<1>5. OneOwner <=> /\ Distinct(delivered) /\ Distinct(processed)
                   /\ Split(vdo, F, D, P, A, lost)
  BY <1>3 DEF OneOwner
<1>6. OneOwner' <=> /\ Distinct(delivered') /\ Distinct(processed')
                    /\ Split(vdo', F', D', P', A', lost')
  BY <1>4 DEF OneOwner, Distinct
<1>. QED  BY <1>5, <1>6 DEF F, D, P, A, Elements

LEMMA InitInv == Init => IInv
<1> SUFFICES ASSUME Init PROVE IInv
  OBVIOUS
<1> USE FrameProviderAssumption
<1>1. TypeOK
  <2>1. <<>> \in Seq(Buffers)
    OBVIOUS
  <2>. QED  BY <2>1, Zenon DEF Init, TypeOK, BufferOrNone
<1>2. OneOwner
  BY OwnersSplit DEF Init, Split, Elements, Distinct
<1>3. Hands /\ BoundedBacklog
  BY DEF Init, Hands, BoundedBacklog, Holding
<1>. QED  BY <1>1, <1>2, <1>3 DEF IInv

\* A step that leaves the queues alone and does not touch a hand keeps IInv.
LEMMA QueuesUntouched ==
  ASSUME IInv, UNCHANGED <<queues, history>>,
         main' \in {"off", "idle", "taking", "joining"},
         fetcher' \in {"off", "loop", "get", "deliver"}, shutDown' \in BOOLEAN,
         Hands'
  PROVE  IInv'
<1>1. TypeOK'
  BY DEF IInv, TypeOK, queues, history
<1>2. OneOwner'
  BY OwnersSplit DEF IInv, queues, Distinct, Elements
<1>3. BoundedBacklog'
  BY DEF IInv, queues, BoundedBacklog, Holding
<1>. QED  BY <1>1, <1>2, <1>3 DEF IInv

LEMMA DestroyInv == IInv /\ Destroy => IInv'
<1> SUFFICES ASSUME IInv, Destroy PROVE IInv'
  OBVIOUS
<1> USE FrameProviderAssumption
<1>1. TypeOK'
  <2>1. <<>> \in Seq(Buffers)
    OBVIOUS
  <2>. QED  BY <2>1, Zenon DEF IInv, Destroy, TypeOK, BufferOrNone
<1>2. OneOwner'
  BY OwnersSplit DEF Destroy, Split, Elements, Distinct
<1>3. Hands' /\ BoundedBacklog'
  BY DEF Destroy, Hands, BoundedBacklog, Holding
<1>. QED  BY <1>1, <1>2, <1>3 DEF IInv

LEMMA CaptureInv == IInv /\ Capture => IInv'
<1> SUFFICES ASSUME IInv, Capture PROVE IInv'
  OBVIOUS
<1> USE FrameProviderAssumption
<1>1. CASE appBuffer = NoBuffer
  BY <1>1, QueuesUntouched DEF IInv, Capture, TypeOK, Hands, queues, history
<1>2. CASE appBuffer # NoBuffer
  <2>1. appBuffer \in Buffers /\ processed \in Seq(Buffers)
    BY <1>2 DEF IInv, TypeOK, BufferOrNone
  <2>2. processed' = Append(processed, appBuffer) /\ appBuffer' = NoBuffer
    BY <1>2 DEF Capture
  <2>3. /\ Split(vdo, {newBuffer} \ {NoBuffer}, Elements(delivered),
                 Elements(processed), {appBuffer} \ {NoBuffer}, lost)
        /\ Distinct(delivered) /\ Distinct(processed)
    BY OwnersSplit DEF IInv
  <2>4. /\ processed' \in Seq(Buffers)
        /\ Elements(processed') = Elements(processed) \cup {appBuffer}
        /\ Distinct(processed')
        /\ Len(processed') = Len(processed) + 1
    <3>1. appBuffer \notin Elements(processed)
      BY <1>2, <2>3 DEF Split
    <3>. QED  BY <2>1, <2>2, <2>3, <3>1, PushTail
  <2>5. TypeOK'
    BY <2>1, <2>2, <2>4 DEF IInv, Capture, TypeOK, BufferOrNone, history
  <2>6. OneOwner'
    <3>1. Split(vdo', {newBuffer'} \ {NoBuffer}, Elements(delivered),
                Elements(processed'), {appBuffer'} \ {NoBuffer}, lost')
      BY <1>2, <2>2, <2>3, <2>4 DEF Capture, Split
    <3>. QED  BY <2>3, <2>4, <3>1, OwnersSplit DEF Capture
  <2>7. Hands'
    BY <2>2 DEF IInv, Capture, Hands
  <2>8. BoundedBacklog'
    BY <1>2, <2>2, <2>4 DEF IInv, Capture, BoundedBacklog, Holding, TypeOK
  <2>. QED  BY <2>5, <2>6, <2>7, <2>8 DEF IInv
<1>. QED  BY <1>1, <1>2

LEMMA TakeInv == IInv /\ Take => IInv'
<1> SUFFICES ASSUME IInv, Take PROVE IInv'
  OBVIOUS
<1> USE FrameProviderAssumption
<1>1. /\ appBuffer = NoBuffer /\ delivered # <<>>
      /\ delivered \in Seq(Buffers) /\ processed \in Seq(Buffers)
  BY DEF IInv, Take, Hands, TypeOK
<1>2. /\ Split(vdo, {newBuffer} \ {NoBuffer}, Elements(delivered),
               Elements(processed), {appBuffer} \ {NoBuffer}, lost)
      /\ Distinct(delivered) /\ Distinct(processed)
  BY OwnersSplit DEF IInv
<1>3. /\ delivered' \in Seq(Buffers)
      /\ appBuffer' \in Elements(delivered) /\ appBuffer' \in Buffers
      /\ Elements(delivered') = Elements(delivered) \ {appBuffer'}
      /\ Distinct(delivered')
      /\ Len(delivered') = Len(delivered) - 1
  BY <1>1, <1>2, PopTail DEF Take, Newest
<1>4. TypeOK'
  BY <1>1, <1>3 DEF IInv, Take, TypeOK, BufferOrNone
<1>5. OneOwner'
  <2>1. Split(vdo', {newBuffer'} \ {NoBuffer}, Elements(delivered'),
              Elements(processed), {appBuffer'} \ {NoBuffer}, lost')
    BY <1>1, <1>2, <1>3 DEF Take, Split
  <2>. QED  BY <1>2, <1>3, <2>1, OwnersSplit DEF Take
<1>6. Hands'
  BY DEF IInv, Take, Hands
<1>7. BoundedBacklog'
  BY <1>1, <1>3 DEF IInv, Take, BoundedBacklog, Holding
<1>. QED  BY <1>4, <1>5, <1>6, <1>7 DEF IInv

LEMMA GetBufferInv == IInv /\ GetBuffer => IInv'
<1> SUFFICES ASSUME IInv, GetBuffer PROVE IInv'
  OBVIOUS
<1> USE FrameProviderAssumption
<1>1. newBuffer = NoBuffer
  BY DEF IInv, GetBuffer, Hands
<1>2. newBuffer' \in vdo /\ newBuffer' \in Buffers /\ vdo' = vdo \ {newBuffer'}
  BY DEF IInv, GetBuffer, TypeOK
<1>3. TypeOK'
  BY <1>2 DEF IInv, GetBuffer, TypeOK, BufferOrNone
<1>4. OneOwner'
  <2>1. /\ Split(vdo, {newBuffer} \ {NoBuffer}, Elements(delivered),
                 Elements(processed), {appBuffer} \ {NoBuffer}, lost)
        /\ Distinct(delivered) /\ Distinct(processed)
    BY OwnersSplit DEF IInv
  <2>2. Split(vdo', {newBuffer'} \ {NoBuffer}, Elements(delivered),
              Elements(processed), {appBuffer'} \ {NoBuffer}, lost')
    BY <1>1, <1>2, <2>1 DEF GetBuffer, Split
  <2>. QED  BY <2>1, <2>2, OwnersSplit DEF GetBuffer
<1>5. Hands'
  BY <1>2 DEF IInv, GetBuffer, Hands
<1>6. BoundedBacklog'
  BY DEF IInv, GetBuffer, BoundedBacklog, Holding
<1>. QED  BY <1>3, <1>4, <1>5, <1>6 DEF IInv

LEMMA DeliverInv == IInv /\ Deliver => IInv'
<1> SUFFICES ASSUME IInv, Deliver PROVE IInv'
  OBVIOUS
<1> USE FrameProviderAssumption
<1> DEFINE r == Recycling(Arrived)
<1>1. /\ newBuffer \in Buffers /\ newBuffer # NoBuffer
      /\ delivered \in Seq(Buffers) /\ processed \in Seq(Buffers)
      /\ vdo \subseteq Buffers /\ lost \subseteq Buffers
  BY DEF IInv, Deliver, Hands, TypeOK, BufferOrNone
<1>2. /\ Split(vdo, {newBuffer}, Elements(delivered),
               Elements(processed), {appBuffer} \ {NoBuffer}, lost)
      /\ Distinct(delivered) /\ Distinct(processed)
  <2>1. {newBuffer} \ {NoBuffer} = {newBuffer}
    BY <1>1
  <2>. QED  BY <2>1, OwnersSplit DEF IInv
<1>3. /\ Arrived \in Seq(Buffers)
      /\ Elements(Arrived) = Elements(delivered) \cup {newBuffer}
      /\ Distinct(Arrived)
      /\ Len(Arrived) = Len(delivered) + 1
  <2>1. newBuffer \notin Elements(delivered)
    BY <1>2 DEF Split
  <2>. QED  BY <1>1, <1>2, <2>1, PushTail DEF Arrived
<1>4. /\ delivered' = r.delivered /\ processed' = r.processed
      /\ Enqueue(r.old)
      /\ older' \subseteq older /\ behind' \subseteq behind
      /\ newBuffer' = NoBuffer /\ fetcher' = "loop"
      /\ UNCHANGED <<main, shutDown, appBuffer>>
  BY DEF Deliver
<1>5. \/ /\ vdo' = vdo \cup ({r.old} \ {NoBuffer}) /\ lost' = lost
      \/ /\ r.old # NoBuffer /\ lost' = lost \cup {r.old} /\ vdo' = vdo
  BY <1>4 DEF Enqueue
<1> HIDE DEF r
<1>6. /\ r.delivered \in Seq(Buffers) /\ r.processed \in Seq(Buffers)
      /\ r.old \in BufferOrNone
      /\ Distinct(r.delivered) /\ Distinct(r.processed)
      /\ \/ /\ r.old \in Elements(processed)
            /\ Elements(r.processed) = Elements(processed) \ {r.old}
            /\ r.delivered = Arrived
            /\ Len(r.processed) = Len(processed) - 1
         \/ /\ r.old \in Elements(Arrived)
            /\ Elements(r.delivered) = Elements(Arrived) \ {r.old}
            /\ r.processed = processed
            /\ Len(r.delivered) = Len(Arrived) - 1
         \/ /\ r.old = NoBuffer
            /\ r.delivered = Arrived /\ r.processed = processed
            /\ Len(processed) = 0 /\ Len(Arrived) <= NumAppFrames
  BY <1>2, <1>3, RecyclingResult DEF IInv, r
<1>7. TypeOK'
  <2>1. /\ vdo' \in SUBSET Buffers /\ lost' \in SUBSET Buffers
    BY <1>1, <1>5, <1>6 DEF BufferOrNone
  <2>2. older' \in SUBSET (Buffers \X Buffers) /\ behind' \in SUBSET Buffers
    BY <1>4 DEF IInv, TypeOK
  <2>. QED  BY <1>4, <1>6, <2>1, <2>2 DEF IInv, TypeOK, BufferOrNone
<1>8. OneOwner'
  <2>1. Elements(processed) \subseteq Buffers /\ Elements(Arrived) \subseteq Buffers
    BY <1>1, <1>3 DEF Elements
  <2>2. Split(vdo', {}, Elements(r.delivered), Elements(r.processed),
              {appBuffer} \ {NoBuffer}, lost')
    <3>1. CASE /\ r.old \in Elements(processed)
               /\ Elements(r.processed) = Elements(processed) \ {r.old}
               /\ r.delivered = Arrived
      BY <1>2, <1>3, <1>5, <2>1, <3>1 DEF Split
    <3>2. CASE /\ r.old \in Elements(Arrived)
               /\ Elements(r.delivered) = Elements(Arrived) \ {r.old}
               /\ r.processed = processed
      BY <1>2, <1>3, <1>5, <2>1, <3>2 DEF Split
    <3>3. CASE r.old = NoBuffer /\ r.delivered = Arrived /\ r.processed = processed
      BY <1>2, <1>3, <1>5, <3>3 DEF Split
    <3>. QED  BY <1>6, <3>1, <3>2, <3>3
  <2>3. {newBuffer'} \ {NoBuffer} = {}
    BY <1>4
  <2>4. /\ Elements(r.delivered) = Elements(delivered')
        /\ Elements(r.processed) = Elements(processed')
        /\ Distinct(delivered') /\ Distinct(processed')
    BY <1>4, <1>6
  <2>. QED  BY <1>4, <2>2, <2>3, <2>4, OwnersSplit
<1>9. Hands'
  BY <1>4 DEF IInv, Deliver, Hands
<1>10. BoundedBacklog'
  <2>1. /\ Len(delivered) \in Nat /\ Len(processed) \in Nat
        /\ Len(r.delivered) \in Nat /\ Len(r.processed) \in Nat
    BY <1>1, <1>6
  <2>2. Len(r.delivered) + Len(r.processed) + Holding <= NumAppFrames + 1
    <3>1. Holding \in {0, 1}
      BY DEF Holding
    <3>2. Len(delivered) + Len(processed) + Holding <= NumAppFrames + 1
      BY DEF IInv, BoundedBacklog
    <3>3. /\ NumAppFrames \in Nat
          /\ Len(Arrived) = Len(delivered) + 1
      BY <1>3, FrameProviderAssumption
    <3>4. \/ /\ Len(r.delivered) = Len(delivered) + 1
             /\ Len(r.processed) = Len(processed) - 1
          \/ /\ Len(r.delivered) = Len(delivered)
             /\ Len(r.processed) = Len(processed)
          \/ /\ Len(r.delivered) <= NumAppFrames
             /\ Len(r.processed) = 0
      BY <1>6, <2>1, <3>3
    <3>5. Holding \in Nat /\ Holding <= 1
      BY <3>1
    <3>6. CASE /\ Len(r.delivered) = Len(delivered) + 1
               /\ Len(r.processed) = Len(processed) - 1
      BY <2>1, <3>2, <3>3, <3>5, <3>6
    <3>7. CASE /\ Len(r.delivered) = Len(delivered)
               /\ Len(r.processed) = Len(processed)
      BY <2>1, <3>2, <3>3, <3>5, <3>7
    <3>8. CASE Len(r.delivered) <= NumAppFrames /\ Len(r.processed) = 0
      BY <2>1, <3>3, <3>5, <3>8
    <3>. QED  BY <3>4, <3>6, <3>7, <3>8
  <2>3. Holding' = Holding
    BY <1>4 DEF Holding
  <2>. QED  BY <1>4, <2>2, <2>3 DEF BoundedBacklog
<1>. QED  BY <1>7, <1>8, <1>9, <1>10 DEF IInv
-----------------------------------------------------------------------------
(* The theorems.                                                           *)

\* IInv is an invariant of the provider: of every interleaving of the main
\* thread with the fetcher, refused buffers and failed requests included.
THEOREM Invariance == Spec => []IInv
<1>1. IInv /\ [Next]_vars => IInv'
  <2> SUFFICES ASSUME IInv, [Next]_vars PROVE IInv'
    OBVIOUS
  <2>1. CASE Start
    BY <2>1, QueuesUntouched DEF Start, IInv, TypeOK, Hands, queues
  <2>2. CASE Stop
    BY <2>2, QueuesUntouched DEF Stop, IInv, TypeOK, Hands, queues
  <2>3. CASE Destroy
    BY <2>3, DestroyInv
  <2>4. CASE Capture
    BY <2>4, CaptureInv
  <2>5. CASE Take
    BY <2>5, TakeInv
  <2>6. CASE TakeFails
    BY <2>6, QueuesUntouched DEF TakeFails, IInv, TypeOK, Hands, queues
  <2>7. CASE Loop
    BY <2>7, QueuesUntouched DEF Loop, IInv, TypeOK, Hands, queues
  <2>8. CASE GetBuffer
    BY <2>8, GetBufferInv
  <2>9. CASE GetFails
    BY <2>9, QueuesUntouched DEF GetFails, IInv, TypeOK, Hands, queues
  <2>10. CASE Deliver
    BY <2>10, DeliverInv
  <2>11. CASE UNCHANGED vars
    BY <2>11, QueuesUntouched DEF vars, IInv, TypeOK, Hands, queues
  <2>. QED  BY <2>1, <2>2, <2>3, <2>4, <2>5, <2>6, <2>7, <2>8, <2>9, <2>10, <2>11 DEF Next
<1>. QED  BY InitInv, <1>1, PTL DEF Spec

\* Every variable keeps its type, for every set of buffers.
THEOREM TypeCorrect == Spec => []TypeOK
<1>1. IInv => TypeOK
  BY DEF IInv
<1>. QED  BY <1>1, Invariance, PTL

\* No buffer is ever in two places or in none: VDO does not fill a buffer the
\* application reads, and the queues never hold a buffer twice.
THEOREM BuffersHaveOneOwner == Spec => []OneOwner
<1>1. IInv => OneOwner
  BY DEF IInv
<1>. QED  BY <1>1, Invariance, PTL

\* Never more than NumAppFrames + 1 frames wait in the queues or are held, so
\* VDO always gets the other buffers back.
THEOREM BacklogIsBounded == Spec => []BoundedBacklog
<1>1. IInv => BoundedBacklog
  BY DEF IInv
<1>. QED  BY <1>1, Invariance, PTL
-----------------------------------------------------------------------------
(* A capture takes the newest frame.                                       *)

\* deliveredFrames is in fetch order and the frame in the fetcher's hand comes after it.
\* VDO has no frames.
InOrder ==
  /\ \A i, j \in DOMAIN delivered :
       i < j => <<delivered[i], delivered[j]>> \in older
  /\ newBuffer # NoBuffer =>
       \A b \in Elements(delivered) : <<b, newBuffer>> \in older
  /\ \A p \in older : p[1] \notin vdo /\ p[2] \notin vdo

LEMMA GetBufferInOrder == IInv /\ InOrder /\ GetBuffer => InOrder'
<1> SUFFICES ASSUME IInv, InOrder, GetBuffer PROVE InOrder'
  OBVIOUS
<1>1. PICK b \in vdo : newBuffer' = b /\ vdo' = vdo \ {b}
  BY DEF GetBuffer
<1>2. /\ delivered' = delivered /\ b \in Buffers
      /\ older' = older \cup (Buffers \ vdo) \X {b}
  BY <1>1 DEF GetBuffer, IInv, TypeOK, InOrder
<1>3. Elements(delivered) \subseteq Buffers \ vdo
  BY OwnersSplit DEF IInv, Split
<1>4. \A p \in older' : p[1] \notin vdo' /\ p[2] \notin vdo'
  BY <1>1, <1>2 DEF InOrder
<1>. QED  BY <1>1, <1>2, <1>3, <1>4 DEF InOrder, Elements

LEMMA TakeInOrder ==
  ASSUME IInv, InOrder, Take
  PROVE  /\ InOrder'
         /\ \A b \in Elements(delivered') : <<b, appBuffer'>> \in older
<1> DEFINE n == Len(delivered)
<1>1. /\ delivered \in Seq(Buffers) /\ delivered # <<>>
      /\ n \in Nat \ {0} /\ DOMAIN delivered = 1..n
  BY DEF IInv, TypeOK, Take
<1>2. appBuffer' = delivered[n] /\ UNCHANGED <<older, vdo, newBuffer>>
  BY DEF Take, Newest
<1>3. /\ DOMAIN delivered' = 1..n - 1
      /\ \A i \in 1..n - 1 : delivered'[i] = delivered[i] /\ delivered[i] \in Buffers
  <2>1. delivered' = SubSeq(delivered, 1, n - 1)
    BY DEF Take, Newest
  <2>. QED  BY <1>1, <2>1
<1> HIDE DEF n
<1>4. \A i \in 1..n - 1 : <<delivered[i], delivered[n]>> \in older
  BY <1>1 DEF InOrder
<1>5. \A i, j \in DOMAIN delivered' :
        i < j => <<delivered'[i], delivered'[j]>> \in older
  BY <1>1, <1>3 DEF InOrder
<1>6. newBuffer # NoBuffer => \A b \in Elements(delivered') : <<b, newBuffer>> \in older
  BY <1>1, <1>3 DEF InOrder, Elements
<1>7. InOrder'
  BY <1>2, <1>5, <1>6 DEF InOrder, Elements
<1>8. \A b \in Elements(delivered') : <<b, appBuffer'>> \in older
  BY <1>2, <1>3, <1>4 DEF Elements
<1>. QED  BY <1>7, <1>8

\* The queue with the new frame is in order, so is what the recycling leaves of it, and
\* the pairs that are dropped are those of the buffer that left.
LEMMA DeliverInOrder == IInv /\ IInv' /\ InOrder /\ Deliver => InOrder'
<1> SUFFICES ASSUME IInv, IInv', InOrder, Deliver PROVE InOrder'
  OBVIOUS
<1> DEFINE r == Recycling(Arrived)
           n == Len(delivered)
<1>1. /\ newBuffer \in Buffers /\ newBuffer # NoBuffer
      /\ delivered \in Seq(Buffers) /\ n \in Nat /\ DOMAIN delivered = 1..n
  BY DEF IInv, Deliver, Hands, TypeOK, BufferOrNone
<1>2. /\ delivered' = r.delivered /\ Enqueue(r.old) /\ newBuffer' = NoBuffer
      /\ older' = {p \in older : r.old \notin {p[1], p[2]}}
  BY DEF Deliver
<1>3. /\ DOMAIN Arrived = 1..n + 1 /\ Arrived \in Seq(Buffers)
      /\ \A i \in 1..n : Arrived[i] = delivered[i]
      /\ Arrived[n + 1] = newBuffer
  BY <1>1 DEF Arrived
<1>4. \A i, j \in 1..n + 1 : i < j => <<Arrived[i], Arrived[j]>> \in older
  <2> TAKE i, j \in 1..n + 1
  <2> HAVE i < j
  <2>1. i \in 1..n /\ Arrived[i] \in Elements(delivered)
    BY <1>1, <1>3 DEF Elements
  <2>2. CASE j = n + 1
    BY <1>1, <1>3, <2>1, <2>2 DEF InOrder
  <2>3. CASE j \in 1..n
    BY <1>1, <1>3, <2>1, <2>3 DEF InOrder
  <2>. QED  BY <1>1, <2>2, <2>3
<1>5. r.delivered \in {Arrived, Tail(Arrived)}
  BY DEF Recycling
<1> HIDE DEF r, n
<1>6. \A i, j \in DOMAIN delivered' :
        i < j => <<delivered'[i], delivered'[j]>> \in older
  <2>1. CASE r.delivered = Arrived
    BY <1>2, <1>3, <1>4, <2>1
  <2>2. CASE r.delivered = Tail(Arrived)
    <3>1. /\ DOMAIN delivered' = 1..n
          /\ \A i \in 1..n : delivered'[i] = Arrived[i + 1]
      BY <1>1, <1>2, <1>3, <2>2
    <3>2. ASSUME NEW i \in 1..n, NEW j \in 1..n, i < j
          PROVE  i + 1 \in 1..n + 1 /\ j + 1 \in 1..n + 1 /\ i + 1 < j + 1
      BY <1>1, <3>2
    <3>. QED  BY <1>4, <3>1, <3>2
  <2>. QED  BY <1>5, <2>1, <2>2
<1>7. r.old \notin Elements(delivered')
  <2>1. Split(vdo', {newBuffer'} \ {NoBuffer}, Elements(delivered'),
              Elements(processed'), {appBuffer'} \ {NoBuffer}, lost')
    BY OwnersSplit DEF IInv
  <2>2. r.old \in vdo' \cup lost' \cup {NoBuffer}
    BY <1>2 DEF Enqueue
  <2>3. Elements(delivered') \subseteq Buffers
    BY DEF IInv, TypeOK, Elements
  <2>. QED  BY <2>1, <2>2, <2>3, FrameProviderAssumption DEF Split
<1>8. \A p \in older' : p[1] \notin vdo' /\ p[2] \notin vdo'
  BY <1>2 DEF InOrder, Enqueue
<1>. QED  BY <1>2, <1>6, <1>7, <1>8 DEF InOrder, Elements

\* InOrder is kept by every step.
LEMMA InOrderKept == IInv /\ IInv' /\ InOrder /\ [Next]_vars => InOrder'
<1> SUFFICES ASSUME IInv, IInv', InOrder, [Next]_vars PROVE InOrder'
  OBVIOUS
<1>1. CASE UNCHANGED <<vdo, newBuffer, delivered, history>>
  BY <1>1 DEF InOrder, history, Elements
<1>2. CASE Destroy
  BY <1>2 DEF Destroy, InOrder, Elements
<1>3. CASE Take
  BY <1>3, TakeInOrder
<1>4. CASE GetBuffer
  BY <1>4, GetBufferInOrder
<1>5. CASE Deliver
  BY <1>5, DeliverInOrder
<1>. QED  BY <1>1, <1>2, <1>3, <1>4, <1>5
          DEF Next, Start, Stop, Capture, TakeFails, Loop, GetFails, vars, queues

\* What a capture returns is newer than all that stays in the queue (getLastFrameBlocking,
\* imgprovider.c:470).
THEOREM CapturesTakeTheNewest == Spec => TakesTheNewest
<1>1. Init => InOrder
  BY DEF Init, InOrder, Elements
<1>2. IInv /\ InOrder /\ [Next]_vars
        => [main = "taking" /\ appBuffer' # NoBuffer
              => \A b \in Elements(delivered') : <<b, appBuffer'>> \in older]_vars
  <2> SUFFICES ASSUME IInv, InOrder, Next, main = "taking", appBuffer' # NoBuffer
               PROVE  \A b \in Elements(delivered') : <<b, appBuffer'>> \in older
    OBVIOUS
  <2>1. Take
    BY DEF Next, IInv, Hands, Start, Stop, Destroy, Capture, TakeFails, Loop, GetBuffer,
           GetFails, Deliver, queues
  <2>. QED  BY <2>1, TakeInOrder
<1>. QED  BY <1>1, <1>2, InOrderKept, Invariance, PTL DEF Spec, TakesTheNewest
-----------------------------------------------------------------------------
(* The provider keeps the promise of BufferPool.                           *)

\* A queue holds no more buffers than it is long.
LEMMA ElementsBound ==
  ASSUME NEW S, NEW q \in Seq(S)
  PROVE  IsFiniteSet(Elements(q)) /\ Cardinality(Elements(q)) <= Len(q)
         /\ Cardinality(Elements(q)) \in Nat
<1>1. /\ Len(q) \in Nat /\ DOMAIN q = 1..Len(q)
  OBVIOUS
<1>2. IsFiniteSet(1..Len(q)) /\ Cardinality(1..Len(q)) = Len(q)
  BY <1>1, FS_Interval
<1> DEFINE f == [i \in 1..Len(q) |-> q[i]]
<1>3. f \in Surjection(1..Len(q), Elements(q))
  BY <1>1 DEF Surjection, Elements
<1> HIDE DEF f
<1>. QED  BY <1>2, <1>3, FS_Surjection, FS_CardinalityType

LEMMA UnionBound ==
  ASSUME NEW S, NEW T, IsFiniteSet(S), IsFiniteSet(T)
  PROVE  /\ IsFiniteSet(S \cup T) /\ Cardinality(S \cup T) \in Nat
         /\ Cardinality(S \cup T) <= Cardinality(S) + Cardinality(T)
<1>1. S \cap T \in SUBSET S
  OBVIOUS
<1>2. Cardinality(S \cap T) \in Nat
  BY <1>1, FS_Subset, FS_CardinalityType
<1>3. /\ IsFiniteSet(S \cup T)
      /\ Cardinality(S \cup T) = Cardinality(S) + Cardinality(T) - Cardinality(S \cap T)
  BY FS_Union
<1>4. Cardinality(S) \in Nat /\ Cardinality(T) \in Nat /\ Cardinality(S \cup T) \in Nat
  BY <1>3, FS_CardinalityType
<1>. QED  BY <1>2, <1>3, <1>4

\* Owner names the place a buffer is in.
OwnerIsPlace ==
  \A b \in Buffers :
    /\ Owner[b] = "vdo" <=> b \in vdo
    /\ Owner[b] = "lost" <=> b \in lost
    /\ Owner[b] = "app" <=> b = appBuffer
    /\ Owner[b] = "provider" <=> \/ b = newBuffer \/ b \in Elements(delivered)
                                 \/ b \in Elements(processed)

LEMMA OwnerOf == IInv => OwnerIsPlace
<1> SUFFICES ASSUME IInv, NEW b \in Buffers
             PROVE  /\ Owner[b] = "vdo" <=> b \in vdo
                    /\ Owner[b] = "lost" <=> b \in lost
                    /\ Owner[b] = "app" <=> b = appBuffer
                    /\ Owner[b] = "provider" <=> \/ b = newBuffer \/ b \in Elements(delivered)
                                                 \/ b \in Elements(processed)
  BY DEF OwnerIsPlace
<1>1. Split(vdo, {newBuffer} \ {NoBuffer}, Elements(delivered),
            Elements(processed), {appBuffer} \ {NoBuffer}, lost)
  BY OwnersSplit DEF IInv
<1>2. b # NoBuffer
  BY FrameProviderAssumption
<1>3. b \in {newBuffer} \ {NoBuffer} <=> b = newBuffer
  BY <1>2
<1>4. b \in {appBuffer} \ {NoBuffer} <=> b = appBuffer
  BY <1>2
<1>5. Owner[b] = IF b \in vdo THEN "vdo" ELSE IF b \in lost THEN "lost"
                 ELSE IF b = appBuffer THEN "app" ELSE "provider"
  BY DEF Owner
<1>. QED  BY <1>1, <1>3, <1>4, <1>5 DEF Split

\* Who owns a buffer, before and after a step.
LEMMA OwnerFacts ==
  ASSUME IInv, IInv'
  PROVE  /\ OwnerIsPlace /\ OwnerIsPlace'
         /\ DOMAIN Owner = Buffers /\ DOMAIN Owner' = Buffers
         /\ Owner = [b \in Buffers |-> Owner[b]] /\ Owner' = [b \in Buffers |-> Owner'[b]]
         /\ \A b \in Buffers : Owner[b] \in Pool!Owners /\ Owner'[b] \in Pool!Owners
<1>1. IInv' => OwnerIsPlace'
  BY OwnerOf, PTL
<1>. QED  BY <1>1, OwnerOf DEF Owner, Pool!Owners

\* One buffer changes hands.
LEMMA Moves ==
  ASSUME IInv, IInv', NEW b \in Buffers, NEW from, NEW to,
         Owner[b] = from, Owner'[b] = to,
         \A c \in Buffers \ {b} : Owner'[c] = Owner[c]
  PROVE  Pool!Move(b, from, to)
<1>1. Owner' = [Owner EXCEPT ![b] = to]
  BY OwnerFacts
<1>. QED  BY <1>1 DEF Pool!Move

LEMMA SameOwners ==
  ASSUME IInv, IInv', \A c \in Buffers : Owner'[c] = Owner[c]
  PROVE  Owner' = Owner
BY OwnerFacts

\* Owners are told apart by where the buffer is.
LEMMA SamePlace ==
  ASSUME IInv, IInv', NEW c \in Buffers,
         c \in vdo' <=> c \in vdo, c \in lost' <=> c \in lost,
         c = appBuffer' <=> c = appBuffer
  PROVE  Owner'[c] = Owner[c]
BY DEF Owner

\* BufferPool counts with the same Cardinality.
LEMMA SameCardinality == \A S : Pool!Cardinality(S) = Cardinality(S)
BY DEF Pool!Cardinality, Cardinality

\* When the fetcher asks for a frame the backlog leaves room for it.
LEMMA RoomForOne ==
  ASSUME IInv, newBuffer = NoBuffer
  PROVE  Cardinality(Pool!Kept) < NumAppFrames + 2
<1> DEFINE A == {appBuffer} \ {NoBuffer}
           D == Elements(delivered)
           P == Elements(processed)
<1>1. Pool!Kept \subseteq D \cup P \cup A
  BY OwnerOf, FrameProviderAssumption DEF Pool!Kept, Pool!OwnedBy, OwnerIsPlace
<1>2. /\ IsFiniteSet(A) /\ Cardinality(A) <= Holding /\ Cardinality(A) \in Nat
      /\ Holding \in {0, 1}
  <2>1. CASE appBuffer = NoBuffer
    BY <2>1, FS_EmptySet DEF Holding
  <2>2. CASE appBuffer # NoBuffer
    <3>1. A = {appBuffer}
      BY <2>2
    <3>. QED  BY <2>2, <3>1, FS_Singleton DEF Holding
  <2>. QED  BY <2>1, <2>2
<1>3. /\ IsFiniteSet(D) /\ Cardinality(D) <= Len(delivered) /\ Cardinality(D) \in Nat
      /\ IsFiniteSet(P) /\ Cardinality(P) <= Len(processed) /\ Cardinality(P) \in Nat
      /\ Len(delivered) \in Nat /\ Len(processed) \in Nat
  BY ElementsBound DEF IInv, TypeOK
<1>4. Len(delivered) + Len(processed) + Holding <= NumAppFrames + 1
  BY DEF IInv, BoundedBacklog
<1> HIDE DEF A, D, P
<1>5. /\ IsFiniteSet(D \cup P) /\ Cardinality(D \cup P) <= Cardinality(D) + Cardinality(P)
      /\ Cardinality(D \cup P) \in Nat
  BY <1>3, UnionBound
<1>6. /\ IsFiniteSet(D \cup P \cup A)
      /\ Cardinality(D \cup P \cup A) <= Cardinality(D \cup P) + Cardinality(A)
      /\ Cardinality(D \cup P \cup A) \in Nat
  BY <1>2, <1>5, UnionBound
<1>7. /\ Cardinality(Pool!Kept) <= Cardinality(D \cup P \cup A)
      /\ Cardinality(Pool!Kept) \in Nat
  BY <1>1, <1>6, FS_Subset, FS_CardinalityType
<1>. QED  BY <1>2, <1>3, <1>4, <1>5, <1>6, <1>7, FrameProviderAssumption

LEMMA GetBufferFills == IInv /\ IInv' /\ GetBuffer => \E b \in Buffers : Pool!Fill(b)
<1> SUFFICES ASSUME IInv, IInv', GetBuffer PROVE \E b \in Buffers : Pool!Fill(b)
  OBVIOUS
<1>1. PICK b \in vdo : newBuffer' = b /\ vdo' = vdo \ {b}
  BY DEF GetBuffer
<1>2. b \in Buffers /\ newBuffer = NoBuffer
  BY DEF IInv, TypeOK, Hands, GetBuffer
<1>3. Owner[b] = "vdo" /\ Owner'[b] = "provider"
  BY <1>1, <1>2, OwnerFacts DEF OwnerIsPlace
<1>4. \A c \in Buffers \ {b} : Owner'[c] = Owner[c]
  BY <1>1, SamePlace DEF GetBuffer
<1>5. Pool!Fill(b)
  BY <1>2, <1>3, <1>4, Moves, RoomForOne, SameCardinality DEF Pool!Fill
<1>. QED  BY <1>2, <1>5

LEMMA TakeLends == IInv /\ IInv' /\ Take => \E b \in Buffers : Pool!Lend(b)
<1> SUFFICES ASSUME IInv, IInv', Take PROVE \E b \in Buffers : Pool!Lend(b)
  OBVIOUS
<1>1. /\ appBuffer = NoBuffer /\ appBuffer' \in Elements(delivered) /\ appBuffer' \in Buffers
  BY PopTail, OwnersSplit DEF IInv, Take, Hands, TypeOK, Newest
<1>2. Owner[appBuffer'] = "provider" /\ Owner'[appBuffer'] = "app"
  BY <1>1, OwnerFacts DEF OwnerIsPlace
<1>3. \A c \in Buffers \ {appBuffer'} : Owner'[c] = Owner[c]
  BY <1>1, SamePlace, FrameProviderAssumption DEF Take
<1>4. Pool!OwnedBy("app") = {}
  BY <1>1, OwnerOf, FrameProviderAssumption DEF Pool!OwnedBy, OwnerIsPlace
<1>5. Pool!Lend(appBuffer')
  BY <1>1, <1>2, <1>3, <1>4, Moves DEF Pool!Lend
<1>. QED  BY <1>1, <1>5

LEMMA CaptureGivesBack ==
  IInv /\ IInv' /\ Capture => Owner' = Owner \/ \E b \in Buffers : Pool!GiveBack(b)
<1> SUFFICES ASSUME IInv, IInv', Capture
             PROVE  Owner' = Owner \/ \E b \in Buffers : Pool!GiveBack(b)
  OBVIOUS
<1>1. /\ appBuffer' = NoBuffer /\ UNCHANGED <<vdo, lost>> /\ appBuffer \in Buffers \cup {NoBuffer}
  BY DEF Capture, IInv, TypeOK, BufferOrNone
<1>2. CASE appBuffer = NoBuffer
  BY <1>1, <1>2, SamePlace, SameOwners
<1>3. CASE appBuffer \in Buffers
  <2>1. Owner[appBuffer] = "app"
    BY <1>3, OwnerFacts DEF OwnerIsPlace
  <2>2. Owner'[appBuffer] = "provider"
    <3>1. /\ Owner'[appBuffer] # "vdo" /\ Owner'[appBuffer] # "lost"
          /\ Owner'[appBuffer] # "app"
      BY <1>1, <1>3, <2>1, OwnerFacts, FrameProviderAssumption DEF OwnerIsPlace
    <3>. QED  BY <1>3, <3>1, OwnerFacts DEF Pool!Owners
  <2>3. \A c \in Buffers \ {appBuffer} : Owner'[c] = Owner[c]
    BY <1>1, SamePlace, FrameProviderAssumption
  <2>4. Pool!GiveBack(appBuffer)
    BY <1>3, <2>1, <2>2, <2>3, Moves DEF Pool!GiveBack
  <2>. QED  BY <1>3, <2>4
<1>. QED  BY <1>1, <1>2, <1>3

\* The new frame stays with the provider, and one buffer at most leaves it.
LEMMA DeliverRecycles ==
  IInv /\ IInv' /\ Deliver
    => Owner' = Owner \/ \E b \in Buffers : Pool!Recycle(b) \/ Pool!Lose(b)
<1> SUFFICES ASSUME IInv, IInv', Deliver
             PROVE  Owner' = Owner \/ \E b \in Buffers : Pool!Recycle(b) \/ Pool!Lose(b)
  OBVIOUS
<1> DEFINE r == Recycling(Arrived)
<1>1. /\ newBuffer \in Buffers /\ newBuffer # NoBuffer
      /\ delivered \in Seq(Buffers) /\ processed \in Seq(Buffers)
  BY DEF IInv, Deliver, Hands, TypeOK, BufferOrNone
<1>2. /\ Split(vdo, {newBuffer} \ {NoBuffer}, Elements(delivered),
               Elements(processed), {appBuffer} \ {NoBuffer}, lost)
      /\ Distinct(delivered) /\ Distinct(processed)
  BY OwnersSplit DEF IInv
<1>3. /\ Arrived \in Seq(Buffers) /\ Distinct(Arrived)
      /\ Elements(Arrived) = Elements(delivered) \cup {newBuffer}
  <2>1. newBuffer \notin Elements(delivered)
    BY <1>1, <1>2 DEF Split
  <2>. QED  BY <1>1, <1>2, <2>1, PushTail DEF Arrived
<1>4. r.old \in Elements(processed) \cup Elements(Arrived) \cup {NoBuffer}
  BY <1>2, <1>3, RecyclingResult DEF IInv
<1>5. Enqueue(r.old) /\ appBuffer' = appBuffer
  BY DEF Deliver
<1> HIDE DEF r
<1>6. CASE r.old = NoBuffer
  BY <1>5, <1>6, SamePlace, SameOwners DEF Enqueue
<1>7. CASE r.old # NoBuffer
  <2>1. r.old \in Buffers /\ Owner[r.old] = "provider"
    <3>1. r.old = newBuffer \/ r.old \in Elements(delivered) \/ r.old \in Elements(processed)
      BY <1>3, <1>4, <1>7
    <3>2. r.old \in Buffers
      BY <1>1, <3>1 DEF Elements
    <3>. QED  BY <3>1, <3>2, OwnerOf DEF OwnerIsPlace
  <2>2. \A c \in Buffers \ {r.old} : Owner'[c] = Owner[c]
    BY <1>5, SamePlace DEF Enqueue
  <2>3. Owner'[r.old] = "vdo" \/ Owner'[r.old] = "lost"
    BY <1>5, <1>7, <2>1, OwnerFacts DEF Enqueue, OwnerIsPlace
  <2>4. Pool!Recycle(r.old) \/ Pool!Lose(r.old)
    BY <2>1, <2>2, <2>3, Moves DEF Pool!Recycle, Pool!Lose
  <2>. QED  BY <2>1, <2>4
<1>. QED  BY <1>6, <1>7

LEMMA DestroyResets == IInv /\ IInv' /\ Destroy => Pool!Reset
BY FrameProviderAssumption DEF Destroy, Owner, Pool!Reset

\* The provider, whatever its queues and threads do in between, treats every buffer as
\* BufferPool says: from VDO to the provider, to the application, back and to VDO again,
\* never two with the application, and never fewer than all but NumAppFrames + 2 with VDO.
THEOREM ProviderIsPool == Spec => PoolSpec
<1>1. Init => Pool!Init
  BY DEF Init, Owner, Pool!Init
<1>2. IInv /\ IInv' /\ [Next]_vars => [Pool!Next]_Owner
  <2> SUFFICES ASSUME IInv, IInv', [Next]_vars PROVE Pool!Next \/ Owner' = Owner
    OBVIOUS
  <2>1. CASE UNCHANGED <<vdo, appBuffer, lost>>
    BY <2>1, SamePlace, SameOwners
  <2>2. CASE Destroy
    BY <2>2, DestroyResets DEF Pool!Next
  <2>3. CASE Capture
    BY <2>3, CaptureGivesBack DEF Pool!Next
  <2>4. CASE Take
    BY <2>4, TakeLends DEF Pool!Next
  <2>5. CASE GetBuffer
    BY <2>5, GetBufferFills DEF Pool!Next
  <2>6. CASE Deliver
    BY <2>6, DeliverRecycles DEF Pool!Next
  <2>. QED  BY <2>1, <2>2, <2>3, <2>4, <2>5, <2>6
            DEF Next, Start, Stop, TakeFails, Loop, GetFails, vars, queues
<1>. QED  BY <1>1, <1>2, Invariance, PTL DEF Spec, PoolSpec, Pool!Spec
=============================================================================
