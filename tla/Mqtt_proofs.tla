------------------------------ MODULE Mqtt_proofs ------------------------------
(***************************************************************************)
(* Presence and settings of the MQTT client, for every set of addresses and *)
(* prefixes, whatever topics these give the presence and the last will, and *)
(* any number of losses, requests, crashes and failures.                   *)
(***************************************************************************)
EXTENDS Mqtt, TLAPS

\* Only a client whose settings are being replaced is for another broker; one for another
\* scheme is left by a request that changed tls and made no client.
ClientIsForSettings ==
  client # None /\ ~unsaved /\ http \notin {"drop", "destroy"} =>
    client.broker = settings.broker /\ (client.tls = settings.tls \/ recast)

\* The topic of the session, and that nobody has taken the presence on it back.
Topic == <<session.broker, session.will>>
Open == session # None /\ retained[Topic] = Connected /\ Topic \notin excused

\* A presence is open only on the topic that a goodbye is said on, before it is said, and not
\* once the connection is being closed.
GoodbyeIsDue ==
  /\ link = "up" /\ Open =>
       /\ session.will = FullTopic[settings.prefix]
       /\ http # "disconnect" /\ process \notin {"cleanup", "waiting"}
  /\ link = "closing" => ~Open

IInv == TypeOK /\ ClientIsForSettings /\ PresenceIsHonest /\ GoodbyeIsDue

\* None is no client and no session, and the two presences differ.
LEMMA Distinct ==
  /\ None \notin [broker : Brokers, tls : BOOLEAN] /\ None \notin [broker : Brokers, will : Names]
  /\ \A p \in Prefixes : FullTopic[p] \in Names /\ LastWillTopic[p] \in Names
  /\ None # Connected /\ Connected # Gone /\ MaxEvents \in Nat
BY MqttAssumption

\* The library and the broker take a step.
LEMMA LibraryKeeps == ASSUME IInv, LinkUp \/ LinkFails \/ LinkLost \/ Closed \/ BrokerNotices \/ OnConnect PROVE IInv'
<1>. USE DEF IInv
<1>1. CASE LinkUp
  <2>1. TypeOK'
    <3>1. Typed'
      BY <1>1, Distinct DEF TypeOK, Typed, Topics, Presence, LinkUp, WillOf, paho, broker,
         Settings, histories
    <3>2. Flags'
      BY <1>1, Distinct DEF TypeOK, Typed, Flags, LinkUp, WillOf, paho, broker, Settings,
         histories
    <3>. QED  BY <3>1, <3>2 DEF TypeOK
  <2>2. ClientIsForSettings'
    BY <1>1, Distinct DEF TypeOK, Typed, ClientIsForSettings, LinkUp, WillOf, paho, broker,
       Settings, histories
  <2>3. PresenceIsHonest'
    BY <1>1, Distinct DEF TypeOK, Typed, PresenceIsHonest, GoodbyeIsDue, Open, Topic,
       Topics, LinkUp, WillOf, paho, broker, Settings, histories
  <2>4. GoodbyeIsDue'
    BY <1>1, Distinct DEF TypeOK, Typed, PresenceIsHonest, GoodbyeIsDue, Open, Topic,
       Topics, LinkUp, WillOf, paho, broker, Settings, histories
  <2>. QED  BY <2>1, <2>2, <2>3, <2>4
<1>2. CASE LinkFails \/ LinkLost
  <2>1. TypeOK'
    <3>1. Typed'
      BY <1>2, Distinct DEF TypeOK, Typed, Topics, Presence, LinkFails, LinkLost, Happens,
         paho, broker, Settings, histories
    <3>2. Flags'
      BY <1>2, Distinct DEF TypeOK, Typed, Flags, LinkFails, LinkLost, Happens, paho,
         broker, Settings, histories
    <3>. QED  BY <3>1, <3>2 DEF TypeOK
  <2>2. ClientIsForSettings'
    BY <1>2, Distinct DEF TypeOK, Typed, ClientIsForSettings, LinkFails, LinkLost, Happens,
       paho, broker, Settings, histories
  <2>3. PresenceIsHonest'
    BY <1>2, Distinct DEF TypeOK, Typed, PresenceIsHonest, GoodbyeIsDue, Open, Topic,
       Topics, LinkFails, LinkLost, Happens, paho, broker, Settings, histories
  <2>4. GoodbyeIsDue'
    BY <1>2, Distinct DEF TypeOK, Typed, PresenceIsHonest, GoodbyeIsDue, Open, Topic,
       Topics, LinkFails, LinkLost, Happens, paho, broker, Settings, histories
  <2>. QED  BY <2>1, <2>2, <2>3, <2>4
<1>3. CASE Closed
  <2>1. TypeOK'
    <3>1. Typed'
      BY <1>3, Distinct DEF TypeOK, Typed, Topics, Presence, Closed, paho, broker,
         Settings, histories
    <3>2. Flags'
      BY <1>3, Distinct DEF TypeOK, Typed, Flags, Closed, paho, broker, Settings, histories
    <3>. QED  BY <3>1, <3>2 DEF TypeOK
  <2>2. ClientIsForSettings'
    BY <1>3, Distinct DEF TypeOK, Typed, ClientIsForSettings, Closed, paho, broker,
       Settings, histories
  <2>3. PresenceIsHonest'
    BY <1>3, Distinct DEF TypeOK, Typed, PresenceIsHonest, GoodbyeIsDue, Open, Topic,
       Topics, Closed, paho, broker, Settings, histories
  <2>4. GoodbyeIsDue'
    BY <1>3, Distinct DEF TypeOK, Typed, PresenceIsHonest, GoodbyeIsDue, Open, Topic,
       Topics, Closed, paho, broker, Settings, histories
  <2>. QED  BY <2>1, <2>2, <2>3, <2>4
<1>4. CASE BrokerNotices
  <2>1. TypeOK'
    <3>1. Typed'
      BY <1>4, Distinct DEF TypeOK, Typed, Topics, Presence, BrokerNotices, WillOf, paho,
         broker, Settings, histories
    <3>2. Flags'
      BY <1>4, Distinct DEF TypeOK, Typed, Flags, BrokerNotices, WillOf, paho, broker,
         Settings, histories
    <3>. QED  BY <3>1, <3>2 DEF TypeOK
  <2>2. ClientIsForSettings'
    BY <1>4, Distinct DEF TypeOK, Typed, ClientIsForSettings, BrokerNotices, WillOf, paho,
       broker, Settings, histories
  <2>3. PresenceIsHonest'
    BY <1>4, Distinct DEF TypeOK, Typed, PresenceIsHonest, GoodbyeIsDue, Open, Topic,
       Topics, BrokerNotices, WillOf, paho, broker, Settings, histories
  <2>4. GoodbyeIsDue'
    BY <1>4, Distinct DEF TypeOK, Typed, PresenceIsHonest, GoodbyeIsDue, Open, Topic,
       Topics, BrokerNotices, WillOf, paho, broker, Settings, histories
  <2>. QED  BY <2>1, <2>2, <2>3, <2>4
<1>5. CASE OnConnect
  <2>1. TypeOK'
    <3>1. Typed'
      BY <1>5, Distinct DEF TypeOK, Typed, Topics, Presence, OnConnect, IsConnected, paho,
         broker, Settings, histories, Here
    <3>2. Flags'
      BY <1>5, Distinct DEF TypeOK, Typed, Flags, OnConnect, IsConnected, paho, broker,
         Settings, histories, Here
    <3>. QED  BY <3>1, <3>2 DEF TypeOK
  <2>2. ClientIsForSettings'
    BY <1>5, Distinct DEF TypeOK, Typed, ClientIsForSettings, OnConnect, IsConnected, paho,
       broker, Settings, histories, Here
  <2>3. PresenceIsHonest'
    BY <1>5, Distinct DEF TypeOK, Typed, PresenceIsHonest, GoodbyeIsDue, Open, Topic,
       Topics, OnConnect, IsConnected, paho, broker, Settings, histories, Here
  <2>4. GoodbyeIsDue'
    BY <1>5, Distinct DEF TypeOK, Typed, PresenceIsHonest, GoodbyeIsDue, Open, Topic,
       Topics, OnConnect, IsConnected, paho, broker, Settings, histories, Here
  <2>. QED  BY <2>1, <2>2, <2>3, <2>4
<1>. QED  BY <1>1, <1>2, <1>3, <1>4, <1>5

\* The process starts and ends.
LEMMA ProcessKeeps == ASSUME IInv, Start \/ Stop \/ Crash \/ Ending PROVE IInv'
<1>. USE DEF IInv
<1>1. CASE Start
  <2>1. TypeOK'
    <3>1. Typed'
      BY <1>1, Distinct DEF TypeOK, Typed, Topics, Presence, Start, Connect, Happens, paho,
         broker, Settings, histories, Uri
    <3>2. Flags'
      <4>1. answered' = answered \/ answered' = FALSE
        BY <1>1 DEF Start, Connect
      <4>2. unsaved' = FALSE /\ recast' = FALSE
        BY <1>1 DEF Start
      <4>3. answered = FALSE
        BY <1>1 DEF Start, TypeOK, Typed, Flags
      <4>. QED  BY <4>1, <4>2, <4>3 DEF Flags
    <3>. QED  BY <3>1, <3>2 DEF TypeOK
  <2>2. ClientIsForSettings'
    BY <1>1, Distinct DEF TypeOK, Typed, ClientIsForSettings, Start, Connect, Happens,
       paho, broker, Settings, histories, Uri
  <2>3. PresenceIsHonest'
    BY <1>1, Distinct DEF TypeOK, Typed, PresenceIsHonest, GoodbyeIsDue, Open, Topic,
       Topics, Start, Connect, Happens, paho, broker, Settings, histories, Uri
  <2>4. GoodbyeIsDue'
    BY <1>1, Distinct DEF TypeOK, Typed, PresenceIsHonest, GoodbyeIsDue, Open, Topic,
       Topics, Start, Connect, Happens, paho, broker, Settings, histories, Uri
  <2>. QED  BY <2>1, <2>2, <2>3, <2>4
<1>2. CASE Stop
  <2>1. TypeOK'
    <3>1. Typed'
      BY <1>2, Distinct DEF TypeOK, Typed, Topics, Presence, Stop, Happens, paho, broker,
         Settings, histories
    <3>2. Flags'
      BY <1>2, Distinct DEF TypeOK, Typed, Flags, Stop, Happens, paho, broker, Settings,
         histories
    <3>. QED  BY <3>1, <3>2 DEF TypeOK
  <2>2. ClientIsForSettings'
    BY <1>2, Distinct DEF TypeOK, Typed, ClientIsForSettings, Stop, Happens, paho, broker,
       Settings, histories
  <2>3. PresenceIsHonest'
    BY <1>2, Distinct DEF TypeOK, Typed, PresenceIsHonest, GoodbyeIsDue, Open, Topic,
       Topics, Stop, Happens, paho, broker, Settings, histories
  <2>4. GoodbyeIsDue'
    BY <1>2, Distinct DEF TypeOK, Typed, PresenceIsHonest, GoodbyeIsDue, Open, Topic,
       Topics, Stop, Happens, paho, broker, Settings, histories
  <2>. QED  BY <2>1, <2>2, <2>3, <2>4
<1>3. CASE SayGoodbye
  <2>1. TypeOK'
    <3>1. Typed'
      BY <1>3, Distinct DEF TypeOK, Typed, Topics, Presence, SayGoodbye, Goodbye,
         IsConnected, paho, broker, Settings, histories, Here
    <3>2. Flags'
      BY <1>3, Distinct DEF TypeOK, Typed, Flags, SayGoodbye, Goodbye, IsConnected, paho,
         broker, Settings, histories, Here
    <3>. QED  BY <3>1, <3>2 DEF TypeOK
  <2>2. ClientIsForSettings'
    BY <1>3, Distinct DEF TypeOK, Typed, ClientIsForSettings, SayGoodbye, Goodbye,
       IsConnected, paho, broker, Settings, histories, Here
  <2>3. PresenceIsHonest'
    BY <1>3, Distinct DEF TypeOK, Typed, PresenceIsHonest, GoodbyeIsDue, Open, Topic,
       Topics, SayGoodbye, Goodbye, IsConnected, paho, broker, Settings, histories, Here
  <2>4. GoodbyeIsDue'
    BY <1>3, Distinct DEF TypeOK, Typed, PresenceIsHonest, GoodbyeIsDue, Open, Topic,
       Topics, SayGoodbye, Goodbye, IsConnected, paho, broker, Settings, histories, Here
  <2>. QED  BY <2>1, <2>2, <2>3, <2>4
<1>4. CASE CleanupConnected
  <2>1. TypeOK'
    <3>1. Typed'
      BY <1>4, Distinct DEF TypeOK, Typed, Topics, Presence, CleanupConnected, Disconnect,
         IsConnected, paho, broker, Settings, histories
    <3>2. Flags'
      BY <1>4, Distinct DEF TypeOK, Typed, Flags, CleanupConnected, Disconnect,
         IsConnected, paho, broker, Settings, histories
    <3>. QED  BY <3>1, <3>2 DEF TypeOK
  <2>2. ClientIsForSettings'
    BY <1>4, Distinct DEF TypeOK, Typed, ClientIsForSettings, CleanupConnected, Disconnect,
       IsConnected, paho, broker, Settings, histories
  <2>3. PresenceIsHonest'
    BY <1>4, Distinct DEF TypeOK, Typed, PresenceIsHonest, GoodbyeIsDue, Open, Topic,
       Topics, CleanupConnected, Disconnect, IsConnected, paho, broker, Settings, histories
  <2>4. GoodbyeIsDue'
    BY <1>4, Distinct DEF TypeOK, Typed, PresenceIsHonest, GoodbyeIsDue, Open, Topic,
       Topics, CleanupConnected, Disconnect, IsConnected, paho, broker, Settings, histories
  <2>. QED  BY <2>1, <2>2, <2>3, <2>4
<1>5. CASE CleanupIdle \/ CleanupWaited \/ Crash
  <2>1. TypeOK'
    <3>1. Typed'
      BY <1>5, Distinct DEF TypeOK, Typed, Topics, Presence, CleanupIdle, CleanupWaited,
         Crash, Ended, Happens, IsConnected, paho, broker, Settings, histories
    <3>2. Flags'
      BY <1>5, Distinct DEF TypeOK, Typed, Flags, CleanupIdle, CleanupWaited, Crash, Ended,
         Happens, IsConnected, paho, broker, Settings, histories
    <3>. QED  BY <3>1, <3>2 DEF TypeOK
  <2>2. ClientIsForSettings'
    BY <1>5, Distinct DEF TypeOK, Typed, ClientIsForSettings, CleanupIdle, CleanupWaited,
       Crash, Ended, Happens, IsConnected, paho, broker, Settings, histories
  <2>3. PresenceIsHonest'
    BY <1>5, Distinct DEF TypeOK, Typed, PresenceIsHonest, GoodbyeIsDue, Open, Topic,
       Topics, CleanupIdle, CleanupWaited, Crash, Ended, Happens, IsConnected, paho,
       broker, Settings, histories
  <2>4. GoodbyeIsDue'
    BY <1>5, Distinct DEF TypeOK, Typed, PresenceIsHonest, GoodbyeIsDue, Open, Topic,
       Topics, CleanupIdle, CleanupWaited, Crash, Ended, Happens, IsConnected, paho,
       broker, Settings, histories
  <2>. QED  BY <2>1, <2>2, <2>3, <2>4
<1>. QED  BY <1>1, <1>2, <1>3, <1>4, <1>5 DEF Ending

\* The HTTP thread takes a step of a request.
LEMMA HandlerKeeps == ASSUME IInv, Handler \/ PostDisconnect \/ PostPayload PROVE IInv'
<1>. USE DEF IInv
<1>1. CASE HandlerDisconnects
  <2>1. TypeOK'
    <3>1. Typed'
      BY <1>1, Distinct DEF TypeOK, Typed, Topics, Presence, HandlerDisconnects,
         Disconnect, paho, broker, Settings, histories, SaveUnchecked
    <3>2. Flags'
      BY <1>1, Distinct DEF TypeOK, Typed, Flags, HandlerDisconnects, Disconnect, paho,
         broker, Settings, histories, SaveUnchecked
    <3>. QED  BY <3>1, <3>2 DEF TypeOK
  <2>2. ClientIsForSettings'
    BY <1>1, Distinct DEF TypeOK, Typed, ClientIsForSettings, HandlerDisconnects,
       Disconnect, paho, broker, Settings, histories, SaveUnchecked
  <2>3. PresenceIsHonest'
    BY <1>1, Distinct DEF TypeOK, Typed, PresenceIsHonest, GoodbyeIsDue, Open, Topic,
       Topics, HandlerDisconnects, Disconnect, paho, broker, Settings, histories,
       SaveUnchecked
  <2>4. GoodbyeIsDue'
    BY <1>1, Distinct DEF TypeOK, Typed, PresenceIsHonest, GoodbyeIsDue, Open, Topic,
       Topics, HandlerDisconnects, Disconnect, paho, broker, Settings, histories,
       SaveUnchecked
  <2>. QED  BY <2>1, <2>2, <2>3, <2>4
<1>2. CASE HandlerDrops
  <2>1. TypeOK'
    <3>1. Typed'
      BY <1>2, Distinct DEF TypeOK, Typed, Topics, Presence, HandlerDrops, Disconnect,
         paho, broker, Settings, histories, Here
    <3>2. Flags'
      BY <1>2, Distinct DEF TypeOK, Typed, Flags, HandlerDrops, Disconnect, paho, broker,
         Settings, histories, Here
    <3>. QED  BY <3>1, <3>2 DEF TypeOK
  <2>2. ClientIsForSettings'
    BY <1>2, Distinct DEF TypeOK, Typed, ClientIsForSettings, HandlerDrops, Disconnect,
       paho, broker, Settings, histories, Here
  <2>3. PresenceIsHonest'
    BY <1>2, Distinct DEF TypeOK, Typed, PresenceIsHonest, GoodbyeIsDue, Open, Topic,
       Topics, HandlerDrops, Disconnect, paho, broker, Settings, histories, Here
  <2>4. GoodbyeIsDue'
    BY <1>2, Distinct DEF TypeOK, Typed, PresenceIsHonest, GoodbyeIsDue, Open, Topic,
       Topics, HandlerDrops, Disconnect, paho, broker, Settings, histories, Here
  <2>. QED  BY <2>1, <2>2, <2>3, <2>4
<1>3. CASE HandlerCreates
  <2>1. TypeOK'
    <3>1. Typed'
      BY <1>3, Distinct DEF TypeOK, Typed, Topics, Presence, HandlerCreates, Happens, paho,
         broker, Settings, histories, Uri
    <3>2. Flags'
      BY <1>3, Distinct DEF TypeOK, Typed, Flags, HandlerCreates, Happens, paho, broker,
         Settings, histories, Uri
    <3>. QED  BY <3>1, <3>2 DEF TypeOK
  <2>2. ClientIsForSettings'
    BY <1>3, Distinct DEF TypeOK, Typed, ClientIsForSettings, HandlerCreates, Happens,
       paho, broker, Settings, histories, Uri
  <2>3. PresenceIsHonest'
    BY <1>3, Distinct DEF TypeOK, Typed, PresenceIsHonest, GoodbyeIsDue, Open, Topic,
       Topics, HandlerCreates, Happens, paho, broker, Settings, histories, Uri
  <2>4. GoodbyeIsDue'
    BY <1>3, Distinct DEF TypeOK, Typed, PresenceIsHonest, GoodbyeIsDue, Open, Topic,
       Topics, HandlerCreates, Happens, paho, broker, Settings, histories, Uri
  <2>. QED  BY <2>1, <2>2, <2>3, <2>4
<1>4. CASE HandlerConnects
  <2>1. TypeOK'
    <3>1. Typed'
      BY <1>4, Distinct DEF TypeOK, Typed, Topics, Presence, HandlerConnects, Connect,
         paho, broker, Settings, histories
    <3>2. Flags'
      <4>1. answered' = answered \/ answered' = FALSE
        BY <1>4 DEF HandlerConnects, Connect
      <4>2. unsaved' = unsaved /\ recast' = recast /\ client' = client
        BY <1>4 DEF HandlerConnects, histories
      <4>3. answered \in BOOLEAN /\ unsaved \in BOOLEAN /\ recast \in BOOLEAN /\ (client = None => ~answered)
        BY DEF TypeOK, Flags
      <4>4. answered' \in BOOLEAN
        BY <4>1, <4>3
      <4>5. client' = None => ~answered'
        BY <4>1, <4>2, <4>3
      <4>. QED  BY <4>2, <4>3, <4>4, <4>5 DEF Flags
    <3>. QED  BY <3>1, <3>2 DEF TypeOK
  <2>2. ClientIsForSettings'
    BY <1>4, Distinct DEF TypeOK, Typed, ClientIsForSettings, HandlerConnects, Connect,
       paho, broker, Settings, histories
  <2>3. PresenceIsHonest'
    BY <1>4, Distinct DEF TypeOK, Typed, PresenceIsHonest, GoodbyeIsDue, Open, Topic,
       Topics, HandlerConnects, Connect, paho, broker, Settings, histories
  <2>4. GoodbyeIsDue'
    BY <1>4, Distinct DEF TypeOK, Typed, PresenceIsHonest, GoodbyeIsDue, Open, Topic,
       Topics, HandlerConnects, Connect, paho, broker, Settings, histories
  <2>. QED  BY <2>1, <2>2, <2>3, <2>4
<1>5. CASE PostDisconnect
  <2>1. TypeOK'
    <3>1. Typed'
      BY <1>5, Distinct DEF TypeOK, Typed, Topics, Presence, PostDisconnect, Goodbye,
         IsConnected, Happens, paho, broker, Settings, histories, Here
    <3>2. Flags'
      BY <1>5, Distinct DEF TypeOK, Typed, Flags, PostDisconnect, Goodbye, IsConnected,
         Happens, paho, broker, Settings, histories, Here
    <3>. QED  BY <3>1, <3>2 DEF TypeOK
  <2>2. ClientIsForSettings'
    BY <1>5, Distinct DEF TypeOK, Typed, ClientIsForSettings, PostDisconnect, Goodbye,
       IsConnected, Happens, paho, broker, Settings, histories, Here
  <2>3. PresenceIsHonest'
    BY <1>5, Distinct DEF TypeOK, Typed, PresenceIsHonest, GoodbyeIsDue, Open, Topic,
       Topics, PostDisconnect, Goodbye, IsConnected, Happens, paho, broker, Settings,
       histories, Here
  <2>4. GoodbyeIsDue'
    BY <1>5, Distinct DEF TypeOK, Typed, PresenceIsHonest, GoodbyeIsDue, Open, Topic,
       Topics, PostDisconnect, Goodbye, IsConnected, Happens, paho, broker, Settings,
       histories, Here
  <2>. QED  BY <2>1, <2>2, <2>3, <2>4
<1>6. CASE PostPayload
  <2>1. saved' \in Settings
    BY <1>6 DEF PostPayload, SaveUnchecked, TypeOK, Typed
  <2>2. TypeOK'
    <3>1. Typed'
      BY <1>6, <2>1, Distinct DEF TypeOK, Typed, PostPayload, Happens, paho, broker, histories
    <3>2. Flags'
      BY <1>6 DEF TypeOK, Flags, PostPayload, paho, histories
    <3>. QED  BY <3>1, <3>2 DEF TypeOK
  <2>3. ClientIsForSettings' /\ PresenceIsHonest' /\ GoodbyeIsDue'
    BY <1>6 DEF ClientIsForSettings, PresenceIsHonest, GoodbyeIsDue, Open, Topic, PostPayload,
       paho, broker, histories
  <2>. QED  BY <2>2, <2>3
<1>. QED  BY <1>1, <1>2, <1>3, <1>4, <1>5, <1>6 DEF Handler

\* Settings are posted.
LEMMA PostKeeps ==
  ASSUME IInv, NEW new \in Settings, NEW sent \in BOOLEAN, PostSettings(new, sent)
  PROVE  IInv'
<1>. USE DEF IInv
<1>1. TypeOK'
  <2>1. Typed'
    BY Distinct DEF TypeOK, Typed, Topics, Presence, PostSettings, NeedsClient, Happens,
       paho, broker, Settings, histories, Here
  <2>2. Flags'
    <3>1. unsaved' = unsaved \/ unsaved' = TRUE
      BY DEF PostSettings
    <3>2. answered' = answered /\ client' = client
      BY DEF PostSettings, paho
    <3>3. recast' \in BOOLEAN
      <4>1. recast' = (recast \/ (~sent /\ new.tls # settings.tls))
        BY DEF PostSettings
      <4>. QED  BY <4>1
    <3>. QED  BY <3>1, <3>2, <3>3 DEF TypeOK, Flags
  <2>. QED  BY <2>1, <2>2 DEF TypeOK
<1>2. ClientIsForSettings'
  BY Distinct DEF TypeOK, Typed, ClientIsForSettings, PostSettings, NeedsClient, Happens,
     paho, broker, Settings, histories, Here
<1>3. PresenceIsHonest'
  BY Distinct DEF TypeOK, Typed, PresenceIsHonest, GoodbyeIsDue, Open, Topic, Topics,
     PostSettings, NeedsClient, Happens, paho, broker, Settings, histories, Here
<1>4. GoodbyeIsDue'
  BY Distinct DEF TypeOK, Typed, PresenceIsHonest, GoodbyeIsDue, Open, Topic, Topics,
     PostSettings, NeedsClient, Happens, paho, broker, Settings, histories, Here
<1>. QED  BY <1>1, <1>2, <1>3, <1>4


\* Every step keeps the invariant.
LEMMA Inductive == Spec => []IInv
<1>1. Init => IInv
  <2>1. Init => Typed /\ ClientIsForSettings /\ PresenceIsHonest /\ GoodbyeIsDue
    BY Distinct DEF Init, Typed, ClientIsForSettings, PresenceIsHonest, GoodbyeIsDue, Open,
       Topic, Topics, Presence, Settings, histories
  <2>2. Init => Flags
    BY DEF Init, Flags
  <2>. QED  BY <2>1, <2>2 DEF IInv, TypeOK
<1>2. IInv /\ [Next]_vars => IInv'
  <2>. SUFFICES ASSUME IInv, [Next]_vars PROVE IInv'
    OBVIOUS
  <2>1. CASE UNCHANGED vars
    BY <2>1 DEF vars, paho, broker, histories, IInv, TypeOK, Typed, Flags, ClientIsForSettings,
       PresenceIsHonest, GoodbyeIsDue, Open, Topic
  <2>. QED
    BY <2>1, LibraryKeeps, ProcessKeeps, HandlerKeeps, PostKeeps DEF Next
<1>. QED  BY <1>1, <1>2, PTL DEF Spec

\* The variables keep their types; no connection is without a client, and no handler runs
\* once the process ends (MQTT.c, main.c:1155).
THEOREM TypeCorrect == Spec => []TypeOK
<1>1. IInv => TypeOK
  BY DEF IInv
<1>. QED  BY <1>1, Inductive, PTL

\* Whoever reads connected: true can rely on it, but for the topics that are excused
\* (Main_MQTT_Status, main.c:1042; MQTT.c:189).
THEOREM PresenceHonest == Spec => []PresenceIsHonest
<1>1. IInv => PresenceIsHonest
  BY DEF IInv
<1>. QED  BY <1>1, Inductive, PTL

\* The client is for the broker that is set, and for the scheme that is set unless tls was
\* posted by itself (MQTT_HTTP_callback, MQTT.c:715; MQTT_SetupClient, MQTT.c:524).
THEOREM ClientForWhatIsSet == Spec => []UsesWhatIsSet
<1>1. IInv => UsesWhatIsSet
  BY DEF IInv, ClientIsForSettings, UsesWhatIsSet
<1>. QED  BY <1>1, Inductive, PTL
=============================================================================
