--------------------------------- MODULE Mqtt ---------------------------------
(***************************************************************************)
(* The MQTT client (MQTT.c, main.c): presence messages, last wills, changes *)
(* of its settings, and the end of the process, against the Paho library    *)
(* and a broker.  The HTTP thread works under config_mutex, the callbacks   *)
(* of the library and the main thread do not; the process ends after the    *)
(* HTTP thread.  Presence is a retained message: a subscriber who comes     *)
(* later reads it, so a wrong one misleads until something replaces it.     *)
(* A broker keeps messages and sessions by its address, whatever the scheme *)
(* of the client's URI; user, password and port go with the address.        *)
(***************************************************************************)
EXTENDS Naturals

CONSTANTS
  Brokers,     \* addresses
  Prefixes,    \* values of preTopic
  Names,       \* names of topics
  FullTopic, LastWillTopic,  \* of a prefix: the presence's topic and the last will's
  None,        \* no client, no session, no message
  Connected,   \* the retained message connected: true
  Gone,        \* the retained message connected: false
  MaxEvents    \* bound: requests, losses, ends of the process and failures

ASSUME MqttAssumption ==
  /\ None \notin [broker : Brokers, tls : BOOLEAN] /\ None \notin [broker : Brokers, will : Names]
  /\ FullTopic \in [Prefixes -> Names] /\ LastWillTopic \in [Prefixes -> Names]
  /\ None \notin {Connected, Gone} /\ Connected # Gone
  /\ MaxEvents \in Nat

VARIABLES
  process,    \* down, up, or where it is in ending: goodbye, cleanup, waiting
  http,       \* the HTTP thread: what MQTT_HTTP_callback() does next
  settings,   \* [broker, tls, prefix]
  saved,      \* localdata/mqtt.json
  client,     \* mqtt_client: the URI it was created for, or None
  link,       \* the library: idle, connecting, up, lost (it tries again), closing
  will,       \* topic of the last will given to the library
  answered,   \* a connection is up and onConnect() has not been called for it
  session,    \* at the broker: [broker, will] of the connection, or None
  retained,   \* at the broker: the presence per topic
  excused,    \* history: topics where the code leaves a wrong presence, see PresenceIsHonest
  unsaved,    \* history: the last change of settings was not saved, or got no client
  recast,     \* history: tls was changed since by a request that made no client
  events      \* bounded happenings so far

paho == <<client, link, will, answered>>
broker == <<session, retained>>
histories == <<excused, unsaved, recast>>
vars == <<process, http, settings, saved, paho, broker, histories, events>>

Settings == [broker : Brokers, tls : BOOLEAN, prefix : Prefixes]
Topics == Brokers \X Names
Presence == {None, Connected, Gone}

Init ==
  /\ process = "down" /\ http = "idle"
  /\ settings \in Settings /\ saved = settings
  /\ client = None /\ link = "idle" /\ will = LastWillTopic[settings.prefix] /\ answered = FALSE
  /\ session = None /\ retained = [t \in Topics |-> None]
  /\ excused = {} /\ unsaved = FALSE /\ recast = FALSE /\ events = 0

Happens == events < MaxEvents /\ events' = events + 1
-----------------------------------------------------------------------------
(* Calls of the library.                                                   *)

\* MQTT_SetupClient(): the URI, whose scheme is that of tls.
Uri(s) == [broker |-> s.broker, tls |-> s.tls]

\* MQTT_Connect(): the last will's topic is made in 64 bytes and cut, with a warning, when
\* it is longer.  A client that is connected, or about to be, keeps its connection and its
\* will, or takes the new one for the next; one that is closing ends its session first.
\* The library may refuse; without a client nothing is asked of it.  A connection that is
\* begun saves the settings, which are those just read or just saved.
Connect(c) ==
  \/ UNCHANGED <<link, will, answered, session>>
  \/ /\ c # None /\ link \in {"idle", "lost", "closing"}
     /\ link' = "connecting" /\ will' = LastWillTopic[settings'.prefix] /\ answered' = FALSE
     /\ session' = IF link = "closing" THEN None ELSE session
  \/ /\ c # None /\ link \in {"connecting", "up"}
     /\ will' = LastWillTopic[settings'.prefix]
     /\ UNCHANGED <<link, answered, session>>

\* MQTT_Disconnect(): the library closes the connection later; it may give up one that
\* is not up, or refuse.
Disconnect ==
  /\ link' \in CASE link = "up" -> {"closing"}
                 [] link \in {"connecting", "lost"} -> {link, "idle"}
                 [] OTHER -> {link}
  /\ UNCHANGED <<client, will, answered, session>>

IsConnected == client # None /\ link \in {"up", "closing"}

\* MQTT_Publish(): the topic of the presence, made in 256 bytes.
Here == <<client.broker, FullTopic[settings.prefix]>>

\* Main_MQTT_Status(MQTT_DISCONNECTING): a retained connected: false, while connected.
Goodbye ==
  IF IsConnected THEN retained' = [retained EXCEPT ![Here] = Gone] /\ excused' = excused \ {Here}
                 ELSE UNCHANGED <<retained, excused>>
-----------------------------------------------------------------------------
(* The library and the broker.                                             *)

\* The broker publishes the will of a session that ends without being closed, also when
\* a new connection of the same client takes its place.
WillOf(s) ==
  IF s = None THEN retained ELSE [retained EXCEPT ![<<s.broker, s.will>>] = Gone]

LinkUp ==
  /\ link \in {"connecting", "lost"}
  /\ link' = "up"
  /\ session' = [broker |-> client.broker, will |-> will]
  /\ retained' = WillOf(session)
  /\ answered' = (link = "connecting" \/ answered)
  /\ UNCHANGED <<process, http, settings, saved, client, will, histories, events>>

\* onConnectFailure() sets the status; nobody tries again.
LinkFails ==
  /\ link = "connecting" /\ link' = "idle" /\ Happens
  /\ UNCHANGED <<process, http, settings, saved, client, will, answered, broker, histories>>

\* connectionLost() sets the status; the library tries again (automaticReconnect).
LinkLost ==
  /\ link = "up" /\ link' = "lost" /\ Happens
  /\ UNCHANGED <<process, http, settings, saved, client, will, answered, broker, histories>>

Closed ==
  /\ link = "closing" /\ link' = "idle" /\ session' = None
  /\ UNCHANGED <<process, http, settings, saved, client, will, answered, retained, histories, events>>

\* The broker misses a client that is not there any more.
BrokerNotices ==
  /\ session # None /\ link \notin {"up", "closing"}
  /\ retained' = WillOf(session) /\ session' = None
  /\ UNCHANGED <<process, http, settings, saved, paho, histories, events>>

\* onConnect(), on a thread of the library: Main_MQTT_Status(MQTT_CONNECTED) publishes
\* a retained connected: true, while connected.
OnConnect ==
  LET late == http = "disconnect" \/ process \in {"cleanup", "waiting"} \/ link = "closing"
  IN  /\ answered /\ answered' = FALSE
      /\ IF IsConnected
         THEN /\ retained' = [retained EXCEPT ![Here] = Connected]
              /\ excused' = IF late \/ session.will # FullTopic[settings.prefix]
                            THEN excused \cup {Here} ELSE excused \ {Here}
         ELSE UNCHANGED <<retained, excused>>
      /\ UNCHANGED <<process, http, settings, saved, client, link, will, session, unsaved, recast, events>>
-----------------------------------------------------------------------------
(* The process.                                                            *)

\* MQTT_Init(): it connects whether or not the saved settings say so, if it gets a client.
Start ==
  /\ process = "down" /\ process' = "up"
  /\ settings' = saved /\ unsaved' = FALSE /\ recast' = FALSE
  /\ \/ client' = Uri(settings') /\ UNCHANGED events
     \/ client' = None /\ Happens
  /\ Connect(client')
  /\ UNCHANGED <<http, saved, retained, excused>>

\* SIGTERM: ACAP_HTTP_Cleanup() waits for the handler that runs, then the rest follows.
Stop ==
  /\ process = "up" /\ http = "idle" /\ Happens
  /\ process' = "goodbye"
  /\ UNCHANGED <<http, settings, saved, paho, broker, histories>>

SayGoodbye ==
  /\ process = "goodbye" /\ process' = "cleanup"
  /\ Goodbye
  /\ UNCHANGED <<http, settings, saved, paho, session, unsaved, recast, events>>

\* The process and its connection are gone; what the broker has of it stays.
Ended ==
  /\ process' = "down" /\ http' = "idle"
  /\ client' = None /\ link' = "idle" /\ answered' = FALSE
  /\ UNCHANGED <<settings, saved, will, broker, histories>>

\* MQTT_Cleanup() of a client that is connected disconnects it first.
CleanupConnected ==
  /\ process = "cleanup" /\ IsConnected
  /\ Disconnect
  /\ process' = "waiting"
  /\ UNCHANGED <<http, settings, saved, retained, histories, events>>

CleanupIdle ==
  /\ process = "cleanup" /\ ~IsConnected
  /\ Ended
  /\ UNCHANGED events

\* A fault of WaitIsOver: there is no end to the wait for a connection to close.
WaitForClosed == ~IsConnected

\* It looks 50 times whether it is closed, then destroys it.
WaitIsOver == TRUE

CleanupWaited ==
  /\ process = "waiting" /\ WaitIsOver
  /\ Ended
  /\ UNCHANGED events

Crash ==
  /\ process # "down" /\ Happens
  /\ Ended
-----------------------------------------------------------------------------
(* MQTT_HTTP_callback().                                                   *)

\* A fault of PostDisconnect: it disconnects without a word.
PostDisconnectSilently ==
  /\ process = "up" /\ http = "idle" /\ Happens
  /\ http' = "disconnect"
  /\ UNCHANGED <<process, settings, saved, paho, broker, histories>>

\* "action=disconnect" says goodbye, and then disconnects.
PostDisconnect ==
  /\ process = "up" /\ http = "idle" /\ Happens
  /\ http' = "disconnect"
  /\ Goodbye
  /\ UNCHANGED <<process, settings, saved, paho, session, unsaved, recast>>

\* ACAP_FILE_Write() of mqtt.json, of which nobody asks whether it succeeded.
SaveUnchecked == saved' \in {saved, settings}

\* A disconnect that is accepted is saved, with all there is in memory.
HandlerDisconnects ==
  /\ http = "disconnect" /\ http' = "idle"
  /\ IF client = None THEN UNCHANGED <<saved, paho, session>> ELSE Disconnect /\ SaveUnchecked
  /\ UNCHANGED <<process, settings, retained, histories, events>>

\* A new "payload", the name and place in each message, is saved with all the rest.
PostPayload ==
  /\ process = "up" /\ http = "idle" /\ Happens
  /\ SaveUnchecked
  /\ UNCHANGED <<process, http, settings, paho, broker, histories>>

\* A fault of NeedsClient: another address is left to the next MQTT_Connect().
NeedsNoClient(sent) == FALSE

\* An address, port, user or password that was sent needs a new client.
NeedsClient(sent) == sent

\* Settings are replaced and saved.  When the topic changes under a connection nobody
\* says goodbye on the old one: it is excused.  Another tls alone makes no client.
PostSettings(new, sent) ==
  /\ process = "up" /\ http = "idle" /\ Happens
  /\ ~sent => new.broker = settings.broker
  /\ settings' = new
  /\ recast' = (recast \/ (~sent /\ new.tls # settings.tls))
  /\ excused' = IF client = None \/ new.prefix = settings.prefix THEN excused
                ELSE excused \cup {Here}
  /\ \/ /\ saved' = new
        /\ http' = (IF NeedsClient(sent) THEN "drop" ELSE "connect")
        /\ UNCHANGED unsaved
     \/ unsaved' = TRUE /\ UNCHANGED <<saved, http>>
  /\ UNCHANGED <<process, paho, broker>>

\* For a new client the old one disconnects, without a goodbye ...
HandlerDrops ==
  /\ http = "drop" /\ http' = "destroy"
  /\ IF client = None THEN UNCHANGED <<paho, session, excused>>
     ELSE Disconnect /\ excused' = excused \cup {Here}
  /\ UNCHANGED <<process, settings, saved, retained, unsaved, recast, events>>

\* ... is destroyed, perhaps before the connection is closed, and MQTT_SetupClient()
\* creates another, or fails.
HandlerCreates ==
  /\ http = "destroy"
  /\ link' = "idle" /\ answered' = FALSE
  /\ \/ client' = Uri(settings) /\ http' = "connect" /\ unsaved' = FALSE /\ recast' = FALSE /\ UNCHANGED events
     \/ client' = None /\ http' = "idle" /\ Happens /\ UNCHANGED <<unsaved, recast>>
  /\ UNCHANGED <<process, settings, saved, will, broker, excused>>

HandlerConnects ==
  /\ http = "connect" /\ http' = "idle"
  /\ UNCHANGED settings
  /\ Connect(client)
  /\ UNCHANGED <<process, saved, client, retained, histories, events>>

Ending == SayGoodbye \/ CleanupConnected \/ CleanupIdle \/ CleanupWaited
Handler == HandlerDisconnects \/ HandlerDrops \/ HandlerCreates \/ HandlerConnects

Next ==
  \/ LinkUp \/ LinkFails \/ LinkLost \/ Closed \/ BrokerNotices \/ OnConnect
  \/ Start \/ Stop \/ Crash \/ Ending \/ Handler
  \/ PostDisconnect \/ PostPayload
  \/ \E new \in Settings, sent \in BOOLEAN : PostSettings(new, sent)

\* Both threads go on; of the library and the broker nothing is assumed.
Spec == Init /\ [][Next]_vars /\ WF_vars(Ending) /\ WF_vars(Handler)
-----------------------------------------------------------------------------
\* The state has its types: without a client there is no connection and nothing to
\* answer, and no handler runs once the process ends (MQTT.c, main.c:1155).
Typed ==
  /\ process \in {"down", "up", "goodbye", "cleanup", "waiting"}
  /\ http \in {"idle", "disconnect", "drop", "destroy", "connect"}
  /\ process # "up" => http = "idle"
  /\ process = "down" => client = None
  /\ settings \in Settings /\ saved \in Settings
  /\ client \in [broker : Brokers, tls : BOOLEAN] \cup {None} /\ will \in Names
  /\ link \in {"idle", "connecting", "up", "lost", "closing"}
  /\ client = None => link = "idle"
  /\ session \in [broker : Brokers, will : Names] \cup {None}
  /\ link \in {"up", "closing"} => session # None /\ session.broker = client.broker
  /\ retained \in [Topics -> Presence] /\ excused \subseteq Topics
  /\ events \in 0..MaxEvents

Flags ==
  /\ answered \in BOOLEAN /\ unsaved \in BOOLEAN /\ recast \in BOOLEAN
  /\ client = None => ~answered

TypeOK == Typed /\ Flags

\* Whoever reads connected: true can rely on it: there is a connection at the end of
\* which the broker or the application takes the message back, through losses, crashes,
\* reconnects, orderly ends and requests in any order (Main_MQTT_Status, main.c:1042;
\* last will, MQTT.c:189).  Excused is what the code leaves wrong: the topic or the
\* client changes under a connection, for which it says no goodbye; onConnect() speaks
\* after the goodbye, or on another topic than the last will of its connection, because the
\* settings have changed in between or because the last will's topic was cut (MQTT.c:220).
PresenceIsHonest ==
  \A t \in Topics :
    retained[t] = Connected => \/ t \in excused
                               \/ session # None /\ t = <<session.broker, session.will>>

\* The client is one for the broker that is set, whatever was posted, refused and restarted
\* before, unless a save or a new client failed; and for the scheme that is set, unless tls
\* was posted without an address, port, user or password (MQTT_HTTP_callback, MQTT.c:715).
UsesWhatIsSet ==
  client # None /\ http = "idle" /\ ~unsaved =>
    /\ client.broker = settings.broker
    /\ client.tls = settings.tls \/ recast

\* The process ends, also when the broker has stopped answering (MQTT_Cleanup,
\* MQTT.c:645).
StopCompletes == process = "goodbye" ~> process = "down"
=============================================================================
