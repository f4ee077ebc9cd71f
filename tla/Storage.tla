--------------------------------- MODULE Storage ---------------------------------
(***************************************************************************)
(* The application's own area on the SD card (Storage.c).  AXStorage calls *)
(* back on the main loop: on_subscribe() after each change of the card,    *)
(* which then reads the card's status as it is by now, and on_setup() with *)
(* the answer to an earlier set-up call.                                   *)
(***************************************************************************)
EXTENDS Naturals

CONSTANTS
  MaxNotices,  \* bound: changes of the card not reported yet, at least 1
  MaxSetups    \* bound: set-up calls not answered yet

VARIABLES
  card,       \* what AXStorage says of the card
  notices,    \* calls of on_subscribe() to come
  setups,     \* calls of on_setup() to come
  setup,      \* disk->setup; disk->path is set and cleared with it
  available,  \* status "SDCARD" "available"
  refused     \* history: AXStorage failed a call since the card last changed

vars == <<card, notices, setups, setup, available, refused>>

\* "full" is also a card that cannot be written to.
Cards == {"absent", "ready", "full", "exiting"}

\* A card is announced as leaving before it is gone, and may come back instead.
Becomes ==
  [absent  |-> {"ready", "full"},
   ready   |-> {"full", "exiting"},
   full    |-> {"ready", "exiting"},
   exiting |-> {"absent", "ready"}]

Init ==
  /\ card \in {"absent", "ready", "full"}
  /\ notices = 1 /\ setups = 0
  /\ setup = FALSE /\ available = FALSE /\ refused = FALSE

CardChanges ==
  /\ notices < MaxNotices
  /\ card' \in Becomes[card]
  /\ notices' = notices + 1
  /\ refused' = FALSE
  /\ UNCHANGED <<setups, setup, available>>

\* The card is going: give the area back.  The path is kept when AXStorage
\* refuses, though the status has already said that there is no card.
Release ==
  /\ card = "exiting" /\ setup
  /\ available' = FALSE
  /\ \/ setup' = FALSE /\ UNCHANGED refused
     \/ refused' = TRUE /\ UNCHANGED setup
  /\ UNCHANGED setups

\* A usable card that is not set up: ask for it, also when the answer to an
\* earlier call is still to come.
AskSetup ==
  /\ card = "ready" /\ ~setup
  /\ \/ setups < MaxSetups /\ setups' = setups + 1 /\ UNCHANGED refused
     \/ refused' = TRUE /\ UNCHANGED setups
  /\ UNCHANGED <<setup, available>>

\* Nothing to do, or the status could not be read.
Ignore ==
  /\ \/ card = "exiting" /\ ~setup /\ UNCHANGED refused
     \/ card = "ready" /\ setup /\ UNCHANGED refused
     \/ card \in {"absent", "full"} /\ UNCHANGED refused
     \/ refused' = TRUE
  /\ UNCHANGED <<setups, setup, available>>

OnSubscribe ==
  /\ notices > 0
  /\ notices' = notices - 1
  /\ Release \/ AskSetup \/ Ignore
  /\ UNCHANGED card

\* A fault of OnSetup: the area is not marked as set up.
OnSetupUnmarked ==
  /\ setups > 0
  /\ setups' = setups - 1
  /\ available' = TRUE
  /\ UNCHANGED <<card, notices, setup, refused>>

\* The answer was given when the call was made, whatever became of the card.
OnSetup ==
  /\ setups > 0
  /\ setups' = setups - 1
  /\ \/ setup' = TRUE /\ available' = TRUE /\ UNCHANGED refused
     \/ refused' = TRUE /\ UNCHANGED <<setup, available>>
  /\ UNCHANGED <<card, notices>>

Next == CardChanges \/ OnSubscribe \/ OnSetup

Spec == Init /\ [][Next]_vars

\* The callbacks run on the main loop as they come.
FairSpec == Spec /\ WF_vars(OnSubscribe) /\ WF_vars(OnSetup)
-----------------------------------------------------------------------------
TypeOK ==
  /\ card \in Cards
  /\ notices \in 0..MaxNotices
  /\ setups \in 0..MaxSetups
  /\ setup \in BOOLEAN
  /\ available \in BOOLEAN
  /\ refused \in BOOLEAN

\* on_subscribe() and on_setup(): a card that stays usable is set up in the end,
\* whatever came and went before and in whatever order the answers came, unless
\* AXStorage refused a call for it.
SetUpWhenReady == <>[](card = "ready") => <>[]setup \/ []<>refused
=============================================================================
