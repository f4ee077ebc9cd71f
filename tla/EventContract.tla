------------------------------ MODULE EventContract ------------------------------
(***************************************************************************)
(* What DetectX promises the consumers of its detection events, whatever   *)
(* the event logic: an event rises only with its label in the picture, it  *)
(* stays up while the label is and for a minimum time after, and the "any  *)
(* detection" event is up exactly when one of the label events is.         *)
(***************************************************************************)
EXTENDS Naturals

CONSTANTS
  Labels,       \* the labels of the model
  MinDuration,  \* the shortest minimum event duration a user can set
  Forever       \* where the quiet times saturate

VARIABLES
  active,  \* the labels whose event is up
  quiet,   \* time since each label was last in the picture
  any      \* the "any detection" event

Init ==
  /\ active = {}
  /\ quiet = [l \in Labels |-> Forever]
  /\ any = FALSE

\* A picture with these labels in it; some of their events rise.
See(labels) ==
  /\ active \subseteq active'
  /\ active' \ active \subseteq labels
  /\ quiet' = [l \in Labels |-> IF l \in labels THEN 0 ELSE quiet[l]]
  /\ any' = (active' # {})

\* Events whose labels have been gone for long enough are taken down.
Clear ==
  /\ active' \subseteq active
  /\ \A l \in active \ active' : quiet[l] > MinDuration
  /\ any' = (active' # {})
  /\ UNCHANGED quiet

Pass ==
  /\ quiet' = [l \in Labels |-> IF quiet[l] = Forever THEN Forever ELSE quiet[l] + 1]
  /\ UNCHANGED <<active, any>>

Next == (\E labels \in SUBSET Labels : See(labels)) \/ Clear \/ Pass

Spec == Init /\ [][Next]_<<active, quiet, any>>
=============================================================================
