------------------------------- MODULE MCEvents -------------------------------
(* Labels, modes and durations for the runs of Events. *)
EXTENDS Events

CONSTANTS car, traffic_light, spaced_traffic_light, any

PlainLabels == {car, traffic_light}
PlainId == [l \in PlainLabels |-> l]

\* A label with a space in it is declared under a name of its own.
SpacedLabels == {car, spaced_traffic_light}
SpacedId == [l \in SpacedLabels |-> IF l = car THEN car ELSE traffic_light]

Speed == [speed |-> TRUE, window |-> 1, hits |-> 1, share |-> 0]

\* Two frames within a tick, and 60% of the frames there.
VoteMode == [speed |-> FALSE, window |-> 1, hits |-> 2, share |-> 60]

AllModes == {Speed, VoteMode}

AllDurations == {0, 2}
=============================================================================
