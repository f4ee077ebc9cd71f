--------------------------------- MODULE MCJson ---------------------------------
(* An instance of Json for TLC: a number, and two names that differ in case alone  *)
(* and hold characters of both kinds of escapes.                                *)
EXTENDS Json, TLC

MCSymmetry == Permutations(Items)
MCKeys == {<<"a", Backslash, Bell>>, <<"A", Backslash, Bell>>}
MCLower == [k \in MCKeys |-> <<"a", Backslash, Bell>>]
=============================================================================
