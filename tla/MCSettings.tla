------------------------------ MODULE MCSettings ------------------------------
(* An instance of Settings for TLC: the main view and one View Area, an upload *)
(* of a model with labels, one of labels alone, and a new description.         *)
EXTENDS Settings

CONSTANTS New, Other

MCViews == {1, 2}

MCUploads ==
  {[description |-> New, model |-> New, labels |-> New],
   [description |-> None, model |-> None, labels |-> Other],
   [description |-> Other, model |-> None, labels |-> None]}
=============================================================================
