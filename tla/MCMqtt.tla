--------------------------------- MODULE MCMqtt ---------------------------------
(* An instance of Mqtt for TLC: a prefix with which the last will's topic fits its  *)
(* buffer, and one with which it is cut.                                        *)
EXTENDS Mqtt

CONSTANTS Short, Long, ShortName, LongName, CutName

MCFullTopic == [p \in Prefixes |-> IF p = Short THEN ShortName ELSE LongName]
MCLastWillTopic == [p \in Prefixes |-> IF p = Short THEN ShortName ELSE CutName]
=============================================================================
