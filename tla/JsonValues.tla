------------------------------- MODULE JsonValues -------------------------------
(***************************************************************************)
(* What the items of cJSON hold that have no members (cJSON.c).             *)
(***************************************************************************)
EXTENDS Naturals, Sequences

CONSTANTS
  IntMax,      \* INT_MAX
  NoKey        \* string == NULL

In(s) == {s[i] : i \in DOMAIN s}

\* A double converted to int: saturated.
ToInt(d) == IF d >= IntMax THEN IntMax ELSE d

\* cJSON_CreateNumber(), parse_number().
Number(d) == [kind |-> "number", int |-> ToInt(d), double |-> d]
String(s) == [kind |-> "string", text |-> s]

\* What of it is printed and read: a number as a double (valuedouble), from which its int
\* is taken.
Read(v) == IF v.kind = "number" THEN Number(v.double) ELSE v
=============================================================================
