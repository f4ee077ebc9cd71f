---------------------------------- MODULE Json ----------------------------------
(***************************************************************************)
(* cJSON with its text: the operations of JsonItems, and items that are     *)
(* printed to a file and parsed from it.                                    *)
(***************************************************************************)
EXTENDS JsonItems, JsonText

\* A tree as a value.
RECURSIVE Value(_, _)
Value(h, n) ==
  IF h[n].type = "leaf" THEN h[n].value
  ELSE [kind |-> h[n].type,
        items |-> [i \in DOMAIN List(h, n) |->
                    LET m == List(h, n)[i] IN [key |-> h[m].key, value |-> Value(h, m)]]]

\* Items for a value, one after the other, each behind the one before; none when an
\* allocation fails.  This is how parse_array() and parse_object() build a list:
\* they look for no last item, and set prev of the first at the end.
RECURSIVE Placed(_, _, _), PlacedBehind(_, _, _, _, _)
Placed(h, v, k) ==
  LET free == {n \in Items : h[n].type = "free"}
      n == CHOOSE m \in free : TRUE
  IN  IF free = {} THEN [memory |-> h, root |-> NULL]
      ELSE IF v.kind \notin {"object", "array"}
      THEN [memory |-> [h EXCEPT ![n] = [Blank EXCEPT !.type = "leaf", !.key = k, !.value = v]],
            root |-> n]
      ELSE PlacedBehind([h EXCEPT ![n] = [Blank EXCEPT !.type = v.kind, !.key = k]], n, NULL, v.items, 1)

PlacedBehind(h, c, last, items, i) ==
  IF i > Len(items)
  THEN [memory |-> IF last = NULL THEN h ELSE [h EXCEPT ![h[c].child].prev = last], root |-> c]
  ELSE LET p == Placed(h, items[i].value, items[i].key)
           linked == IF last = NULL THEN [p.memory EXCEPT ![c].child = p.root]
                     ELSE [p.memory EXCEPT ![last].next = p.root, ![p.root].prev = last]
       IN  IF p.root = NULL THEN p ELSE PlacedBehind(linked, c, p.root, items, i + 1)
-----------------------------------------------------------------------------
\* cJSON_Print() to a file and cJSON_Parse() of it.
Reload ==
  \E n \in Live, format \in BOOLEAN :
    LET parsed == Parse(Text(Value(item, n), format))
        p == Placed(item, parsed.value, NoKey)
    IN  /\ parsed.ok
        /\ p.root # NULL
        /\ item' = p.memory /\ held' = held \cup {p.root}

Next == Operations \/ Reload

Spec == Init /\ [][Next]_vars
-----------------------------------------------------------------------------
\* What is saved is loaded again: every value prints to text that parses to it, but
\* for an int that is not the double of its number, and the items parsed are linked as those
\* of a copy, so that a Reload is a Reread (print_number, cJSON.c:553; print_string_ptr,
\* cJSON.c:911; parse_value, cJSON.c:1325; parse_array, cJSON.c:1454; parse_object,
\* cJSON.c:1614).
RoundTrip ==
  \A n \in Live, format \in BOOLEAN :
    LET v == Value(item, n)
        p == Parse(Text(v, format))
        read == Placed(item, p.value, NoKey)
    IN  /\ p.ok /\ p.value = Printed(v)
        /\ read.root # NULL =>
             \E f \in Copies(n) : read.memory = AsRead(item, n, f) /\ read.root = f[n]

\* A file that was cut short does not load as a part of the settings, and what an older
\* and longer text left behind a new one is not read (ACAP_FILE_Write, ACAP.c:1549;
\* ACAP_FILE_Read, ACAP.c:1496).
WholeOrNothing ==
  \A n \in held \cap Containers :
    LET t == Text(Value(item, n), TRUE) whole == Parse(t) IN
    /\ \A k \in 0..(Len(t) - 1) : ~Parse(SubSeq(t, 1, k)).ok
    /\ \A m \in held :
         LET rest == Text(Value(item, m), TRUE) IN
         \A k \in DOMAIN rest : Parse(t \o SubSeq(rest, k, Len(rest))) = whole
=============================================================================
