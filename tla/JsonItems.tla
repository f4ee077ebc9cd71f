------------------------------- MODULE JsonItems -------------------------------
(***************************************************************************)
(* cJSON, in which the application keeps its settings, status and every     *)
(* message (cJSON.c): items linked into lists, the operations on them that   *)
(* the application uses.  When no item is free an allocation fails.  A       *)
(* parent links to its first member, members link to the next one, and prev *)
(* of the first is the last.                                                *)
(***************************************************************************)
EXTENDS JsonValues, FiniteSets

CONSTANTS
  Items,       \* the memory: what items there can be
  NULL,        \* no item
  Numbers,     \* the numbers the application stores
  Strings,     \* the strings it stores, sequences of characters
  Keys,        \* the names of members, sequences of characters
  Lower        \* tolower() of a name

ASSUME ItemsAssumption ==
  /\ IsFiniteSet(Items) /\ NULL \notin Items
  /\ Numbers \subseteq Nat /\ IntMax \in Nat

VARIABLES
  item,  \* the memory: [type, child, next, prev, key, value] per item
  held   \* the items the application has a pointer to that are in no list

vars == <<item, held>>

Blank == [type |-> "free", child |-> NULL, next |-> NULL, prev |-> NULL, key |-> NoKey, value |-> NoKey]

Leaves == {Number(d) : d \in Numbers} \cup {String(s) : s \in Strings}

Live == {n \in Items : item[n].type # "free"}
Containers == {n \in Live : item[n].type \in {"object", "array"}}

Init == item = [n \in Items |-> Blank] /\ held = {}
-----------------------------------------------------------------------------
(* Lists and trees.                                                        *)

\* The members of an item: the first, and then the items next leads to.  A list is no
\* longer than there are items.
List(h, c) ==
  LET from[p \in (Items \cup {NULL}) \X (0 .. Cardinality(Items))] ==
        IF p[1] = NULL \/ p[2] = 0 THEN <<>>
        ELSE <<p[1]>> \o from[<<h[p[1]].next, p[2] - 1>>]
  IN  from[<<h[c].child, Cardinality(Items)>>]

\* The items of a tree: one, and level by level the members.
Subtree(h, n) ==
  LET tree[i \in 0 .. Cardinality(Items)] ==
        IF i = 0 THEN {n} ELSE UNION {{c} \cup In(List(h, c)) : c \in tree[i - 1]}
  IN  tree[Cardinality(Items)]

\* cJSON_GetObjectItem(): the first member with the name, in either case; NULL if none.
Find(h, c, k) ==
  LET at == {i \in DOMAIN List(h, c) :
               h[List(h, c)[i]].key # NoKey /\ Lower[h[List(h, c)[i]].key] = Lower[k]}
  IN  IF at = {} THEN NULL ELSE List(h, c)[CHOOSE i \in at : \A j \in at : i <= j]

\* add_item_to_array(): behind the last member, which is prev of the first.
Appended(h, c, n) ==
  LET first == h[c].child last == h[first].prev IN
  IF first = NULL THEN [h EXCEPT ![c].child = n, ![n].prev = n, ![n].next = NULL]
  ELSE IF last = NULL THEN h
  ELSE [h EXCEPT ![last].next = n, ![n].prev = last, ![first].prev = n]

\* A fault of Detached: the first item does not learn who is last now.
DetachedNotLast(h, c, n) ==
  LET first == h[c].child
      g == IF n # first THEN [h EXCEPT ![h[n].prev].next = h[n].next] ELSE h
      f == IF g[n].next # NULL THEN [g EXCEPT ![g[n].next].prev = g[n].prev] ELSE g
      e == IF n = first THEN [f EXCEPT ![c].child = f[n].next] ELSE f
  IN  [e EXCEPT ![n].prev = NULL, ![n].next = NULL]

\* cJSON_DetachItemViaPointer(): the neighbours, then the first or the last.
Detached(h, c, n) ==
  LET first == h[c].child
      g == IF n # first THEN [h EXCEPT ![h[n].prev].next = h[n].next] ELSE h
      f == IF g[n].next # NULL THEN [g EXCEPT ![g[n].next].prev = g[n].prev] ELSE g
      e == IF n = first THEN [f EXCEPT ![c].child = f[n].next]
           ELSE IF f[n].next = NULL THEN [f EXCEPT ![first].prev = f[n].prev] ELSE f
  IN  [e EXCEPT ![n].prev = NULL, ![n].next = NULL]

\* cJSON_InsertItemInArray() before a member.
Inserted(h, c, n, after) ==
  LET before == h[after].prev
      g == [h EXCEPT ![n].next = after, ![n].prev = before, ![after].prev = n]
  IN  IF after = h[c].child THEN [g EXCEPT ![c].child = n]
                            ELSE [g EXCEPT ![before].next = n]

\* cJSON_Delete() of an item with what hangs on it.
Freed(h, n) == LET gone == Subtree(h, n) IN [m \in Items |-> IF m \in gone THEN Blank ELSE h[m]]

\* A fault of Replaced: the first item does not learn who is last now.
ReplacedNotLast(h, c, old, new) ==
  LET g == [h EXCEPT ![new].next = h[old].next, ![new].prev = h[old].prev]
      f == IF g[new].next # NULL THEN [g EXCEPT ![g[new].next].prev = new] ELSE g
      e == IF f[c].child = old
           THEN [f EXCEPT ![c].child = new, ![new].prev = IF f[old].prev = old THEN new ELSE @]
           ELSE [f EXCEPT ![f[new].prev].next = new]
  IN  Freed([e EXCEPT ![old].next = NULL, ![old].prev = NULL], old)

\* cJSON_ReplaceItemViaPointer().
Replaced(h, c, old, new) ==
  LET g == [h EXCEPT ![new].next = h[old].next, ![new].prev = h[old].prev]
      f == IF g[new].next # NULL THEN [g EXCEPT ![g[new].next].prev = new] ELSE g
      e == IF f[c].child = old
           THEN [f EXCEPT ![c].child = new, ![new].prev = IF f[old].prev = old THEN new ELSE @]
           ELSE LET d == [f EXCEPT ![f[new].prev].next = new]
                IN  IF d[new].next = NULL THEN [d EXCEPT ![d[c].child].prev = new] ELSE d
  IN  Freed([e EXCEPT ![old].next = NULL, ![old].prev = NULL], old)

\* The items x of a tree with the root n copied to f[x], and linked to each other as the
\* originals are.
Copied(h, n, f) ==
  LET copy(m) == IF m = NULL THEN NULL ELSE f[m] IN
  [m \in Items |->
    IF m \notin In(f) THEN h[m]
    ELSE LET x == CHOOSE x \in DOMAIN f : f[x] = m
         IN  [h[x] EXCEPT !.child = copy(@), !.next = IF x = n THEN NULL ELSE copy(@),
                          !.prev = IF x = n THEN NULL ELSE copy(@)]]

\* A copy by way of text: the root has no name, nor have members of arrays.
AsRead(h, n, f) ==
  LET named == {f[m] : m \in {x \in DOMAIN f : \E c \in DOMAIN f : h[c].type = "object" /\ x \in In(List(h, c))}}
      g == Copied(h, n, f)
  IN  [m \in Items |->
        IF m \notin In(f) THEN g[m]
        ELSE [g[m] EXCEPT !.key = IF m \in named THEN @ ELSE NoKey,
                          !.value = IF g[m].type = "leaf" THEN Read(@) ELSE @]]
-----------------------------------------------------------------------------
(* What the application does with items.                                   *)

\* An item is not made a member of something in it.
MayHold(c, n) == c \in Containers /\ c \notin Subtree(item, n)

\* cJSON_CreateObject(), cJSON_CreateNumber() and so on.
Create ==
  \E n \in Items \ Live :
    /\ \/ \E v \in Leaves : item' = [item EXCEPT ![n].type = "leaf", ![n].value = v]
       \/ \E t \in {"object", "array"} : item' = [item EXCEPT ![n].type = t]
    /\ held' = held \cup {n}

AddToArray ==
  \E n \in held, c \in Containers :
    /\ item[c].type = "array" /\ MayHold(c, n)
    /\ item' = Appended(item, c, n) /\ held' = held \ {n}

\* add_item_to_object(): the name first.
AddToObject ==
  \E n \in held, c \in Containers, k \in Keys :
    /\ item[c].type = "object" /\ MayHold(c, n)
    /\ item' = Appended([item EXCEPT ![n].key = k], c, n) /\ held' = held \ {n}

Insert ==
  \E n \in held, c \in Containers :
    \E i \in DOMAIN List(item, c) :
      /\ item[c].type = "array" /\ MayHold(c, n)
      /\ item' = Inserted(item, c, n, List(item, c)[i]) /\ held' = held \ {n}

DetachFromObject ==
  \E c \in Containers, k \in Keys :
    LET n == Find(item, c, k) IN
    /\ n # NULL
    /\ item' = Detached(item, c, n) /\ held' = held \cup {n}

\* cJSON_DeleteItemFromObject().
DeleteFromObject ==
  \E c \in Containers, k \in Keys :
    LET n == Find(item, c, k) IN
    /\ n # NULL
    /\ item' = Freed(Detached(item, c, n), n) /\ UNCHANGED held

\* cJSON_ReplaceItemInObject(): the replacement has the name even when there is nothing
\* to replace, and remains the caller's then.
ReplaceInObject ==
  \E n \in held, c \in Containers, k \in Keys :
    LET named == [item EXCEPT ![n].key = k]
        old == Find(named, c, k)
    IN  /\ MayHold(c, n)
        /\ IF old = NULL THEN item' = named /\ UNCHANGED held
           ELSE item' = Replaced(named, c, old, n) /\ held' = held \ {n}

Delete ==
  \E n \in held : item' = Freed(item, n) /\ held' = held \ {n}

\* Where the items of a tree are copied to.
Copies(n) ==
  {f \in [Subtree(item, n) -> Items \ Live] : \A x, y \in DOMAIN f : f[x] = f[y] => x = y}

\* cJSON_Duplicate(), with the members; nothing is left when an allocation fails.
Duplicate ==
  \E n \in Live : \E f \in Copies(n) : item' = Copied(item, n, f) /\ held' = held \cup {f[n]}

\* A tree is written to a file and read from it.
Reread ==
  \E n \in Live : \E f \in Copies(n) : item' = AsRead(item, n, f) /\ held' = held \cup {f[n]}

\* The migration of settings (main.c) scales valueint of a number, here by 2, and leaves
\* valuedouble.
AssignInt ==
  \E n \in Live :
    /\ item[n].type = "leaf" /\ item[n].value.kind = "number"
    /\ item' = [item EXCEPT ![n].value.int = ToInt(2 * @)]
    /\ UNCHANGED held

Operations ==
  \/ Create \/ AddToArray \/ AddToObject \/ Insert \/ DetachFromObject
  \/ DeleteFromObject \/ ReplaceInObject \/ Delete \/ Duplicate \/ AssignInt

ItemsNext == Operations \/ Reread

ItemsSpec == Init /\ [][ItemsNext]_vars
-----------------------------------------------------------------------------
\* The links of a list: forward to its end, and back from the first one to the last.
Linked(c) ==
  LET l == List(item, c) IN
  /\ l # <<>> => item[l[Len(l)]].next = NULL /\ item[l[1]].prev = l[Len(l)]
  /\ \A i \in 2..Len(l) : item[l[i]].prev = l[i - 1]

\* In every reachable memory the lists are linked both ways, nothing freed is in one, an
\* item has one owner, the caller or a list, and each is in a tree the caller has: none is
\* lost and none would be freed twice (cJSON_DetachItemViaPointer(), cJSON.c:2205;
\* cJSON_ReplaceItemViaPointer(), cJSON.c:2315; cJSON_Delete(), cJSON.c:253).
WellFormed ==
  /\ held \subseteq Live
  /\ \A c \in Containers : Linked(c) /\ In(List(item, c)) \subseteq Live \ held
  /\ \A n \in Live \ held :
       \E c \in Containers : /\ n \in In(List(item, c))
                             /\ \A d \in Containers \ {c} : n \notin In(List(item, d))
  /\ Live \subseteq UNION {Subtree(item, n) : n \in held}
  /\ \A n \in Items : n \notin Containers => item[n].child = NULL
  /\ \A n \in Items \ Live : item[n] = Blank

Document == INSTANCE JsonDocument WITH
  type <- [n \in Items |-> item[n].type],
  value <- [n \in Items |-> item[n].value],
  key <- [n \in Items |-> item[n].key],
  members <- [n \in Items |-> List(item, n)]

\* Through all sequences of its operations cJSON does to the sequences of members what
\* is asked, at one place, and a copy equals its original (cJSON.c:1974, 2205, 2281,
\* 2315, 2729).
KeepsDocuments == Document!Spec
=============================================================================
