------------------------------ MODULE JsonDocument ------------------------------
(***************************************************************************)
(* What a caller of cJSON may rely on: items form trees, an object or array *)
(* is the sequence of its members, and an operation changes one of them at  *)
(* one place.  How the members are linked is not its business.              *)
(***************************************************************************)
EXTENDS Naturals, Sequences, FiniteSets

CONSTANTS
  Items,   \* names of items
  NoKey,   \* the name of an item that never was a member
  Read(_)  \* what of a value is printed and read

VARIABLES
  held,    \* the items the caller has, roots of trees
  type,    \* per item: "free", "object", "array" or "leaf"
  value,   \* per item: its value, when it is a leaf
  key,     \* per item: its name
  members  \* per item: its members

doc == <<held, type, value, key, members>>

In(s) == {s[i] : i \in DOMAIN s}

Free == {n \in Items : type[n] = "free"}

\* The items of a tree.
TreeOf(n) ==
  LET tree[i \in 0 .. Cardinality(Items)] ==
        IF i = 0 THEN {n} ELSE UNION {{c} \cup In(members[c]) : c \in tree[i - 1]}
  IN  tree[Cardinality(Items)]

Init ==
  /\ held = {}
  /\ type = [n \in Items |-> "free"]
  /\ members = [n \in Items |-> <<>>]
  /\ key = [n \in Items |-> NoKey]
  /\ value = [n \in Items |-> NoKey]

Create ==
  \E n \in Free :
    /\ held' = held \cup {n}
    /\ type'[n] \in {"object", "array", "leaf"}
    /\ type' = [type EXCEPT ![n] = type'[n]]
    /\ value' = [value EXCEPT ![n] = value'[n]]
    /\ UNCHANGED <<key, members>>

\* A sequence with an element more, before place i, and with one less.
With(s, i, n) ==
  [j \in 1 .. Len(s) + 1 |-> IF j < i THEN s[j] ELSE IF j = i THEN n ELSE s[j - 1]]

Without(s, i) == [j \in 1 .. Len(s) - 1 |-> IF j < i THEN s[j] ELSE s[j + 1]]

\* A held item becomes a member; a name is new for objects.
Insert ==
  \E n \in held :
    /\ held' = held \ {n}
    /\ UNCHANGED <<type, value>>
    /\ key' = [key EXCEPT ![n] = key'[n]]
    /\ \E c \in Items : \E i \in 1 .. Len(members[c]) + 1 :
         members' = [members EXCEPT ![c] = With(@, i, n)]

Detach ==
  /\ UNCHANGED <<type, value, key>>
  /\ \E c \in Items : \E i \in DOMAIN members[c] :
       /\ held' = held \cup {members[c][i]}
       /\ members' = [members EXCEPT ![c] = Without(@, i)]

\* A tree is freed, and nothing else; a container that is not has new members.
Freed(tree, c, new) ==
  /\ type' = [m \in Items |-> IF m \in tree THEN "free" ELSE type[m]]
  /\ value' = [m \in Items |-> IF m \in tree THEN NoKey ELSE value[m]]
  /\ members' = [m \in Items |-> IF m \in tree THEN <<>> ELSE IF m = c THEN new ELSE members[m]]

Delete ==
  \E n \in held :
    /\ held' = held \ {n}
    /\ LET tree == TreeOf(n) IN
       /\ key' = [m \in Items |-> IF m \in tree THEN NoKey ELSE key[m]]
       /\ Freed(tree, n, <<>>)

DeleteMember ==
  /\ UNCHANGED held
  /\ \E c \in Items : \E i \in DOMAIN members[c] :
       LET tree == TreeOf(members[c][i]) IN
       /\ key' = [m \in Items |-> IF m \in tree THEN NoKey ELSE key[m]]
       /\ Freed(tree, c, Without(members[c], i))

\* A held item takes the place of a member, which is freed.
Replace ==
  \E n \in held :
    /\ held' = held \ {n}
    /\ \E c \in Items : \E i \in DOMAIN members[c] :
         LET tree == TreeOf(members[c][i]) IN
         /\ key' = [m \in Items |-> IF m \in tree THEN NoKey
                                    ELSE IF m = n THEN key'[n]
                                    ELSE key[m]]
         /\ Freed(tree, c, [members[c] EXCEPT ![i] = n])

\* A tree beside the others with a new item f[x] for each item x of one there is.  What is
\* written and read has other values, and names in objects alone.
Copied(old, new, f) ==
  [m \in Items |-> IF m \in In(f) THEN new[CHOOSE x \in DOMAIN f : f[x] = m] ELSE old[m]]

InObject(tree, m) == \E c \in tree : type[c] = "object" /\ m \in In(members[c])

Copy ==
  \E n \in Items \ Free : \E f \in [TreeOf(n) -> Free] :
    /\ \A x, y \in DOMAIN f : f[x] = f[y] => x = y
    /\ held' = held \cup {f[n]}
    /\ type' = Copied(type, type, f)
    /\ members' = Copied(members, [x \in DOMAIN f |-> [i \in DOMAIN members[x] |-> f[members[x][i]]]], f)
    /\ \/ value' = Copied(value, value, f) /\ key' = Copied(key, key, f)
       \/ /\ value' = Copied(value, [x \in DOMAIN f |-> IF type[x] = "leaf" THEN Read(value[x]) ELSE NoKey], f)
          /\ key' = Copied(key, [x \in DOMAIN f |-> IF InObject(DOMAIN f, x) THEN key[x] ELSE NoKey], f)

\* A name is set before an operation that fails; a value is written in place.
Edit ==
  /\ UNCHANGED <<held, type, members>>
  /\ \E n \in Items \ Free :
       /\ key' = [key EXCEPT ![n] = key'[n]]
       /\ value' = [value EXCEPT ![n] = value'[n]]

Next == Create \/ Insert \/ Detach \/ Delete \/ DeleteMember \/ Replace \/ Copy \/ Edit

Spec == Init /\ [][Next]_doc
=============================================================================
