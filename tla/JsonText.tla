-------------------------------- MODULE JsonText --------------------------------
(***************************************************************************)
(* Values of cJSON and their text (cJSON.c): printing, parsing, and what of  *)
(* a value is lost on the way.  A text is a sequence of characters; white    *)
(* space, where the formatted text has some, is one character, and a number  *)
(* has one digit.                                                            *)
(***************************************************************************)
EXTENDS JsonValues

LOCAL INSTANCE SequencesExt

True == [kind |-> "true"]
Array(s) == [kind |-> "array", items |-> [i \in DOMAIN s |-> [key |-> NoKey, value |-> s[i]]]]
Object(s) == [kind |-> "object", items |-> s]

\* What of a value is printed and read: no names in an array.
RECURSIVE Printed(_)
Printed(v) ==
  CASE v.kind \in {"object", "array"} ->
         [v EXCEPT !.items = [i \in DOMAIN v.items |->
            [key |-> IF v.kind = "object" THEN v.items[i].key ELSE NoKey,
             value |-> Printed(v.items[i].value)]]]
    [] OTHER -> Read(v)
-----------------------------------------------------------------------------
Quote == "\""
Backslash == "\\"

\* A control character that is escaped by number; others have an escape of their own.
Bell == "bell"
Escapes == [c \in {Quote, Backslash, "tab"} |-> IF c = "tab" THEN "t" ELSE c]

\* print_string_ptr() of one character.
Escaped(c) ==
  IF c \in DOMAIN Escapes THEN <<Backslash, Escapes[c]>>
  ELSE IF c = Bell THEN <<Backslash, "u", "0", "0", "0", "7">>
  ELSE <<c>>

RECURSIVE Joined(_)
Joined(texts) == IF texts = <<>> THEN <<>> ELSE Head(texts) \o Joined(Tail(texts))

\* A fault of Extra: one character more for each escape.
ExtraOne(c) == IF c \in DOMAIN Escapes \cup {Bell} THEN 1 ELSE 0

\* What the counting pass of print_string_ptr() adds for a character.
Extra(c) == IF c \in DOMAIN Escapes THEN 1 ELSE IF c = Bell THEN 5 ELSE 0

\* The character at a position, NUL behind the last.
At(t, i) == IF i <= Len(t) THEN t[i] ELSE "NUL"

\* A string is copied as it is when the count finds nothing to escape, and the closing
\* quote is put where the count says that the text ends.
PrintString(s) ==
  LET extra == FoldSeq(LAMBDA c, n : n + Extra(c), 0, s)
      body == IF extra = 0 THEN s ELSE Joined([i \in DOMAIN s |-> Escaped(s[i])])
  IN  <<Quote>> \o [i \in 1..(Len(s) + extra) |-> At(body, i)] \o <<Quote>>

Digits == <<"0", "1", "2", "3", "4", "5", "6", "7", "8", "9">>

\* print_number(): the int when it is the double, else the double.
PrintNumber(v) == <<Digits[IF v.double = v.int THEN v.int + 1 ELSE v.double + 1]>>

\* print_value(), print_array(), print_object().  White space, where the formatted text
\* has it, is one character.
RECURSIVE Text(_, _)
Text(v, format) ==
  LET space == IF format THEN <<" ">> ELSE <<>>
      comma(i) == IF i < Len(v.items) THEN <<",">> ELSE <<>>
      member(i) == space \o PrintString(v.items[i].key) \o <<":">> \o space
                         \o Text(v.items[i].value, format) \o comma(i) \o space
      element(i) == Text(v.items[i].value, format)
                    \o comma(i) \o IF i < Len(v.items) THEN space ELSE <<>>
  IN  CASE v.kind = "true" -> <<"t", "r", "u", "e">>
        [] v.kind = "number" -> PrintNumber(v)
        [] v.kind = "string" -> PrintString(v.text)
        [] v.kind = "array" -> <<"[">> \o Joined([i \in DOMAIN v.items |-> element(i)]) \o <<"]">>
        [] v.kind = "object" ->
             <<"{">> \o space \o Joined([i \in DOMAIN v.items |-> member(i)]) \o <<"}">>

\* Whether a text is there: can_read() and strncmp().
Reads(t, i, s) == \A j \in DOMAIN s : At(t, i + j - 1) = s[j]

\* buffer_skip_whitespace().
Skip(t, i) ==
  CHOOSE j \in i..(Len(t) + 1) : At(t, j) # " " /\ \A k \in i..(j - 1) : At(t, k) = " "

Failure == [ok |-> FALSE]

\* The first pass of parse_string(): the closing quote, and the backslashes before it.
RECURSIVE Closing(_, _, _)
Closing(t, i, skipped) ==
  CASE At(t, i) = Quote -> [ok |-> TRUE, at |-> i, skipped |-> skipped]
    [] At(t, i) = "NUL" -> Failure
    [] At(t, i) = Backslash -> Closing(t, i + 2, skipped + 1)
    [] OTHER -> Closing(t, i + 1, skipped)

\* The second pass, up to the closing quote.
RECURSIVE Unescaped(_, _, _, _)
Unescaped(t, i, end, s) ==
  LET e == At(t, i + 1)
      plain == {d \in DOMAIN Escapes : Escapes[d] = e}
  IN  CASE i >= end -> [ok |-> TRUE, text |-> s, at |-> end + 1]
        [] i < end /\ t[i] = Backslash ->
             IF plain # {} THEN Unescaped(t, i + 2, end, Append(s, CHOOSE d \in plain : TRUE))
             ELSE IF e = "u" /\ Reads(t, i + 2, <<"0", "0", "0", "7">>)
             THEN Unescaped(t, i + 6, end, Append(s, Bell))
             ELSE Failure
        [] OTHER -> Unescaped(t, i + 1, end, Append(s, t[i]))

\* A string that is longer than the memory the first pass counted is no string.
ParseString(t, i) ==
  LET first == IF At(t, i) = Quote THEN Closing(t, i + 1, 0) ELSE Failure
      text == Unescaped(t, i + 1, first.at, <<>>)
  IN  IF first.ok /\ text.ok /\ Len(text.text) <= first.at - i - first.skipped
      THEN text ELSE Failure

\* A fault of Closed: the end of the text closes a list.
ClosedByEnd(t, i, close) == At(t, i) \in {close, "NUL"}

\* A list ends with its bracket.
Closed(t, i, close) == At(t, i) = close

\* parse_value(), parse_array(), parse_object(): a value and where it ends.
RECURSIVE ParseValue(_, _), ParseItems(_, _, _, _)
ParseValue(t, i) ==
  CASE Reads(t, i, <<"t", "r", "u", "e">>) -> [ok |-> TRUE, value |-> True, at |-> i + 4]
    [] At(t, i) = Quote ->
         LET s == ParseString(t, i) IN
         IF s.ok THEN [ok |-> TRUE, value |-> String(s.text), at |-> s.at] ELSE Failure
    [] At(t, i) \in In(Digits) ->
         [ok |-> TRUE, value |-> Number((CHOOSE d \in 1..10 : Digits[d] = At(t, i)) - 1),
          at |-> i + 1]
    [] At(t, i) \in {"[", "{"} ->
         LET kind == IF At(t, i) = "[" THEN "array" ELSE "object"
             close == IF kind = "array" THEN "]" ELSE "}"
             first == Skip(t, i + 1)
         IN  IF At(t, first) = close
             THEN [ok |-> TRUE, value |-> [kind |-> kind, items |-> <<>>], at |-> first + 1]
             ELSE ParseItems(t, first, kind, <<>>)
    [] OTHER -> Failure

\* The rest of a list; what was read of one that fails is deleted.
ParseItems(t, i, kind, items) ==
  LET name == IF kind = "object" THEN ParseString(t, i)
              ELSE [ok |-> TRUE, text |-> NoKey, at |-> i]
      colon == Skip(t, name.at)
      from == IF kind = "object" THEN Skip(t, colon + 1) ELSE name.at
      v == ParseValue(t, from)
      end == Skip(t, v.at)
      read == Append(items, [key |-> name.text, value |-> v.value])
  IN  IF ~name.ok \/ (kind = "object" /\ At(t, colon) # ":") \/ ~v.ok THEN Failure
      ELSE IF At(t, end) = "," THEN ParseItems(t, Skip(t, end + 1), kind, read)
      ELSE IF Closed(t, end, IF kind = "array" THEN "]" ELSE "}")
      THEN [ok |-> TRUE, value |-> [kind |-> kind, items |-> read], at |-> end + 1]
      ELSE Failure

\* cJSON_Parse(): what follows the value is not looked at.
Parse(t) == ParseValue(t, Skip(t, 1))
=============================================================================
