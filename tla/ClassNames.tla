------------------------------- MODULE ClassNames -------------------------------
(***************************************************************************)
(* The names of the classes (labelparse.c): labels.txt is read into one     *)
(* buffer, which is cut into strings where it lies, and the names are       *)
(* pointers into it.                                                        *)
(***************************************************************************)
EXTENDS Integers, Sequences, FiniteSets

CONSTANTS
  Letter, LF, CR, NUL,   \* what a file consists of
  MaxFile,               \* bound: the length of a file
  MaxName                \* MAX_LABEL_LENGTH

VARIABLES
  content,   \* history: what was read of labels.txt
  names      \* modelLabels: the buffer and where in it each name begins

vars == <<content, names>>

NoNames == [buffer |-> <<>>, at |-> <<>>]

Init == content = <<>> /\ names = NoNames

Files == UNION {[1 .. n -> {Letter, LF, CR, NUL}] : n \in 0 .. MaxFile}
-----------------------------------------------------------------------------
\* The first place from p on with a NUL, or end if there is none before it.
Stop(text, p, end) ==
  CHOOSE q \in p .. end : /\ q = end \/ text[q] = NUL
                          /\ \A r \in p .. q - 1 : text[r] # NUL

\* strlen() at p: up to the NUL that is in the buffer or behind it.
LengthAt(buffer, p) == Stop(buffer, p, Len(buffer) + 1) - p

Named(n, p) == SubSeq(n.buffer, p, p + LengthAt(n.buffer, p) - 1)

\* Terminates one string in place of the newline at i, and the carriage return before it.
EndLine(buffer, i) ==
  [j \in DOMAIN buffer |-> IF j = i \/ (j = i - 1 /\ buffer[j] = CR) THEN NUL ELSE buffer[j]]

\* A fault of Line: blank lines have no name.
LineUnlessBlank(n, i) ==
  IF n.buffer[i] # LF THEN n
  ELSE [buffer |-> EndLine(n.buffer, i),
        at |-> IF i < Len(n.buffer) /\ n.buffer[i + 1] # LF THEN Append(n.at, i + 1) ELSE n.at]

\* One character of the loop over the buffer.
Line(n, i) ==
  IF n.buffer[i] # LF THEN n
  ELSE [buffer |-> EndLine(n.buffer, i),
        at |-> IF i < Len(n.buffer) THEN Append(n.at, i + 1) ELSE n.at]

\* Names that are too long end after MaxName characters.
Shorten(n) ==
  [n EXCEPT !.buffer = [j \in DOMAIN n.buffer |->
     IF \E k \in DOMAIN n.at : /\ j = n.at[k] + MaxName
                               /\ LengthAt(n.buffer, n.at[k]) > MaxName
     THEN NUL ELSE n.buffer[j]]]

Cut(text) ==
  LET cut[i \in 0 .. Len(text)] ==
        IF i = 0 THEN [buffer |-> text, at |-> <<1>>] ELSE Line(cut[i - 1], i)
  IN  Shorten(cut[Len(text)])

\* labels_parse_file(), once per Model_Setup(): an empty file, or one that cannot be read,
\* gives no names.  A file that shrinks while it is read is taken as far as it was read.
Load ==
  /\ names = NoNames
  /\ \E text \in Files : content' = text /\ names' = IF text = <<>> THEN NoNames ELSE Cut(text)

CannotRead == names = NoNames /\ content' = <<>> /\ UNCHANGED names

\* labels_free(), from Model_Cleanup().
Free == names' = NoNames /\ content' = <<>>

\* labels_get(): the name that a detection of the class is given.
Get(class) ==
  IF class + 1 \in DOMAIN names.at THEN Named(names, names.at[class + 1]) ELSE <<"class", class>>

Next == Load \/ CannotRead \/ Free
-----------------------------------------------------------------------------
Newlines(text) == {i \in DOMAIN text : text[i] = LF}

\* How many lines end before a place.
LinesBefore(text, p) == Cardinality({i \in Newlines(text) : i < p})

\* The lines of a text by their first character and the one behind their last.
Lines(text) ==
  LET behind == Len(text) + 1
      ends == Newlines(text) \cup IF text # <<>> /\ text[Len(text)] # LF THEN {behind} ELSE {}
      Start(e) == CHOOSE b \in {0} \cup Newlines(text) :
                    b < e /\ \A c \in Newlines(text) : c < e => c <= b
  IN  {[first |-> Start(e) + 1, end |-> e] : e \in ends}

\* What a line is read as: a carriage return before its newline is not part of it, a NUL
\* ends it, and so does its length.
NameOf(text, line) ==
  LET crlf == line.end > line.first /\ line.end <= Len(text) /\ text[line.end - 1] = CR
      stop == Stop(text, line.first, IF crlf THEN line.end - 1 ELSE line.end)
      longest == line.first + MaxName
  IN  SubSeq(text, line.first, (IF stop > longest THEN longest ELSE stop) - 1)

\* Class i is named by line i of labels.txt, blank lines counted, with the line ends of
\* either system, whatever cutting the other lines in the same buffer did
\* (labelparse.c:117-144); a class without a line is named by its number.
NamesAreLines ==
  \A class \in -1 .. MaxFile :
    LET of == {l \in Lines(content) : LinesBefore(content, l.first) = class}
    IN  Get(class) = IF of = {} THEN <<"class", class>>
                     ELSE NameOf(content, CHOOSE l \in of : TRUE)
=============================================================================
