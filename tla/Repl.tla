-------------------------------- MODULE Repl --------------------------------
(***************************************************************************)
(* The prompt (unify-repl.cpp): lines are collected until they look like   *)
(* an item, which is then parsed and run before the next line is read.     *)
(*                                                                         *)
(* Whether an item is complete is decided by scanForm(), which knows       *)
(* strings, comments and brackets and nothing else of the grammar; what    *)
(* the parser takes the text for is the module Grammar's.  Running an      *)
(* event, and its own errors, are the module Runtime's: here an event is   *)
(* executed when it is parsed.                                             *)
(***************************************************************************)
EXTENDS Grammar

CONSTANTS
  Lines,     \* the lines that may be typed
  Files,     \* the texts of the files that :load can read, by name
  MaxLines   \* bound on the lines read

ASSUME ReplAssumption == MaxLines \in Nat /\ {"quit", "load"} \subseteq Words

VARIABLES
  pending,     \* the text of the item being typed
  executed,    \* the events parsed, in order
  errorCount,  \* counters.errorCount, the errors of the parser and the input
  done,        \* runRepl() has returned
  typed,       \* history: the lines read
  strayed      \* history: an item was abandoned, or a comment left open before one
vars == <<pending, executed, errorCount, done, typed, strayed>>

Init ==
  /\ pending = <<>> /\ executed = <<>> /\ errorCount = 0 /\ done = FALSE
  /\ typed = <<>> /\ strayed = FALSE

-----------------------------------------------------------------------------
(* scanForm().                                                             *)

Opening == {"(", "[", "{"}
Closing == {")", "]", "}"}

FormScan == [at |-> 1, in |-> "code", depth |-> 0, first |-> 0, last |-> 0]

Pair(t, i, c, d) == i < Len(t) /\ t[i] = c /\ t[i+1] = d

\* Go on n characters later, in a string, a comment or neither.
Skipping(s, n, in) == [s EXCEPT !.at = @ + n, !.in = in]

\* The character is neither space nor part of a comment.
Significant(s) == [s EXCEPT !.first = IF @ = 0 THEN s.at ELSE @, !.last = s.at]

\* A slip: a backslash is a character like any other.
ScanStringUnescaped(t, s) ==
  IF t[s.at] = "quote" THEN Skipping(Significant(s), 1, "code") ELSE Skipping(s, 1, "string")

ScanString(t, s) ==
  IF t[s.at] = "backslash" /\ s.at < Len(t) THEN Skipping(s, 2, "string")
  ELSE IF t[s.at] = "quote" THEN Skipping(Significant(s), 1, "code")
  ELSE Skipping(s, 1, "string")

ScanBlockComment(t, s) ==
  IF Pair(t, s.at, "*", "/") THEN Skipping(s, 2, "code") ELSE Skipping(s, 1, "block")

ScanLineComment(t, s) ==
  IF t[s.at] = "newline" THEN Skipping(s, 1, "code") ELSE Skipping(s, 1, "line")

\* A slip: brackets are not counted.
NestedFlat(depth, c) == 0

\* A closing bracket too many is left for the parser to complain about.
Nested(depth, c) ==
  IF c \in Opening THEN depth + 1
  ELSE IF c \in Closing /\ depth > 0 THEN depth - 1 ELSE depth

ScanCode(t, s) ==
  IF Pair(t, s.at, "/", "/") THEN Skipping(s, 2, "line")
  ELSE IF Pair(t, s.at, "/", "*") THEN Skipping(s, 2, "block")
  ELSE IF t[s.at] = "quote" THEN Skipping(Significant(s), 1, "string")
  ELSE IF t[s.at] \in Space THEN Skipping(s, 1, "code")
  ELSE Skipping([Significant(s) EXCEPT !.depth = Nested(@, t[s.at])], 1, "code")

RECURSIVE ScanFrom(_, _)
ScanFrom(t, s) ==
  IF s.at > Len(t) THEN s
  ELSE ScanFrom(t,
         CASE s.in = "string" -> ScanString(t, s)
           [] s.in = "block" -> ScanBlockComment(t, s)
           [] s.in = "line" -> ScanLineComment(t, s)
           [] OTHER -> ScanCode(t, s))

ScanForm(t) == ScanFrom(t, FormScan)

IsFormComplete(t, s) ==
  s.in \notin {"string", "block"} /\ s.depth = 0 /\ t[s.last] \in {";", "}"}

-----------------------------------------------------------------------------
(* runRepl().                                                              *)

Blank(line) == \A k \in DOMAIN line : line[k] \in Space
Word(line, n) == SelectSeq(line, LAMBDA c : c \notin Space)[n]
IsCommand(line) == ~Blank(line) /\ Word(line, 1) = ":"

\* `? goals' is a query of these goals.
Segment(t, s) ==
  IF t[s.first] = "?"
    THEN <<"query", "{">> \o [t EXCEPT ![s.first] = " "] \o <<"}", "newline">>
    ELSE t

\* parseExecuteSegment(), and the wait for the engine.
Execute(segment) ==
  LET parsed == Parse(segment)
  IN  /\ executed' = executed \o parsed.events
      /\ errorCount' = errorCount + parsed.errors

Read(line) ==
  /\ ~done /\ Len(typed) < MaxLines
  /\ typed' = Append(typed, line)

\* A slip: a line loses its end, and with it the end of a comment.
AddLineWithoutEnd(line) ==
  /\ ~Blank(line) /\ (pending # <<>> \/ ~IsCommand(line))
  /\ Read(line)
  /\ LET text == pending \o line
         scan == ScanForm(text)
     IN  IF scan.first # 0 /\ IsFormComplete(text, scan)
           THEN Execute(Segment(text, scan)) /\ pending' = <<>>
           ELSE pending' = text /\ UNCHANGED <<executed, errorCount>>
  /\ UNCHANGED <<done, strayed>>

\* The line is added to the item, and the item submitted if it is complete.
\* With nothing but comments so far there is no item, and they are dropped.
AddLine(line) ==
  /\ ~Blank(line) /\ (pending # <<>> \/ ~IsCommand(line))
  /\ Read(line)
  /\ LET text == pending \o line \o <<"newline">>
         scan == ScanForm(text)
     IN  IF scan.first = 0
           THEN /\ pending' = <<>>
                /\ strayed' = (strayed \/ scan.in = "block")
                /\ UNCHANGED <<executed, errorCount>>
         ELSE /\ IF IsFormComplete(text, scan)
                   THEN Execute(Segment(text, scan)) /\ pending' = <<>>
                   ELSE pending' = text /\ UNCHANGED <<executed, errorCount>>
              /\ UNCHANGED strayed
  /\ UNCHANGED done

\* An empty line abandons an item, and is ignored where there is none.
EmptyLine(line) ==
  /\ Blank(line)
  /\ Read(line)
  /\ pending' = <<>>
  /\ strayed' = (strayed \/ pending # <<>>)
  /\ UNCHANGED <<executed, errorCount, done>>

\* Commands are seen at the start of an item only; no space follows the colon.
Command(line, name) == pending = <<>> /\ IsCommand(line) /\ Word(line, 2) = name /\ Read(line)

\* A file that cannot be read is reported, and not counted as an error.
Load(line) ==
  /\ Command(line, "load")
  /\ IF Word(line, 3) \in DOMAIN Files
       THEN Execute(Files[Word(line, 3)]) ELSE UNCHANGED <<executed, errorCount>>
  /\ UNCHANGED <<pending, done, strayed>>

\* :help, :list and commands that there are not only print.
JustPrints(line) ==
  /\ \E name \in Words \ {"load", "quit"} : Command(line, name)
  /\ UNCHANGED <<pending, executed, errorCount, done, strayed>>

Quit(line) ==
  /\ Command(line, "quit")
  /\ done' = TRUE
  /\ UNCHANGED <<pending, executed, errorCount, strayed>>

\* A slip: what is left over is dropped without a word.
EndOfInputSilent ==
  /\ ~done
  /\ done' = TRUE
  /\ pending' = <<>>
  /\ UNCHANGED <<executed, errorCount, typed, strayed>>

\* An item that is left unfinished is an error of the input.
EndOfInput ==
  /\ ~done
  /\ done' = TRUE
  /\ pending' = <<>>
  /\ errorCount' = IF pending # <<>> THEN errorCount + 1 ELSE errorCount
  /\ UNCHANGED <<executed, typed, strayed>>

Next ==
  \/ \E line \in Lines : AddLine(line) \/ EmptyLine(line)
                          \/ Load(line) \/ JustPrints(line) \/ Quit(line)
  \/ EndOfInput

Spec == Init /\ [][Next]_vars

=============================================================================
