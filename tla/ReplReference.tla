---------------------------- MODULE ReplReference ---------------------------
(***************************************************************************)
(* What a session at the prompt means, said with the grammar alone: an     *)
(* item is as many lines as it takes to parse, `? goals' is a query, and   *)
(* everything else is source, as if it were appended to one file.          *)
(***************************************************************************)
EXTENDS Repl

RECURSIVE Text(_)
Text(lines) ==
  IF lines = <<>> THEN <<>> ELSE Head(lines) \o <<"newline">> \o Text(Tail(lines))

\* The events of a text that is a whole number of items, in a set.
Items(t) ==
  LET at == Skip(t, 1) IN
  IF at > Len(t) THEN {<<>>}
  ELSE IF t[at] = "?"
    THEN {<<<<"query", "{">> \o [t EXCEPT ![at] = " "] \o <<"}">>>> :
            j \in {k \in Ends(Goal, t, at + 1) : Skip(t, k) > Len(t)}}
  ELSE {parsed.events : parsed \in {p \in {Parse(t)} : p.errors = 0}}

Outcome(events, errors) == [events |-> events, errors |-> errors]

RECURSIVE Session(_)

\* What the lines do, in a set that is empty if they end in the middle of an
\* item or never make one.
Session(lines) ==
  IF lines = <<>> THEN {Outcome(<<>>, 0)}
  ELSE LET before(events, errors, others) ==
             {Outcome(events \o o.events, errors + o.errors) : o \in others}
           line == Head(lines)
           lengths == {n \in DOMAIN lines : Items(Text(SubSeq(lines, 1, n))) # {}}
  IN
  IF Blank(line) THEN Session(Tail(lines))
  ELSE IF IsCommand(line)
    THEN IF Word(line, 2) = "load" /\ Word(line, 3) \in DOMAIN Files
           THEN LET parsed == Parse(Files[Word(line, 3)])
                IN  before(parsed.events, parsed.errors, Session(Tail(lines)))
           ELSE Session(Tail(lines))
  ELSE IF lengths = {} THEN {}
  ELSE LET n == Min(lengths)
       IN  UNION {before(events, 0, Session(SubSeq(lines, n + 1, Len(lines)))) :
                    events \in Items(Text(SubSeq(lines, 1, n)))}

\* What runs is what was typed, once all of it makes items: no terminator in a
\* string, a comment or a bracket ends an item early, and none is overlooked.
\* The lines are typed straight on: no item is abandoned and no comment is left
\* open before one.
RunsWhatIsTyped ==
  pending = <<>> /\ ~strayed =>
    \A o \in Session(typed) : executed = o.events /\ errorCount = o.errors

\* Source typed without commands and questions runs exactly as if it were one
\* file, however it is cut into lines.
LikeOneFile ==
  LET file == Parse(Text(typed)) IN
  pending = <<>> /\ ~strayed /\ file.errors = 0 /\ (\A k \in DOMAIN typed : ~IsCommand(typed[k])) =>
    executed = file.events /\ errorCount = 0

\* The prompt does not wait for more where nothing is missing.
HoldsNothingBack == pending # <<>> /\ ~strayed => Session(typed) = {}

\* A session that exits with success has run all that was typed: nothing in it
\* was taken for something else, cut off or left over.
ErrorsTell ==
  done /\ errorCount = 0 /\ ~strayed =>
    \E o \in Session(typed) : executed = o.events

=============================================================================
