-------------------------- MODULE RuntimeReference --------------------------
(***************************************************************************)
(* What parsing a sequence of texts must amount to, whatever the jobs do   *)
(* meanwhile: every import replaced by the text of the file, each file     *)
(* once, and each text up to its first parse error.  This is the rule of   *)
(* the code.  That of SPEC.md differs in two places, and stands at the end *)
(* of the module.                                                          *)
(***************************************************************************)
EXTENDS Runtime, Selections

\* There are finitely many files to import.
ASSUME FilesAssumption == \A fs \in Corpora : IsFiniteSet(DOMAIN fs)

\* Somewhere in a file of the file system fs, when some have been imported.
Places(fs) ==
  [file : DOMAIN fs, pos : Nat \ {0}, once : SUBSET DOMAIN fs]

Start(file, once) == [file |-> file, pos |-> 1, once |-> once]
Behind(at, known) == [file |-> at.file, pos |-> at.pos + 1, once |-> known]

\* What a part of a text comes to: the clauses and queries in order, the files
\* imported by then, and the errors among them.
Part(items, known, n) == [items |-> items, once |-> known, errors |-> n]
Joined(part, tail) ==
  Part(part.items \o tail.items, tail.once, part.errors + tail.errors)

\* What one event comes to, E being what there is from each place on.
EventExpanded(fs, E, at) ==
  LET event == fs[at.file][at.pos] IN
  IF event.kind # "import" THEN Part(<<event>>, at.once, 0)
  ELSE IF event.file \notin DOMAIN fs THEN Part(<<>>, at.once, 1)
  ELSE IF event.file \in at.once THEN Part(<<>>, at.once, 0)
  ELSE E[Start(event.file, at.once \cup {event.file})]

\* What there is from a place on, by what there is from later ones.
Unfolded(fs, E, at) ==
  IF at.pos > Len(fs[at.file]) THEN Part(<<>>, at.once, 0)
  ELSE IF fs[at.file][at.pos].kind = "error" THEN Part(<<>>, at.once, 1)
  ELSE LET part == EventExpanded(fs, E, at)
       IN Joined(part, E[Behind(at, part.once)])

Expansion(fs) ==
  LET E[at \in Places(fs)] == Unfolded(fs, E, at) IN E

\* The expansion of some texts, one after the other, with the errors of the
\* last: before is that of the ones before it.
TextAdded(fs, before, text) ==
  LET last == Expansion(fs)[Start(text, before.once)]
  IN  [last EXCEPT !.items = before.items \o last.items]

TextsExpanded(fs, given) ==
  LET first[n \in 0..Len(given)] ==
        IF n = 0 THEN Part(<<>>, {}, 0) ELSE TextAdded(fs, first[n - 1], given[n])
  IN  first[Len(given)]

\* The clauses of a sequence of items, and each query with the number of the
\* clauses before it.
ItemsOf(items, kind) == {i \in 1..Len(items) : items[i].kind = kind}

ClausesOf(items) ==
  LET clauses == Selected(items, ItemsOf(items, "clause"))
  IN  [k \in 1..Len(clauses) |-> clauses[k].clause]

WithClausesAbove(items) ==
  [i \in 1..Len(items) |->
     <<items[i], Cardinality({j \in ItemsOf(items, "clause") : j < i})>>]

QueriesOf(items) ==
  LET queries == Selected(WithClausesAbove(items), ItemsOf(items, "query"))
  IN  [k \in 1..Len(queries) |-> <<queries[k][1].query, queries[k][2]>>]

\* The same of what the parser has done so far.
ParsedPositions == {i \in 1..Len(listClauses) : listClauses[i].by = 0}
QueryPositions == {j \in 1..Len(jobs) : jobs[j].onFinished # "barrier"}

ParsedClauses ==
  LET clauses == Selected(listClauses, ParsedPositions)
  IN  [k \in 1..Len(clauses) |-> clauses[k].clause]

ParsedQueries ==
  LET queries == Selected(jobs, QueryPositions)
  IN  [k \in 1..Len(queries) |-> <<queries[k].query, Cardinality(queries[k].above)>>]

\* Parsing the texts, imports and all, is parsing their expansion: what has
\* been parsed is a prefix of it, all of it once the parser has returned, and
\* the error count it returns is that of the expansion.  The expansion is the
\* code's: the text that main() submits is not in the once-set, so it can be met
\* again within itself, and parseExecuteSegment() leaves a text at an error.
InlineImports ==
  LET whole == TextsExpanded(contents, texts) IN
  /\ \E n \in 0..Len(whole.items) :
       /\ ParsedClauses = ClausesOf(SubSeq(whole.items, 1, n))
       /\ ParsedQueries = QueriesOf(SubSeq(whole.items, 1, n))
       /\ mainpc # "parsing" => n = Len(whole.items)
  /\ mainpc = "returned" => returned = whole.errors

-----------------------------------------------------------------------------
(* What SPEC.md says instead.                                              *)

\* SPEC.md 15.4: parsing continues after a parse error.
SpecifiedUnfolded(fs, E, at) ==
  IF at.pos > Len(fs[at.file]) THEN Part(<<>>, at.once, 0)
  ELSE LET part == IF fs[at.file][at.pos].kind = "error"
                     THEN Part(<<>>, at.once, 1)
                     ELSE EventExpanded(fs, E, at)
       IN Joined(part, E[Behind(at, part.once)])

\* SPEC.md 15.2: a file that imports itself, through others or not, is not
\* parsed again on that visit, be it the program.
SpecifiedExpansion(fs, file) ==
  LET E[at \in Places(fs)] == SpecifiedUnfolded(fs, E, at)
  IN  E[Start(file, {file})]

\* A program has been parsed as SPEC.md 15.2 and 15.4 and the comment in
\* processImport() (vault-unify-runtime-context.cpp:274) say: no file within
\* itself, and what is behind a parse error too.
ParsesAsSpecified ==
  mainpc = "returned" /\ ~session =>
    LET specified == SpecifiedExpansion(contents, texts[1]).items IN
    /\ ParsedClauses = ClausesOf(specified)
    /\ ParsedQueries = QueriesOf(specified)

=============================================================================
