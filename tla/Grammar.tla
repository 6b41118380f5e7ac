------------------------------ MODULE Grammar -------------------------------
(***************************************************************************)
(* The grammar of .ufy source (ClauseParser and ufy_skipper,               *)
(* vault-unify-parser.hpp) and how a text is parsed event by event         *)
(* (RuntimeContext::parseExecuteSegment()).                                *)
(*                                                                         *)
(* A text is a sequence of characters, where a word, a variable, a number  *)
(* and an operator count as one.  The grammar is a parsing expression      *)
(* grammar: a && b is a then b, a || b is b only where a does not match,   *)
(* and what has matched is not tried again.  Space may stand between the   *)
(* words of one name, as it does in the source.                            *)
(***************************************************************************)
EXTENDS Naturals, Sequences, FiniteSetsExt

CONSTANTS
  Words,      \* words, the keywords among them
  Variables,  \* words that begin with a dollar sign
  Digits

Space == {" ", "newline"}

One(chars) == [is |-> "one", of |-> chars]
Lit(c) == One({c})
Rule(name) == [is |-> "rule", of |-> name]
QuotedString == [is |-> "string"]
Maybe(e) == [is |-> "maybe", of |-> e]
OneOrMore(e) == [is |-> "some", of |-> e]
Many(e) == Maybe(OneOrMore(e))
a && b == [is |-> "then", first |-> a, second |-> b]
a || b == [is |-> "or", first |-> a, second |-> b]
Separated(e, c) == e && Many(Lit(c) && e)

-----------------------------------------------------------------------------
(* The rules.                                                              *)

Id == One(Words \cup Variables) && Many(One(Words \cup Digits))
Number == OneOrMore(One(Digits))
Atom == Id || Number || QuotedString
MapPair == Atom && Lit(":") && Rule("AnyTerm")
MapTerm == Lit("{") && Separated(MapPair, ",") && Lit("}")
ArrayTerm == Lit("[") && Separated(Rule("AnyTerm"), ",") && Lit("]")
ConsTerm == Atom && Maybe(Lit("(") && Separated(Rule("AnyTerm"), ",") && Lit(")"))
AnyConsTerm == ConsTerm || MapTerm || ArrayTerm
\* The bracket is not closed.
ArrayDeref == Rule("AnyConsTerm") && Maybe(Lit("[") && Rule("AnyConsTerm"))
AssignmentPart == ArrayDeref && Maybe(Lit("->") && ArrayDeref)
PrefixTerm == Maybe(Lit("-")) && AssignmentPart
Multiplicative == PrefixTerm && Many(One({"*", "/"}) && PrefixTerm)
Additive == Rule("Multiplicative") && Many(One({"+", "-"}) && Rule("Multiplicative"))
RangeTerm == Additive && Maybe(Lit("..") && Additive)
Comparison == RangeTerm && Maybe(One({"==", "!=", "<=", ">=", "<", ">"}) && RangeTerm)
InfixTerm == Rule("Comparison") && Maybe(Lit("=") && Rule("Comparison"))
AnyTerm == InfixTerm

SingleGoal == Maybe(Lit("!")) && Rule("AnyTerm")
Body == Lit("{") && Rule("Goal") && Lit("}")
IfStatement == Lit("if") && Lit("(") && SingleGoal && Lit(")") && Body
ForeachStatement ==
  Lit("foreach") && Lit("(") && ConsTerm && Lit(":") && Rule("AnyTerm") && Lit(")") && Body
ForStatement ==
  Lit("for") && Lit("(") && SingleGoal && Lit(";") && SingleGoal && Lit(";") && SingleGoal
    && Lit(")") && Body
AnyStatement == ForeachStatement || ForStatement || IfStatement || (SingleGoal && Lit(";"))
Goal == OneOrMore(AnyStatement)
Clause == (ConsTerm && Body) || (ConsTerm && Lit(";"))
Query == Lit("query") && Body
Import == Lit("import") && QuotedString && Lit(";")
Event == Import || Query || Clause

Rules == [AnyConsTerm |-> AnyConsTerm, Multiplicative |-> Multiplicative,
          Comparison |-> Comparison, AnyTerm |-> AnyTerm, Goal |-> Goal]

-----------------------------------------------------------------------------
(* Matching an expression with a text t from position i.                   *)

\* Where a comment that begins at i ends, if it does.
CommentEnds(t, i) ==
  IF i >= Len(t) \/ t[i] # "/" THEN {}
  ELSE IF t[i+1] = "*"
         THEN {j + 2 : j \in {k \in (i+2)..(Len(t)-1) : t[k] = "*" /\ t[k+1] = "/"}}
  ELSE IF t[i+1] = "/"
         THEN {j + 1 : j \in {k \in (i+2)..Len(t) : t[k] = "newline"}}
  ELSE {}

RECURSIVE Skip(_, _)
Skip(t, i) ==
  IF i <= Len(t) /\ t[i] \in Space THEN Skip(t, i + 1)
  ELSE LET ends == CommentEnds(t, i)
       IN  IF ends = {} THEN i ELSE Skip(t, Min(ends))

\* What a backslash may stand before.
Escapes == {"quote", "backslash"} \cup Words

RECURSIVE Unquoted(_, _)

\* Where the contents of a string stop; nothing is skipped in them.
Unquoted(t, i) ==
  IF i > Len(t) \/ t[i] = "quote" THEN i
  ELSE IF t[i] # "backslash" THEN Unquoted(t, i + 1)
  ELSE IF i < Len(t) /\ t[i+1] \in Escapes THEN Unquoted(t, i + 2)
  ELSE i

RECURSIVE Ends(_, _, _)

\* The position after the match, in a set that is empty if there is none.
Ends(e, t, i) ==
  CASE e.is = "one" -> {j + 1 : j \in {k \in {Skip(t, i)} : k <= Len(t) /\ t[k] \in e.of}}
    [] e.is = "rule" -> Ends(Rules[e.of], t, i)
    [] e.is = "string" ->
         UNION {Ends(Lit("quote"), t, Unquoted(t, j)) : j \in Ends(Lit("quote"), t, i)}
    [] e.is = "then" -> UNION {Ends(e.second, t, j) : j \in Ends(e.first, t, i)}
    [] e.is = "or" ->
         LET found == Ends(e.first, t, i) IN IF found # {} THEN found ELSE Ends(e.second, t, i)
    [] e.is = "maybe" -> LET found == Ends(e.of, t, i) IN IF found # {} THEN found ELSE {i}
    [] e.is = "some" -> UNION {Ends(Maybe(e), t, j) : j \in Ends(e.of, t, i)}

RECURSIVE ParseFrom(_, _)

\* The events of a text, each as it stands there; the first that is none ends it.
ParseFrom(t, i) ==
  IF i > Len(t) THEN [events |-> <<>>, errors |-> 0]
  ELSE LET ends == Ends(Event, t, i)
       IN  IF ends = {} THEN [events |-> <<>>, errors |-> 1]
           ELSE LET j == Min(ends)
                    others == ParseFrom(t, Skip(t, j))
                IN  [events |-> <<SubSeq(t, Skip(t, i), j - 1)>> \o others.events,
                     errors |-> others.errors]

Parse(t) == ParseFrom(t, 1)

=============================================================================
