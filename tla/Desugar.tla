------------------------------ MODULE Desugar -------------------------------
(***************************************************************************)
(* What the parser makes of ranges, `->', `=', `if', `for' and `foreach'   *)
(* (AnyTermFactory, vault-unify-parser.cpp): goals of builtins, and calls  *)
(* of predicates synthesized for the statement, each with a rule and a     *)
(* fact to fall back on.                                                   *)
(*                                                                         *)
(* A variable is its name.  The parser gives each synthesized clause its   *)
(* own variable objects (cloneTermTree()); here a clause keeps the names   *)
(* of its statement, and a name is read in the scope of the clause.  The   *)
(* arguments of a call are a function from what it passes: positions for   *)
(* builtins and facts, the variables passed for synthesized predicates.    *)
(* Elements of arrays and values of maps are constants.                    *)
(***************************************************************************)
EXTENDS Integers, Sequences, FiniteSetsExt

CONSTANTS
  RangeMax,   \* RANGE_MAX_ELEMENTS, RANGE_BUILTIN_MAX_ELEMENTS
  Half        \* integers are -Half .. Half - 1, as int64_t is

ASSUME DesugarAssumption == RangeMax \in Nat /\ Half \in Nat \ {0}

-----------------------------------------------------------------------------
(* Terms and statements of the source, and the goals made of them.         *)

Num(n) == [kind |-> "num", val |-> n]
Key(k) == [kind |-> "key", val |-> k]
Var(x) == [kind |-> "var", name |-> x]
Arr(s) == [kind |-> "arr", val |-> s]
MapOf(f) == [kind |-> "map", val |-> f]
Arith(op, l, r) == [kind |-> "arith", op |-> op, l |-> l, r |-> r]
RangeOf(a, b) == [kind |-> "range", from |-> a, to |-> b]
Deref(t, k) == [kind |-> "deref", of |-> t, key |-> k]

Call(p, args) == [kind |-> "call", pred |-> p, args |-> args]
Compare(op, l, r) == [kind |-> "compare", op |-> op, l |-> l, r |-> r]
Equate(l, r) == [kind |-> "equate", l |-> l, r |-> r]
If(cond, body) == [kind |-> "if", cond |-> cond, body |-> body]
ForEach(x, t, body) == [kind |-> "foreach", var |-> x, in |-> t, body |-> body]
For(x, from, cond, step, body) ==
  [kind |-> "for", var |-> x, from |-> from, cond |-> cond, step |-> step, body |-> body]

\* A goal: n tells synthesized predicates apart, and is 0 for the others.
Goal(p, n, args) == [pred |-> p, n |-> n, args |-> args]
Cut == Goal("cut", 0, <<>>)

\* Variables of the synthesized clauses that no source names.
Array == <<"array", 0>>
Index == <<"index", 0>>
Following(x) == <<"next", x>>

-----------------------------------------------------------------------------
(* A state of the parse: the variables of the query so far, the clauses    *)
(* synthesized, and the number of the next name.                           *)

Nothing == [symbols |-> {}, clauses |-> <<>>, n |-> 1]

RECURSIVE VarsIn(_)
VarsIn(t) ==
  CASE t.kind = "var" -> {t.name}
    [] t.kind = "arith" -> VarsIn(t.l) \cup VarsIn(t.r)
    [] OTHER -> {}

\* collectVarTermsOrdered() of a list of goals, as a set.
FreeVars(goals) ==
  LET vars(g) == UNION {VarsIn(g.args[a]) : a \in DOMAIN g.args}
  IN  UNION {vars(goals[k]) : k \in DOMAIN goals}

\* A predicate: its rule, and the fact that succeeds when the rule fails.
WithPredicate(st, p, params, body) ==
  LET clause(b) == [pred |-> p, n |-> st.n, head |-> [x \in params |-> Var(x)], body |-> b]
  IN  [st EXCEPT !.clauses = @ \o <<clause(body), clause(<<>>)>>, !.n = @ + 1]

\* The elements of a literal range: too many are cut off.
RangeLiteral(a, b) ==
  Arr([k \in 1..(IF b < a THEN 0 ELSE IF b - a + 1 > RangeMax THEN RangeMax ELSE b - a + 1)
         |-> Num(a + k - 1)])

\* A pre-goal that gives its result to a new variable.
WithPreGoal(st, pre, p, args) ==
  LET x == <<"anon", st.n>> IN
  [term |-> Var(x),
   pre |-> Append(pre, Goal(p, 0, Append(args, Var(x)))),
   st |-> [st EXCEPT !.symbols = @ \cup {x}, !.n = @ + 1]]

RECURSIVE DesugarTerm(_, _)

\* The term left of t, and the goals that must run before it.
DesugarTerm(t, st) ==
  CASE t.kind = "var" ->
         [term |-> t, pre |-> <<>>, st |-> [st EXCEPT !.symbols = @ \cup {t.name}]]
    [] t.kind = "arith" ->
         LET l == DesugarTerm(t.l, st)
             r == DesugarTerm(t.r, l.st)
         IN [term |-> Arith(t.op, l.term, r.term), pre |-> l.pre \o r.pre, st |-> r.st]
    [] t.kind = "range" ->
         LET a == DesugarTerm(t.from, st)
             b == DesugarTerm(t.to, a.st)
         IN IF a.term.kind = "num" /\ b.term.kind = "num"
              THEN [term |-> RangeLiteral(a.term.val, b.term.val), pre |-> <<>>, st |-> b.st]
              ELSE WithPreGoal(b.st, a.pre \o b.pre, "range", <<a.term, b.term>>)
    [] t.kind = "deref" ->
         LET m == DesugarTerm(t.of, st)
         IN WithPreGoal(m.st, m.pre, "member", <<m.term, Key(t.key)>>)
    [] OTHER -> [term |-> t, pre |-> <<>>, st |-> st]

\* `l = r': an arithmetic side is evaluated, the left one if both are.
Equation(l, r) ==
  IF l.kind = "arith" THEN Goal("eval", 0, <<l, r>>)
  ELSE IF r.kind = "arith" THEN Goal("eval", 0, <<r, l>>)
  ELSE Goal("unify", 0, <<l, r>>)

\* unify($next, $x) for each variable a loop carries on.
Rebinds(xs) ==
  FoldSet(LAMBDA x, gs : Append(gs, Goal("unify", 0, <<Var(Following(x)), Var(x)>>)), <<>>, xs)

Passing(xs) == [x \in xs |-> Var(x)]
Recursing(xs) == [x \in xs |-> Var(Following(x))]

RECURSIVE DesugarGoals(_, _)

\* `if': the rule commits to the first solution of the condition.
DesugarIf(s, st) ==
  LET cond == DesugarGoals(<<s.cond>>, st)
      body == DesugarGoals(s.body, cond.st)
      params == FreeVars(cond.goals \o body.goals)
  IN [goals |-> <<Goal("if", body.st.n, Passing(params))>>,
      st |-> WithPredicate(body.st, "if", params, cond.goals \o <<Cut>> \o body.goals)]


\* The variables of a loop over x that were there before the loop.
Outer(x, params, st) == (params \cap st.symbols) \ {x}

\* A slip: the iteration leaves its choices behind.
CommitNothing == <<>>

\* The cut after what must hold for an iteration to count.
Commit == <<Cut>>

StepGoal(x, step) == Equation(step, Var(Following(x)))

\* `for': one call for each iteration.  What must run before the value of the
\* step is known counts for the variables, and is not run.
DesugarFor(s, st) ==
  LET control == [st EXCEPT !.symbols = @ \cup {s.var}]
      init == DesugarGoals(<<Equate(Var(s.var), s.from)>>, control)
      cond == DesugarGoals(<<s.cond>>, init.st)
      body == DesugarGoals(s.body, cond.st)
      step == DesugarTerm(s.step, body.st)
      goals == cond.goals \o body.goals
      params == {s.var} \cup FreeVars(goals \o step.pre) \cup VarsIn(step.term)
      rule == goals \o Commit \o <<StepGoal(s.var, step.term)>>
                \o Rebinds(Outer(s.var, params, st))
                \o <<Goal("for", step.st.n, Recursing(params))>>
  IN [goals |-> init.goals \o <<Goal("for", step.st.n, Passing(params))>>,
      st |-> WithPredicate(step.st, "for", params, rule)]

\* `foreach': the body or nothing (feb) for the element at an index (fe).
DesugarForEach(s, st) ==
  LET arr == DesugarTerm(s.in, st)
      body == DesugarGoals(s.body, [arr.st EXCEPT !.symbols = @ \cup {s.var}])
      params == {s.var} \cup FreeVars(body.goals)
      feb == WithPredicate(body.st, "feb", params, body.goals \o <<Cut>>)
      own == params \cup {Array, Index}
      rule == <<Goal("array_at", 0, <<Var(Array), Var(Index), Var(s.var)>>),
                Goal("feb", body.st.n, Passing(params))>>
                \o Commit \o <<StepGoal(Index, Arith("+", Var(Index), Num(1)))>>
                \o Rebinds({Array} \cup Outer(s.var, params, st))
                \o <<Goal("fe", feb.n, Recursing(own))>>
  IN [goals |-> arr.pre \o
        <<Goal("fe", feb.n, [x \in own |-> IF x = Array THEN arr.term
                                           ELSE IF x = Index THEN Num(0) ELSE Var(x)])>>,
      st |-> WithPredicate(feb, "fe", own, rule)]

RECURSIVE DesugarArgs(_, _)
DesugarArgs(args, st) ==
  IF args = <<>> THEN [terms |-> <<>>, pre |-> <<>>, st |-> st]
  ELSE LET first == DesugarTerm(Head(args), st)
           others == DesugarArgs(Tail(args), first.st)
       IN [terms |-> <<first.term>> \o others.terms, pre |-> first.pre \o others.pre,
           st |-> others.st]

\* Calls, comparisons and equations: the pre-goals of their terms, then they.
DesugarPlain(s, st) ==
  LET args == DesugarArgs(IF s.kind = "call" THEN s.args ELSE <<s.l, s.r>>, st)
  IN [goals |-> Append(args.pre,
        CASE s.kind = "call" -> Goal(s.pred, 0, args.terms)
          [] s.kind = "compare" -> Goal(s.op, 0, args.terms)
          [] s.kind = "equate" -> Equation(args.terms[1], args.terms[2])),
      st |-> args.st]

DesugarGoal(s, st) ==
  CASE s.kind = "if" -> DesugarIf(s, st)
    [] s.kind = "for" -> DesugarFor(s, st)
    [] s.kind = "foreach" -> DesugarForEach(s, st)
    [] OTHER -> DesugarPlain(s, st)

\* createGoal(): the statements of a query or a body, in their order.
DesugarGoals(ss, st) ==
  IF ss = <<>> THEN [goals |-> <<>>, st |-> st]
  ELSE LET first == DesugarGoal(Head(ss), st)
           others == DesugarGoals(Tail(ss), first.st)
       IN [goals |-> first.goals \o others.goals, st |-> others.st]

=============================================================================
