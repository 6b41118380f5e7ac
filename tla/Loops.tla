------------------------------- MODULE Loops --------------------------------
(***************************************************************************)
(* A query with loops, run: the goals Desugar makes of it, against the     *)
(* facts of the program and the clauses synthesized, with the builtins     *)
(* they need (vault-unify-clause-builtin-{unify,arith,array,member}.cpp).  *)
(*                                                                         *)
(* The search and the bindings are those of Solver and Bindings, in short: *)
(* a scope for each clause tried, a store of what its variables are bound  *)
(* to, and a stack of choices for the calls that have candidates left.     *)
(***************************************************************************)
EXTENDS Desugar, SequencesExt

CONSTANTS
  Queries,    \* the queries to run: sequences of statements
  Facts,      \* the facts of the program: sequence of [pred, args]
  MaxScopes   \* bound on the scopes made

VARIABLES
  query,      \* the query run
  clauses,    \* the clauses: the facts, and those synthesized for the query
  mode,       \* "run" a goal, go "back" to a choice, or "done"
  goals,      \* goals to run: [goal, scope, level], level for the cut
  store,      \* what variables are bound to: <<scope, name>> to [term, scope]
  choices,    \* calls with the candidates not tried yet, the latest last
  out,        \* what was printed, the errors and the solutions, in order
  scopes      \* the scopes in use, 0 for that of the query
given == <<query, clauses>>
vars == <<given, mode, goals, store, choices, out, scopes>>

FactClauses ==
  [k \in DOMAIN Facts |-> [pred |-> Facts[k].pred, n |-> 0, head |-> Facts[k].args, body |-> <<>>]]

In(gs, scope, level) ==
  [k \in DOMAIN gs |-> [goal |-> gs[k], scope |-> scope, level |-> level]]

Init ==
  /\ query \in Queries
  /\ LET parsed == DesugarGoals(query, Nothing)
     IN  /\ clauses = FactClauses \o parsed.st.clauses
         /\ goals = In(parsed.goals, 0, 0)
  /\ mode = "run"
  /\ store = <<>>
  /\ choices = <<>>
  /\ out = <<>>
  /\ scopes = 0

-----------------------------------------------------------------------------
(* Terms in a scope.  A result is a set, empty for a failure.              *)

RECURSIVE Value(_, _, _)

\* getBoundTerm(): what a term of a scope stands for.
Value(s, t, f) ==
  IF t.kind = "var" /\ <<f, t.name>> \in DOMAIN s
    THEN LET b == s[<<f, t.name>>] IN Value(s, b.term, b.scope)
    ELSE [term |-> t, scope |-> f]

Bound(s, v, to) ==
  [x \in DOMAIN s \cup {<<v.scope, v.term.name>>} |->
     IF x = <<v.scope, v.term.name>> THEN to ELSE s[x]]

\* unifyTerm(), of a variable or a constant with another: the store after it.
Unify(s, t, f, u, g) ==
  LET a == Value(s, t, f)
      b == Value(s, u, g)
  IN IF a = b THEN {s}
     ELSE IF a.term.kind = "var" THEN {Bound(s, a, b)}
     ELSE IF b.term.kind = "var" THEN {Bound(s, b, a)}
     ELSE IF a.term = b.term THEN {s} ELSE {}

\* The arguments of a call in scope f with a clause head in scope g.
UnifyHead(s, args, f, head, g) ==
  FoldSet(LAMBDA x, stores : UNION {Unify(r, args[x], f, head[x], g) : r \in stores},
          {s}, DOMAIN head)

Wrap(n) == ((n + Half) % (2 * Half)) - Half

\* Division as C++ divides: towards zero.
Quotient(a, b) ==
  LET magnitude(n) == IF n < 0 THEN -n ELSE n
      q == magnitude(a) \div magnitude(b)
  IN IF (a < 0) = (b < 0) THEN q ELSE -q

Apply(op, a, b) ==
  CASE op = "+" -> {Wrap(a + b)}
    [] op = "-" -> {Wrap(a - b)}
    [] op = "*" -> {Wrap(a * b)}
    [] op = "/" -> IF b = 0 THEN {} ELSE {Wrap(Quotient(a, b))}

RECURSIVE Evaluate(_, _, _)

\* evaluateArith(): an operand is read in the scope of the goal.
Evaluate(s, t, f) ==
  LET v == Value(s, t, f).term IN
  CASE v.kind = "num" -> {v.val}
    [] v.kind = "arith" ->
         UNION {Apply(v.op, l, r) : l \in Evaluate(s, v.l, f), r \in Evaluate(s, v.r, f)}
    [] OTHER -> {}

Compares(op, a, b) ==
  CASE op = "<" -> a < b
    [] op = "<=" -> a <= b
    [] op = ">" -> a > b
    [] op = ">=" -> a >= b
    [] op = "==" -> a = b
    [] op = "!=" -> a # b

-----------------------------------------------------------------------------
(* The steps.                                                              *)

At(preds) == mode = "run" /\ goals # <<>> /\ Head(goals).goal.pred \in preds
Args == Head(goals).goal.args
Scope == Head(goals).scope

Proceed(s) ==
  /\ goals' = Tail(goals)
  /\ store' = s
  /\ UNCHANGED <<given, mode, choices, out, scopes>>

Backtrack(events) ==
  /\ mode' = "back"
  /\ out' = out \o events
  /\ UNCHANGED <<given, goals, store, choices, scopes>>

\* A slip: a goal that does not hold is tried again, for ever.
SettleAgain(result) ==
  IF result = {} THEN UNCHANGED vars ELSE \E s \in result : Proceed(s)

\* unificationDone(): the goal holds with the new store, or it does not.
Settle(result) ==
  IF result = {} THEN Backtrack(<<>>) ELSE \E s \in result : Proceed(s)

Error == Backtrack(<<[is |-> "error"]>>)

PrintTerm ==
  /\ At({"print"})
  /\ LET v == Value(store, Args[1], Scope).term
     IN  out' = Append(out, [is |-> "print", val |-> IF v.kind = "var" THEN <<>> ELSE <<v.val>>])
  /\ goals' = Tail(goals)
  /\ UNCHANGED <<given, mode, store, choices, scopes>>

UnifyTerms ==
  /\ At({"unify"})
  /\ Settle(Unify(store, Args[1], Scope, Args[2], Scope))

Eval ==
  /\ At({"eval"})
  /\ LET values == Evaluate(store, Args[1], Scope)
     IN  IF values = {} THEN Error
         ELSE Settle(UNION {Unify(store, Num(v), Scope, Args[2], Scope) : v \in values})

CompareSides ==
  /\ At({"<", "<=", ">", ">=", "==", "!="})
  /\ LET sides == Evaluate(store, Args[1], Scope) \X Evaluate(store, Args[2], Scope)
     IN  IF sides = {} THEN Error
         ELSE Settle({s \in {store} : \E p \in sides :
                        Compares(Head(goals).goal.pred, p[1], p[2])})

\* The elements of a dynamic range.  Their count is an int64.
Count(a, b) == IF b >= a THEN Wrap(b - a + 1) ELSE 0
Elements(a, b) == Arr([k \in 1..Count(a, b) |-> Num(a + k - 1)])

\* Too many elements are an error here, and not a shorter array.
MakeRange ==
  /\ At({"range"})
  /\ LET bounds == Evaluate(store, Args[1], Scope) \X Evaluate(store, Args[2], Scope)
     IN  IF \E p \in bounds : Count(p[1], p[2]) <= RangeMax
           THEN Settle(UNION {Unify(store, Elements(p[1], p[2]), Scope, Args[3], Scope) :
                                p \in bounds})
           ELSE Error

ArrayAt ==
  /\ At({"array_at"})
  /\ LET arr == Value(store, Args[1], Scope).term
         idx == Value(store, Args[2], Scope).term
     IN  IF arr.kind # "arr" THEN Backtrack(<<>>)
         ELSE IF idx.kind # "num" THEN Error
         ELSE IF idx.val + 1 \notin DOMAIN arr.val THEN Backtrack(<<>>)
         ELSE Settle(Unify(store, arr.val[idx.val + 1], Scope, Args[3], Scope))

Member ==
  /\ At({"member"})
  /\ LET m == Value(store, Args[1], Scope).term
     IN  IF m.kind = "map" /\ Args[2].val \in DOMAIN m.val
           THEN Settle(Unify(store, m.val[Args[2].val], Scope, Args[3], Scope))
           ELSE Backtrack(<<>>)

\* The choices of the call that entered the clause, and later ones, go.
CutChoices ==
  /\ At({"cut"})
  /\ choices' = SubSeq(choices, 1, Head(goals).level)
  /\ goals' = Tail(goals)
  /\ UNCHANGED <<given, mode, store, out, scopes>>

UserPreds == {clauses[k].pred : k \in DOMAIN clauses}

\* The candidates of a call: clauses of its predicate, in their order.
CallGoal ==
  /\ At(UserPreds)
  /\ LET g == Head(goals).goal
     IN  choices' = Append(choices,
           [goals |-> goals, store |-> store, scopes |-> scopes,
            left |-> SelectSeq(clauses, LAMBDA c : /\ c.pred = g.pred /\ c.n = g.n
                                                   /\ DOMAIN c.head = DOMAIN g.args)])
  /\ mode' = "back"
  /\ UNCHANGED <<given, goals, store, out, scopes>>

\* The next candidate of the latest choice, in a new scope; the scopes made since
\* that choice are of no use any more.
TryCandidate ==
  /\ mode = "back" /\ choices # <<>> /\ Last(choices).left # <<>>
  /\ Last(choices).scopes < MaxScopes
  /\ LET top == Last(choices)
         call == Head(top.goals)
         c == Head(top.left)
         scope == top.scopes + 1
         result == UnifyHead(top.store, call.goal.args, call.scope, c.head, scope)
     IN  IF result = {} THEN UNCHANGED <<mode, goals, store, scopes>>
         ELSE /\ mode' = "run"
              /\ goals' = In(c.body, scope, Len(choices) - 1) \o Tail(top.goals)
              /\ store' \in result
              /\ scopes' = scope
  /\ choices' = [choices EXCEPT ![Len(choices)].left = Tail(@)]
  /\ UNCHANGED <<given, out>>

GiveUpChoice ==
  /\ mode = "back" /\ choices # <<>> /\ Last(choices).left = <<>>
  /\ choices' = Front(choices)
  /\ UNCHANGED <<given, mode, goals, store, out, scopes>>

Solution ==
  /\ mode = "run" /\ goals = <<>>
  /\ Backtrack(<<[is |-> "solution"]>>)

Finish ==
  /\ mode = "back" /\ choices = <<>>
  /\ mode' = "done"
  /\ UNCHANGED <<given, goals, store, choices, out, scopes>>

Next ==
  \/ PrintTerm \/ UnifyTerms \/ Eval \/ CompareSides \/ MakeRange \/ ArrayAt \/ Member
  \/ CutChoices \/ CallGoal \/ TryCandidate \/ GiveUpChoice \/ Solution \/ Finish

Spec == Init /\ [][Next]_vars

\* The worker goes on with a job until it is done.
FairSpec == Spec /\ WF_vars(Next)

=============================================================================
