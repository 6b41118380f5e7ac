--------------------------- MODULE LoopsReference ---------------------------
(***************************************************************************)
(* What a query with loops means, read as the source is written (SPEC.md   *)
(* sections 9, 10 and 12): without synthesized predicates, pre-goals, cuts *)
(* or scopes.  Loops is compared with it.                                  *)
(*                                                                         *)
(* The meaning of statements is a sequence of what happens, in order: a    *)
(* print, an error, or a way on, which is the environment of the variables *)
(* that are bound then.                                                    *)
(***************************************************************************)
EXTENDS Loops

Printed(d) == [is |-> "print", val |-> IF d.is = "value" THEN <<d.val.val>> ELSE <<>>]
Mistake == <<[is |-> "error"]>>
On(env) == <<[is |-> "way", env |-> env]>>
With(env, x, v) == [y \in DOMAIN env \cup {x} |-> IF y = x THEN v ELSE env[y]]

\* What follows each way on.
Then(events, More(_)) ==
  FlattenSeq([k \in DOMAIN events |->
    IF events[k].is = "way" THEN More(events[k].env) ELSE <<events[k]>>])

Ways(events) == {k \in DOMAIN events : events[k].is = "way"}

\* What happens up to the first way on.
Once(events) ==
  IF Ways(events) = {} THEN events ELSE SubSeq(events, 1, Min(Ways(events)))

\* A part that is tried once: what it does, and then More with its way on, or
\* Otherwise when it has none.
TryOnce(events, More(_), Otherwise) ==
  IF Ways(events) = {} THEN events \o Otherwise ELSE Then(Once(events), More)

-----------------------------------------------------------------------------
(* Terms: a value, a free variable, no value, or an error.                 *)

Value1(v) == [is |-> "value", val |-> v]
NoValue(why) == [is |-> why, val |-> Num(0)]

\* The worse of what two operands are.
Worse(l, r) ==
  IF "fails" \in {l.is, r.is} THEN NoValue("fails") ELSE NoValue("error")

RECURSIVE Denote(_, _)
Denote(t, env) ==
  CASE t.kind = "var" -> IF t.name \in DOMAIN env THEN Value1(env[t.name]) ELSE NoValue("free")
    [] t.kind = "deref" ->
         LET m == Denote(t.of, env) IN
         IF m.is = "value" /\ m.val.kind = "map" /\ t.key \in DOMAIN m.val.val
           THEN Value1(m.val.val[t.key]) ELSE NoValue("fails")
    [] t.kind \in {"arith", "range"} ->
         LET l == Denote(IF t.kind = "arith" THEN t.l ELSE t.from, env)
             r == Denote(IF t.kind = "arith" THEN t.r ELSE t.to, env)
             numbers == /\ l.is = "value" /\ l.val.kind = "num"
                        /\ r.is = "value" /\ r.val.kind = "num"
             literal == t.kind = "range" /\ t.from.kind = "num" /\ t.to.kind = "num"
             elements == {n \in -Half..Half - 1 : l.val.val <= n /\ n <= r.val.val}
         IN IF ~numbers THEN Worse(l, r)
            ELSE IF t.kind = "arith"
              THEN IF Apply(t.op, l.val.val, r.val.val) = {} THEN NoValue("error")
                   ELSE Value1(Num(CHOOSE v \in Apply(t.op, l.val.val, r.val.val) : TRUE))
            ELSE IF Cardinality(elements) > RangeMax /\ ~literal THEN NoValue("error")
            ELSE Value1(Arr([k \in 1..Min({RangeMax, Cardinality(elements)}) |->
                               Num(l.val.val + k - 1)]))
    [] OTHER -> Value1(t)

\* The ways on of l = r.
Equal(l, r, env) ==
  LET a == Denote(l, env)
      b == Denote(r, env)
      known == {a.is, b.is}
  IN CASE "fails" \in known -> <<>>
       [] "fails" \notin known /\ "error" \in known -> Mistake
       [] known = {"value"} -> IF a.val = b.val THEN On(env) ELSE <<>>
       [] a.is = "free" /\ b.is = "value" -> On(With(env, l.name, b.val))
       [] b.is = "free" /\ a.is = "value" -> On(With(env, r.name, a.val))
       [] known = {"free"} -> On(env)

Compared(s, env) ==
  LET a == Denote(s.l, env)
      b == Denote(s.r, env)
      known == {a.is, b.is}
  IN IF "fails" \in known THEN <<>>
     ELSE IF known = {"value"} /\ a.val.kind = "num" /\ b.val.kind = "num"
       THEN IF Compares(s.op, a.val.val, b.val.val) THEN On(env) ELSE <<>>
     ELSE Mistake

RECURSIVE Matched(_, _, _)
Matched(args, fact, env) ==
  IF args = <<>> THEN On(env)
  ELSE Then(Equal(Head(args), Head(fact), env),
            LAMBDA e : Matched(Tail(args), Tail(fact), e))

\* Each fact of the predicate, in its order.
LookedUp(s, env) ==
  FlattenSeq([k \in DOMAIN Facts |->
    IF Facts[k].pred = s.pred /\ Len(Facts[k].args) = Len(s.args)
      THEN Matched(s.args, Facts[k].args, env) ELSE <<>>])

-----------------------------------------------------------------------------
(* Statements.                                                             *)

RECURSIVE Named(_), Mentioned(_)

\* The variables of a source term, and of statements.
Named(t) ==
  CASE t.kind = "var" -> {t.name}
    [] t.kind = "arith" -> Named(t.l) \cup Named(t.r)
    [] t.kind = "range" -> Named(t.from) \cup Named(t.to)
    [] t.kind = "deref" -> Named(t.of)
    [] OTHER -> {}
Mentioned(ss) ==
  IF ss = <<>> THEN {}
  ELSE LET s == Head(ss) IN Mentioned(Tail(ss)) \cup
    CASE s.kind = "call" -> UNION {Named(s.args[k]) : k \in DOMAIN s.args}
      [] s.kind \in {"compare", "equate"} -> Named(s.l) \cup Named(s.r)
      [] s.kind = "if" -> Mentioned(<<s.cond>> \o s.body)
      [] s.kind = "foreach" -> {s.var} \cup Named(s.in) \cup Mentioned(s.body)
      [] s.kind = "for" ->
           {s.var} \cup Named(s.from) \cup Mentioned(<<s.cond>> \o s.body) \cup Named(s.step)

RECURSIVE Run(_, _, _), Does(_, _, _), EachOf(_, _, _, _), While(_, _, _)

\* Statements one after the other; known are the variables mentioned so far.
Run(ss, known, env) ==
  IF ss = <<>> THEN On(env)
  ELSE Then(Does(Head(ss), known, env),
            LAMBDA e : Run(Tail(ss), known \cup Mentioned(<<Head(ss)>>), e))

Does(s, known, env) ==
  CASE s.kind = "call" /\ s.pred = "print" ->
         LET d == Denote(s.args[1], env) IN
         IF d.is = "fails" THEN <<>> ELSE <<Printed(d)>> \o On(env)
    [] s.kind = "call" /\ s.pred # "print" -> LookedUp(s, env)
    [] s.kind = "equate" -> Equal(s.l, s.r, env)
    [] s.kind = "compare" -> Compared(s, env)
    [] s.kind = "if" ->
         TryOnce(Run(<<s.cond>>, known, env),
                 LAMBDA e : Run(s.body, known \cup Mentioned(<<s.cond>>), e), On(env))
    [] s.kind = "foreach" ->
         LET d == Denote(s.in, env) IN
         IF d.is = "fails" THEN <<>>
         ELSE IF d.is = "error" THEN Mistake
         ELSE EachOf(s, IF d.val.kind = "arr" THEN d.val.val ELSE <<>>, known, env)
    [] s.kind = "for" ->
         Then(Equal(Var(s.var), s.from, [x \in DOMAIN env \ {s.var} |-> env[x]]),
              LAMBDA e : While(s, known, e))

\* What is left of an iteration: the variables known before the loop.
Kept(known, env) == [x \in DOMAIN env \cap known |-> env[x]]

\* An element after the other: the first way through the body, or none.
EachOf(s, elements, known, env) ==
  IF elements = <<>> THEN On(env)
  ELSE TryOnce(Run(s.body, known \cup {s.var}, With(env, s.var, Head(elements))),
               LAMBDA e : EachOf(s, Tail(elements), known, Kept(known \ {s.var}, e)),
               EachOf(s, Tail(elements), known, env))

\* As long as there is a way through the condition and the body.
While(s, known, env) ==
  TryOnce(Run(<<s.cond>> \o s.body, known \cup {s.var}, env),
          LAMBDA e :
            LET d == Denote(s.step, e) IN
            CASE d.is = "value" ->
                   While(s, known, With(Kept(known \ {s.var}, e), s.var, d.val))
              [] d.is = "error" -> Mistake
              [] OTHER -> <<>>,
          On(Kept(known \ {s.var}, env)))

Meaning ==
  [q \in Queries |->
     LET events == Run(q, {}, <<>>) IN
     [k \in DOMAIN events |->
        IF events[k].is = "way" THEN [is |-> "solution"] ELSE events[k]]]

-----------------------------------------------------------------------------


\* When a loop goes on to its next iteration nothing is left to try of the
\* iterations before: no two choices are calls of the same loop.
IterationsCommitted ==
  LET called == [k \in DOMAIN choices |-> Head(choices[k].goals).goal] IN
  \A i, j \in DOMAIN choices :
    i < j /\ called[i].pred \in {"for", "fe"} =>
      <<called[i].pred, called[i].n>> # <<called[j].pred, called[j].n>>

\* Every call of a foreach predicate, the first as well as the next ones, has
\* a loop variable that is not bound (the call site and the recursive call).
LoopVariableStartsUnbound ==
  mode = "run" /\ goals # <<>> /\ Head(goals).goal.pred = "fe" =>
    LET call == Head(goals)
        loopVar == CHOOSE x \in DOMAIN call.goal.args :
          \E k \in DOMAIN clauses : /\ clauses[k].pred = "fe" /\ clauses[k].n = call.goal.n
                                    /\ clauses[k].body # <<>>
                                    /\ clauses[k].body[1].args[3] = Var(x)
    IN  Value(store, call.goal.args[loopVar], call.scope).term.kind = "var"

\* Every query comes to its end.
QueryEnds == <>(mode = "done")

=============================================================================
