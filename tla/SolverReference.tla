-------------------------- MODULE SolverReference --------------------------
(***************************************************************************)
(* What a query of the language means, without stacks, iterators, tomb-    *)
(* stones or generations: a recursive depth-first search that hands the    *)
(* database from one goal to the next, in the order of SPEC.md sections 2, *)
(* 7, 8, 11.2 and 13.  Solver is compared with it.                         *)
(*                                                                         *)
(* A call walks the clauses that are live when it starts.  A goal carries  *)
(* the level of the call whose clause it comes from, 1 for the query; cut  *)
(* abandons everything down to that level, once what follows it is done.   *)
(***************************************************************************)
EXTENDS Solver, Selections

CONSTANT MaxSteps   \* bound on the searches within searches

\* Every world has its builtins from the start (World::World(),
\* vault-unify-world.cpp), and an atom makes something of each.
Atoms == {g.atom : g \in {h \in CaseGoals : h.op # "cut"}}

ASSUME ReferenceAssumption ==
  /\ MaxSteps \in Nat
  /\ \A c \in Cases : \E k \in 1..Len(c.db) : c.db[k].builtin /\ ~IsRetired(c.db[k])
  /\ \A a \in Atoms : Outcome[a] \in {"last", "not", "error"}

-----------------------------------------------------------------------------
(* The state of a search: the live clauses, each with its place among all  *)
(* that were ever appended, and how many those are; the solutions, the     *)
(* errors, and the level that is being abandoned, 0 for none.              *)

Subgoal(a) == [op |-> "call", atom |-> a]
Levelled == [goal : CaseGoals \cup {Subgoal(a) : a \in Atoms}, level : Nat]

PlainClauses == [head : CaseHeads \cup Atoms, body : Seq(CaseGoals), builtin : BOOLEAN]
Placed == [id : Nat, clause : PlainClauses]

States ==
  [live : Seq(Placed), total : Nat, solutions : Seq(Seq(Nat)), errors : Nat, cut : Nat,
   ended : BOOLEAN]

\* A clause without its stamps, and the clauses of a list that are not retired.
Plain(c) == [head |-> c.head, body |-> c.body, builtin |-> c.builtin]
Listed(list) == [k \in 1..Len(list) |-> [id |-> k, clause |-> Plain(list[k])]]
LivePlaces(list) == {k \in 1..Len(list) : ~IsRetired(list[k])}
Live(list) == Selected(Listed(list), LivePlaces(list))

State(list, solutions, errors) ==
  [live |-> Live(list), total |-> Len(list), solutions |-> solutions, errors |-> errors,
   cut |-> 0, ended |-> TRUE]

Fact(a) == [head |-> a, body |-> <<>>, builtin |-> FALSE]
Added(st, a) ==
  [st EXCEPT !.total = @ + 1, !.live = Append(@, [id |-> st.total + 1, clause |-> Fact(a)])]

\* The places of the facts that match an atom, and the state without the first.
Matching(st, a) == {k \in 1..Len(st.live) : st.live[k].clause = Fact(a)}
Removed(st, a) == [st EXCEPT !.live = Without(@, Min(Matching(st, a)))]

Failed(st) == [st EXCEPT !.errors = @ + 1]

-----------------------------------------------------------------------------
(* A search: for goals, the first of which is tried with the choices, at a *)
(* depth of calls, on a path, from a state.                                *)

Searches ==
  [choices : Seq(Placed), goals : Seq(Levelled), depth : Nat, path : Seq(Nat), from : States]

Rest(choices, goals, depth, path, st) ==
  [choices |-> choices, goals |-> goals, depth |-> depth, path |-> path, from |-> st]
Whole(goals, depth, path, st) == Rest(st.live, goals, depth, path, st)

At(goals, level) == [k \in 1..Len(goals) |-> [goal |-> goals[k], level |-> level]]

\* The candidate is of the predicate of the atom.
SamePredicate(c, a) == c.head[1] = a[1]

\* Does a candidate hold for a goal?  A negated goal holds through a candidate
\* of its predicate that does not match it.
Holds(c, g) ==
  LET matches == IF c.builtin THEN Outcome[g.atom] = "last" ELSE c.head = g.atom
  IN  SamePredicate(c, g.atom) /\ (matches <=> g.op # "not")

Errs(c, g) == SamePredicate(c, g.atom) /\ c.builtin /\ Outcome[g.atom] = "error"

\* What becomes of a search, S being what becomes of the ones in it: of what
\* follows the first goal, ...
Following(s, path, st) == Whole(Tail(s.goals), s.depth, path, st)
Onward(S, s, path, st) == S[Following(s, path, st)]

\* ... of a cut, when what follows it is done, ...
CutTo(level, end) == [end EXCEPT !.cut = IF @ # 0 /\ @ < level THEN @ ELSE level]

\* ... of a findall(), whose own search starts afresh, ...
Sub(s) ==
  Whole(At(<<Subgoal(Head(s.goals).goal.atom)>>, 1), 1, <<>>, [s.from EXCEPT !.solutions = <<>>])
Back(s, sub) == [sub EXCEPT !.solutions = s.from.solutions, !.cut = 0]

Collected(S, s, sub) ==
  IF Head(s.goals).goal.out \in {None, Len(sub.solutions)}
    THEN Onward(S, s, Append(s.path, 0), Back(s, sub)) ELSE Back(s, sub)

\* ... and of a call with its first choice, and then the others unless it is cut.
Entered(s) ==
  LET g == Head(s.goals).goal
      c == Head(s.choices)
      depth == s.depth + 1
      body == IF g.op = "not" THEN <<>> ELSE c.clause.body
  IN  Whole(At(body, depth) \o Tail(s.goals), depth, Append(s.path, c.id), s.from)

Tried(S, s) ==
  LET g == Head(s.goals).goal
      c == Head(s.choices).clause
  IN  IF Errs(c, g) THEN Failed(s.from) ELSE IF Holds(c, g) THEN S[Entered(s)] ELSE s.from

Returned(st, depth) == [st EXCEPT !.cut = IF @ = depth THEN 0 ELSE @]

Resumed(s, done) == Rest(Tail(s.choices), s.goals, s.depth, s.path, done)
Others(S, s, done) ==
  IF done.cut # 0 THEN Returned(done, s.depth + 1) ELSE S[Resumed(s, done)]

Found(S, s) ==
  IF s.goals = <<>> THEN [s.from EXCEPT !.solutions = Append(@, s.path)]
  ELSE LET g == Head(s.goals).goal IN
    CASE g.op = "cut" -> CutTo(Head(s.goals).level, Onward(S, s, s.path, s.from))
      [] g.op = "assert" ->
           IF g.atom \in Ground THEN Onward(S, s, s.path, Added(s.from, g.atom))
           ELSE Failed(s.from)
      [] g.op = "retract" ->
           IF Matching(s.from, g.atom) = {} THEN s.from
           ELSE Onward(S, s, s.path, Removed(s.from, g.atom))
      [] g.op = "findall" -> Collected(S, s, S[Sub(s)])
      [] OTHER -> IF s.choices = <<>> THEN s.from ELSE Others(S, s, Tried(S, s))

\* A search that does not end in n steps is left where it is.
Search[n \in Nat] ==
  [s \in Searches |->
     IF n = 0 \/ ~s.from.ended THEN [s.from EXCEPT !.ended = FALSE] ELSE Found(Search[n - 1], s)]

\* The meaning of the query of a case in the database the job finds.
Meaning ==
  [c \in Cases |-> Search[MaxSteps][Whole(At(c.query, 1), 1, <<>>, State(c.db, <<>>, 0))]]

-----------------------------------------------------------------------------

\* The job finds the solutions the reference finds, on the same paths and in
\* the same order, never another one on the way; and when its search has ended
\* it has left the same database and met the same errors.
SolvesLikeReference ==
  LET meaning == Meaning[given] IN
  meaning.ended =>
    /\ IsPrefix(jobs[1].solutions, meaning.solutions)
    /\ Finished /\ jobs[1].stack = <<>> =>
         /\ jobs[1].solutions = meaning.solutions
         /\ recorded = meaning.errors
         /\ Live(db) = meaning.live

=============================================================================
